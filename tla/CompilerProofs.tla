--------------------------- MODULE CompilerProofs ----------------------------
\* What holds of the compiler for every project: that the verdict of a compile
\* is right, whatever the sources, as long as they are sound (SoundSources), and
\* that what it writes reads every runtime key from one store and names real
\* hosts. At the end, what holds of the sizes for every request.
EXTENDS Compiler, TLAPS, SequenceTheorems, FiniteSetTheorems, WellFoundedInduction

\* A tabled function is the function.
LEMMA TabledIs ==
    ASSUME NEW f
    PROVE  Tabled(f) = f
BY DEF Tabled

-----------------------------------------------------------------------------
\* The order of the directories, and the files of each.
LEMMA OutputDirsIs ==
    OutputDirs = <<<<"dev", 1>>, <<"test", 1>>, <<"stage", 1>>, <<"prod", 1>>,
                   <<"project", "development">>, <<"project", "production">>>>
<1>1. EnvDirs = <<<<"dev", 1>>, <<"test", 1>>, <<"stage", 1>>, <<"prod", 1>>>>
    BY DEF EnvDirs, EnvDir, Envs
<1> DEFINE a == <<<<"dev", 1>>, <<"test", 1>>, <<"stage", 1>>, <<"prod", 1>>>>
           b == <<<<"project", "development">>, <<"project", "production">>>>
           D == {a[1], a[2], a[3], a[4], b[1], b[2]}
<1>2. a \in Seq(D) /\ b \in Seq(D) /\ Len(a) = 4 /\ Len(b) = 2  OBVIOUS
<1> HIDE DEF a, b, D
<1>3. /\ a \o b \in Seq(D) /\ Len(a \o b) = 6
      /\ \A i \in 1..6 : (a \o b)[i] = IF i <= 4 THEN a[i] ELSE b[i - 4]
    <2>1. /\ a \o b \in Seq(D) /\ Len(a \o b) = Len(a) + Len(b)
          /\ \A i \in 1..(Len(a) + Len(b)) : (a \o b)[i] = IF i <= Len(a) THEN a[i] ELSE b[i - Len(a)]
        BY <1>2, ConcatProperties
    <2>2. Len(a) + Len(b) = 6
        BY <1>2
    <2> QED  BY <1>2, <2>1, <2>2
<1>4. \A s \in Seq(D) : Len(s) = 6 => s = <<s[1], s[2], s[3], s[4], s[5], s[6]>>
    OBVIOUS
<1>5. a \o b = <<(a \o b)[1], (a \o b)[2], (a \o b)[3], (a \o b)[4], (a \o b)[5], (a \o b)[6]>>
    BY <1>3, <1>4
<1>6. (a \o b)[1] = a[1] /\ (a \o b)[2] = a[2] /\ (a \o b)[3] = a[3] /\ (a \o b)[4] = a[4]
      /\ (a \o b)[5] = b[1] /\ (a \o b)[6] = b[2]
    BY <1>3
<1>7. a \o b = <<a[1], a[2], a[3], a[4], b[1], b[2]>>
    BY <1>5, <1>6
<1> QED  BY <1>1, <1>7 DEF OutputDirs, a, b

\* The directory of a test slot is none of those that a compile writes.
LEMMA SlotIsApart ==
    ASSUME NEW k \in Slots, k # 1
    PROVE  SlotDir(k) \notin Elements(OutputDirs)
BY OutputDirsIs DEF Elements, SlotDir

FileNames == {"schedules.yml", "docker-compose.yml", "main.tf", "ansible"}

\* The files of a directory are a sequence of the four known names.
LEMMA FilesType ==
    ASSUME NEW doc, NEW dir
    PROVE  FilesOf(doc, dir) \in Seq(FileNames)
<1> DEFINE foundation == IF IsEnvDir(dir) THEN _env_foundation(doc, dir[1])
                         ELSE IF dir[2] = "development" THEN "fixed" ELSE doc.foundation
           a == IF IsEnvDir(dir) /\ HasClock(doc) THEN <<"schedules.yml">> ELSE <<>>
           b == IF foundation = "fixed" THEN <<"docker-compose.yml">> ELSE <<"main.tf">>
           c == IF foundation = "fixed" /\ dir[1] \in {"stage", "prod"} THEN <<"ansible">> ELSE <<>>
<1>1. a \in Seq(FileNames)
    <2>1. <<"schedules.yml">> \in Seq(FileNames) /\ <<>> \in Seq(FileNames)  BY DEF FileNames
    <2> QED  BY <2>1
<1>2. b \in Seq(FileNames)
    <2>1. <<"docker-compose.yml">> \in Seq(FileNames) /\ <<"main.tf">> \in Seq(FileNames)  BY DEF FileNames
    <2> HIDE DEF foundation
    <2> QED  BY <2>1
<1>3. c \in Seq(FileNames)
    <2>1. <<"ansible">> \in Seq(FileNames) /\ <<>> \in Seq(FileNames)  BY DEF FileNames
    <2> HIDE DEF foundation
    <2> QED  BY <2>1
<1>4. FilesOf(doc, dir) = a \o b \o c
    BY DEF FilesOf
<1> QED
    <2> HIDE DEF a, b, c
    <2> QED  BY <1>1, <1>2, <1>3, <1>4

\* The paths of a directory, in order, are those of its files, and lie in it.
LEMMA PathSeqType ==
    ASSUME NEW doc, NEW dir
    PROVE  /\ PathSeq(FilesOf(doc, dir), dir) \in Seq(PathsOf(doc, dir))
           /\ Elements(PathSeq(FilesOf(doc, dir), dir)) = PathsOf(doc, dir)
           /\ \A p \in PathsOf(doc, dir) : p[1] = dir
<1> DEFINE fs == FilesOf(doc, dir)
<1>1. fs \in Seq(FileNames)  BY FilesType
<1>2. PathSeq(fs, dir) = [i \in 1..Len(fs) |-> <<dir, fs[i]>>]
    BY <1>1 DEF PathSeq
<1>3. \A i \in 1..Len(fs) : <<dir, fs[i]>> \in PathsOf(doc, dir)
    BY <1>1 DEF PathsOf, Elements
<1>4. PathSeq(fs, dir) \in Seq(PathsOf(doc, dir))
    <2> HIDE DEF fs
    <2> QED  BY <1>1, <1>2, <1>3
<1>5. Elements(PathSeq(fs, dir)) = PathsOf(doc, dir)
    BY <1>1, <1>2 DEF PathsOf, Elements
<1> QED  BY <1>4, <1>5 DEF PathsOf

\* The six directories of a compile, all among those modelled.
LEMMA OutputDirsType ==
    /\ OutputDirs \in Seq(Elements(OutputDirs)) /\ Len(OutputDirs) = 6
    /\ Elements(OutputDirs) = {OutputDirs[i] : i \in 1..6}
    /\ Elements(OutputDirs) \subseteq AllDirs
<1>1. Len(OutputDirs) = 6 /\ DOMAIN OutputDirs = 1..6  BY OutputDirsIs
<1>2. OutputDirs \in Seq(Elements(OutputDirs))
    BY OutputDirsIs DEF Elements
<1> QED  BY <1>1, <1>2 DEF Elements, AllDirs

\* A set of naturals that is not empty has a least one.
LEMMA LeastOf ==
    ASSUME NEW T, T \subseteq Nat, T # {}
    PROVE  \E n \in T : \A m \in T : n <= m
<1>1. PICK n \in T : \A m \in T : <<m, n>> \notin OpToRel(<, Nat)
    BY WFMin, NatLessThanWellFounded
<1>2. \A m \in T : ~(m < n)
    BY <1>1 DEF OpToRel
<1> QED  BY <1>2

-----------------------------------------------------------------------------
\* An env that an accepted document is compiled to without a late error.
CompilesTo(s, src, tables) ==
    /\ IsDocument(src.doc) /\ \A e \in DOMAIN src.layer : Len(e) = 2
    /\ tables = Tables(src.layer) /\ Accepted(src, tables)
    /\ s = Scope(src.doc, tables, s.env, s.slot)

Emitted(s, src, tables) == CompilesTo(s, src, tables) /\ LateErrors(s) = {}

\* What a scope is made of: the document, the env's foundation, and for each
\* service the entry of its engine.
LEMMA ScopeIs ==
    ASSUME NEW s, NEW src, NEW tables, CompilesTo(s, src, tables)
    PROVE  /\ s.doc = src.doc /\ s.foundation = _env_foundation(src.doc, s.env)
           /\ \A id \in Ids(src.doc) :
                 LET e == EngineOf(src.doc, tables, id, s.foundation)
                 IN  Entry(s, id) = IF e = <<>> THEN [none |-> TRUE] ELSE tables[e]
<1> DEFINE doc == src.doc
           on == _env_foundation(doc, s.env)
           entry(id) == LET e == EngineOf(doc, tables, id, on)
                        IN  IF e = <<>> THEN [none |-> TRUE] ELSE tables[e]
           engine == [id \in Ids(doc) |-> entry(id)]
<1>1. Tabled(engine) = engine  BY TabledIs
<1>2. s = [doc |-> doc, env |-> s.env, slot |-> s.slot, foundation |-> on, engine |-> engine]
    BY <1>1 DEF CompilesTo, Scope
<1> HIDE DEF engine
<1>3. s.doc = doc /\ s.foundation = on /\ s.engine = engine
    BY <1>2
<1>4. \A id \in Ids(doc) : Entry(s, id) = entry(id)
    BY <1>3 DEF Entry, engine
<1> QED  BY <1>3, <1>4

\* An env is elastic only if its document is, and neither dev nor test is.
LEMMA FoundationType ==
    ASSUME NEW s, NEW src, NEW tables, CompilesTo(s, src, tables)
    PROVE  /\ s.foundation \in {"fixed", "elastic"} /\ src.doc.foundation \in {"fixed", "elastic"}
           /\ s.foundation = "elastic" => src.doc.foundation = "elastic" /\ s.env \notin {"dev", "test"}
<1>1. src.doc.foundation \in {"fixed", "elastic"}
    BY DEF CompilesTo, Accepted, Parses
<1> QED  BY <1>1, ScopeIs DEF _env_foundation

\* The parts of soundness, over the tables of the compile.
LEMMA SoundIs ==
    ASSUME NEW s, NEW src, NEW tables, CompilesTo(s, src, tables), Sound(src)
    PROVE  /\ PlainDocument(src.doc) /\ ShadowedHostsHavePorts(src.doc) /\ SoundTables(tables)
           /\ CoreHoldsNoKeys(src.doc, tables) /\ BackingHasPort(src.doc, tables)
<1>1. tables = Tables(src.layer)
    BY DEF CompilesTo
<1> QED  BY <1>1 DEF Sound

\* An id is that of a core service, or of a backing service.
LEMMA IdIs ==
    ASSUME NEW doc, NEW id \in Ids(doc)
    PROVE  \/ /\ IsCoreId(id) /\ id \in CoreServices(doc) /\ id = <<id[1], id[2]>>
              /\ id[1] \in Codebases(doc) /\ id[2] \in DOMAIN doc.codebases[id[1]].core_services
              /\ Declared(doc, id) = Core(doc, id)
           \/ /\ ~IsCoreId(id) /\ id[1] \in Backing(doc) /\ id = <<id[1]>>
              /\ Declared(doc, id) = doc.backing_services[id[1]]
<1>1. CASE id \in CoreServices(doc)
    <2>1. PICK cb \in Codebases(doc) :
              \E svc \in DOMAIN doc.codebases[cb].core_services : id = <<cb, svc>>
        BY <1>1 DEF CoreServices
    <2>2. PICK svc \in DOMAIN doc.codebases[cb].core_services : id = <<cb, svc>>
        BY <2>1
    <2>3. Len(id) = 2 /\ id[1] = cb /\ id[2] = svc  BY <2>2
    <2> QED  BY <1>1, <2>1, <2>2, <2>3 DEF IsCoreId, Declared
<1>2. CASE id \notin CoreServices(doc)
    <2>1. PICK b \in Backing(doc) : id = <<b>>
        BY <1>2 DEF Ids
    <2>2. Len(id) = 1 /\ id[1] = b  BY <2>1
    <2> QED  BY <2>1, <2>2 DEF IsCoreId, Declared
<1> QED  BY <1>1, <1>2

\* A service of a codebase is one of the document's core services.
LEMMA CoreIs ==
    ASSUME NEW doc, NEW cb \in Codebases(doc), NEW svc \in DOMAIN doc.codebases[cb].core_services
    PROVE  <<cb, svc>> \in CoreServices(doc) /\ <<cb, svc>> \in Ids(doc) /\ IsCoreId(<<cb, svc>>)
BY DEF CoreServices, Ids, IsCoreId
-----------------------------------------------------------------------------
\* What loading says of an entry.
LEMMA ShippedKeys ==
    ASSUME NEW e \in Shipped
    PROVE  DOMAIN Bundled[e] \subseteq EngineKeys
<1>1. /\ DOMAIN WebContainer \subseteq EngineKeys /\ DOMAIN WorkerContainer \subseteq EngineKeys
      /\ DOMAIN ClockContainer \subseteq EngineKeys
    BY DEF WebContainer, WorkerContainer, ClockContainer, Container, EngineKeys
<1>2. DOMAIN PostgresEngine \subseteq EngineKeys
    BY DEF PostgresEngine, EngineKeys
<1>3. DOMAIN RedisEngine \subseteq EngineKeys
    BY DEF RedisEngine, EngineKeys
<1>4. DOMAIN MinioEngine \subseteq EngineKeys
    BY DEF MinioEngine, EngineKeys
<1>5. DOMAIN S3Engine \subseteq EngineKeys
    BY DEF S3Engine, EngineKeys
<1>6. Bundled[e] \in {WebContainer, WorkerContainer, ClockContainer, PostgresEngine, RedisEngine,
                      MinioEngine, S3Engine}
    BY DEF Bundled, Shipped
<1> QED  BY <1>1, <1>2, <1>3, <1>4, <1>5, <1>6

\* No engine is the empty sequence, which stands for no engine.
LEMMA TablesAre ==
    ASSUME NEW layer, NEW tables, tables = Tables(layer), \A e \in DOMAIN layer : Len(e) = 2
    PROVE  <<>> \notin DOMAIN tables
<1> DEFINE merged == MergeTables(Bundled, layer)
<1>1. tables = [x \in DOMAIN merged |-> Merge(EmptyEntry, merged[x])]
    BY TabledIs DEF Tables
<1>2. DOMAIN merged = Shipped \cup DOMAIN layer
    BY DEF MergeTables, Bundled
<1>3. <<>> \notin Shipped
    BY DEF Shipped
<1>4. <<>> \notin DOMAIN layer
    <2>1. Len(<<>>) = 0  OBVIOUS
    <2> QED  BY <2>1
<1> HIDE DEF merged
<1> QED  BY <1>1, <1>2, <1>3, <1>4

\* What the loader has checked of an entry.
LEMMA EntryFacts ==
    ASSUME NEW layer, NEW tables, tables = Tables(layer), TablesLoad(layer), NEW e \in DOMAIN tables
    PROVE  /\ tables[e].foundation \in {"fixed", "elastic", "both"}
           /\ \A k \in DOMAIN tables[e].env : tables[e].env[k].kind \in {"text", "fixed", "minted", "secret"}
           /\ "none" \notin DOMAIN tables[e]
<1> DEFINE merged == MergeTables(Bundled, layer)
           raw == merged[e]
<1>1. tables = [x \in DOMAIN merged |-> Merge(EmptyEntry, merged[x])]
    BY TabledIs DEF Tables
<1>2. e \in DOMAIN merged /\ tables[e] = Merge(EmptyEntry, raw)
    BY <1>1
<1>3. EntryParses(raw)
    BY <1>2 DEF TablesLoad
<1>4. DOMAIN raw \subseteq EngineKeys
    <2>1. DOMAIN merged = Shipped \cup DOMAIN layer
        BY DEF MergeTables, Bundled
    <2>2. e \in DOMAIN layer => DOMAIN layer[e] \subseteq EngineKeys
        BY DEF TablesLoad, EntryIsValid
    <2>3. raw = IF e \in DOMAIN Bundled /\ e \in DOMAIN layer THEN MergeEntry(Bundled[e], layer[e])
                ELSE IF e \in DOMAIN layer THEN layer[e] ELSE Bundled[e]
        BY <1>2 DEF MergeTables
    <2>4. DOMAIN Bundled = Shipped  BY DEF Bundled
    <2>5. DOMAIN MergeEntry(Bundled[e], layer[e]) = DOMAIN Bundled[e] \cup DOMAIN layer[e]
        BY DEF MergeEntry
    <2> HIDE DEF merged, raw
    <2> QED  BY <1>2, <2>1, <2>2, <2>3, <2>4, <2>5, ShippedKeys
<1> HIDE DEF merged, raw
<1>5. tables[e].foundation = raw.foundation /\ raw.foundation \in {"fixed", "elastic", "both"}
    <2>1. Has(raw, "foundation") /\ raw.foundation \in {"fixed", "elastic", "both"}
        BY <1>3 DEF EntryParses
    <2> QED  BY <1>2, <2>1 DEF Merge, Has
<1>6. tables[e].env = Under(raw, "env", <<>>)
    BY <1>2 DEF Merge, Has, Under, EmptyEntry
<1>7. \A k \in DOMAIN Under(raw, "env", <<>>) : raw.env[k].kind \in {"text", "fixed", "minted", "secret"}
    BY <1>3 DEF EntryParses, EnvVarParses
<1>8. \A k \in DOMAIN Under(raw, "env", <<>>) : Under(raw, "env", <<>>) = raw.env
    BY DEF Under
<1>9. DOMAIN tables[e] \subseteq EngineKeys
    BY <1>2, <1>4 DEF Merge, EmptyEntry, EngineKeys
<1> QED  BY <1>5, <1>6, <1>7, <1>8, <1>9 DEF EngineKeys

-----------------------------------------------------------------------------
\* The entry of a service, wherever it has one.
LEMMA FirstIs ==
    ASSUME NEW places, places \subseteq Nat, places # {}
    PROVE  First(places) \in places /\ \A j \in places : First(places) <= j
BY LeastOf DEF First

\* The engines a backing service accepts are a list.
LEMMA EnginesAreListed ==
    ASSUME NEW doc, IsDocument(doc), NEW id \in Ids(doc), ~IsCoreId(id)
    PROVE  Declared(doc, id).engine \in Seq(STRING) /\ DOMAIN Declared(doc, id).engine \subseteq Nat
<1>1. Declared(doc, id).engine \in Seq(STRING)
    BY IdIs DEF IsDocument
<1> QED  BY <1>1

\* The engine chosen for a service is one of its role that supports the
\* foundation, and one the author listed.
LEMMA EngineIs ==
    ASSUME NEW doc, IsDocument(doc), NEW tables, NEW id \in Ids(doc), NEW foundation,
           EngineOf(doc, tables, id, foundation) # <<>>
    PROVE  LET e == EngineOf(doc, tables, id, foundation)
           IN  /\ e \in DOMAIN tables
               /\ e[1] = Declared(doc, id).role /\ Supports(tables[e], foundation)
               /\ ~IsCoreId(id) => e \in EntriesOf(tables, Declared(doc, id))
<1> DEFINE svc == Declared(doc, id)
<1>1. CASE IsCoreId(id)
    <2> DEFINE usable == {e \in DOMAIN tables : e[1] = svc.role /\ Supports(tables[e], foundation)}
    <2>1. usable # {} /\ EngineOf(doc, tables, id, foundation) = CHOOSE e \in usable : TRUE
        BY <1>1 DEF EngineOf, EngineForRole
    <2>2. (CHOOSE e \in usable : TRUE) \in usable
        BY <2>1
    <2> QED  BY <1>1, <2>1, <2>2
<1>2. CASE ~IsCoreId(id)
    <2> DEFINE usable == {i \in DOMAIN svc.engine :
                            /\ <<svc.role, svc.engine[i]>> \in DOMAIN tables
                            /\ Supports(tables[<<svc.role, svc.engine[i]>>], foundation)}
               first == First(usable)
    <2>1. usable # {} /\ EngineOf(doc, tables, id, foundation) = <<svc.role, svc.engine[first]>>
        BY <1>2 DEF EngineOf, EngineFor
    <2>2. first \in usable
        BY <1>2, <2>1, EnginesAreListed, FirstIs
    <2> HIDE DEF first
    <2>3. <<svc.role, svc.engine[first]>> \in EntriesOf(tables, svc)
        BY <2>2 DEF EntriesOf
    <2>4. <<svc.role, svc.engine[first]>>[1] = svc.role
        OBVIOUS
    <2> QED  BY <1>2, <2>1, <2>2, <2>3, <2>4
<1> QED  BY <1>1, <1>2

\* So is the entry of a service that has one.
LEMMA EntryIs ==
    ASSUME NEW s, NEW src, NEW tables, CompilesTo(s, src, tables),
           NEW id \in Ids(src.doc), ~Has(Entry(s, id), "none")
    PROVE  \E e \in DOMAIN tables :
              /\ Entry(s, id) = tables[e]
              /\ e[1] = Declared(src.doc, id).role /\ Supports(tables[e], s.foundation)
              /\ ~IsCoreId(id) => e \in EntriesOf(tables, Declared(src.doc, id))
<1> DEFINE e == EngineOf(src.doc, tables, id, s.foundation)
<1>1. Entry(s, id) = IF e = <<>> THEN [none |-> TRUE] ELSE tables[e]
    BY ScopeIs DEF Entry
<1>2. "none" \in DOMAIN [none |-> TRUE]
    OBVIOUS
<1>3. e # <<>> /\ Entry(s, id) = tables[e]
    BY <1>1, <1>2 DEF Has
<1>4. IsDocument(src.doc)
    BY DEF CompilesTo
<1>5. /\ e \in DOMAIN tables
      /\ e[1] = Declared(src.doc, id).role /\ Supports(tables[e], s.foundation)
      /\ ~IsCoreId(id) => e \in EntriesOf(tables, Declared(src.doc, id))
    BY <1>3, <1>4, EngineIs
<1> HIDE DEF e
<1> QED  BY <1>3, <1>5

\* On a host every service of a document for a host has one.
LEMMA HasAnEngine ==
    ASSUME NEW s, NEW src, NEW tables, CompilesTo(s, src, tables), SoundTables(tables),
           src.doc.foundation = "fixed", NEW id \in Ids(src.doc)
    PROVE  ~Has(Entry(s, id), "none")
<1> DEFINE doc == src.doc
           svc == Declared(doc, id)
           e == EngineOf(doc, tables, id, "fixed")
<1>1. s.foundation = "fixed"
    BY FoundationType
<1>2. RolesAndEngines(doc, tables) = {} /\ IsDocument(doc)
    BY DEF CompilesTo, Accepted, Issues
<1>3. /\ \A c \in CoreServices(doc) : Core(doc, c).role \in Roles(tables)
      /\ \A b \in Backing(doc) : /\ doc.backing_services[b].role \in Roles(tables)
                                 /\ \A x \in Elements(doc.backing_services[b].engine) :
                                       <<doc.backing_services[b].role, x>> \in DOMAIN tables
                                 /\ \E d \in EntriesOf(tables, doc.backing_services[b]) :
                                       Supports(tables[d], "fixed")
    <2> DEFINE known == {b \in Backing(doc) : doc.backing_services[b].role \in Roles(tables)}
    <2>1. /\ \A c \in CoreServices(doc) : Core(doc, c).role \in Roles(tables)
          /\ known = Backing(doc)
        BY <1>2 DEF RolesAndEngines, Rule
    <2>2. \A b \in known : \A x \in Elements(doc.backing_services[b].engine) :
              <<doc.backing_services[b].role, x>> \in DOMAIN tables
        BY <1>2 DEF RolesAndEngines, Rule
    <2>3. \A b \in known : \E d \in EntriesOf(tables, doc.backing_services[b]) : Supports(tables[d], "fixed")
        BY <1>2 DEF RolesAndEngines, Rule
    <2> QED  BY <2>1, <2>2, <2>3
<1>4. e # <<>>
    <2>1. CASE IsCoreId(id)
        <3>1. svc.role \in Roles(tables)
            BY <1>3, <2>1, IdIs
        <3>2. PICK x \in DOMAIN tables : x[1] = svc.role
            BY <3>1 DEF Roles
        <3>3. PICK d \in DOMAIN tables : d[1] = svc.role /\ Supports(tables[d], "fixed")
            BY <3>2 DEF SoundTables, Interchangeable
        <3> DEFINE usable == {y \in DOMAIN tables : y[1] = svc.role /\ Supports(tables[y], "fixed")}
        <3>4. usable # {}  BY <3>3
        <3>5. e = CHOOSE y \in usable : TRUE
            BY <2>1, <3>4 DEF EngineOf, EngineForRole
        <3>6. e \in usable
            BY <3>4, <3>5
        <3> QED  BY <3>6, TablesAre DEF CompilesTo
    <2>2. CASE ~IsCoreId(id)
        <3> DEFINE usable == {i \in DOMAIN svc.engine :
                                /\ <<svc.role, svc.engine[i]>> \in DOMAIN tables
                                /\ Supports(tables[<<svc.role, svc.engine[i]>>], "fixed")}
                   first == First(usable)
        <3>1. svc = doc.backing_services[id[1]] /\ id[1] \in Backing(doc)
            BY <2>2, IdIs
        <3>2. usable # {}
            BY <1>3, <3>1 DEF EntriesOf
        <3>3. \A j \in 1..first : <<svc.role, svc.engine[j]>> \in DOMAIN tables
            <4>1. first \in usable /\ svc.engine \in Seq(STRING)
                BY <1>2, <2>2, <3>2, EnginesAreListed, FirstIs
            <4>2. \A j \in 1..first : j \in DOMAIN svc.engine
                <5>1. first \in usable
                    BY <4>1
                <5> HIDE DEF first
                <5>2. first \in DOMAIN svc.engine
                    BY <5>1
                <5> HIDE DEF usable
                <5>3. DOMAIN svc.engine = 1..Len(svc.engine) /\ Len(svc.engine) \in Nat
                    BY <4>1
                <5> QED  BY <5>2, <5>3
            <4> QED  BY <1>3, <3>1, <4>2 DEF Elements
        <3>4. e = <<svc.role, svc.engine[first]>>
            BY <2>2, <3>2, <3>3 DEF EngineOf, EngineFor
        <3> QED  BY <3>4
    <2> QED  BY <2>1, <2>2
<1>5. e \in DOMAIN tables
    BY <1>2, <1>4, EngineIs
<1> HIDE DEF e
<1>6. "none" \notin DOMAIN tables[e]
    BY <1>5, EntryFacts DEF CompilesTo, Accepted
<1>7. Entry(s, id) = tables[e]
    BY <1>1, <1>4, ScopeIs DEF e
<1> QED  BY <1>6, <1>7 DEF Has

-----------------------------------------------------------------------------
\* A name is not empty.
LEMMA Joined ==
    ASSUME NEW S, NEW a \in Seq(S), NEW b \in Seq(S)
    PROVE  /\ a \o b \in Seq(S)
           /\ a # <<>> \/ b # <<>> => a \o b # <<>>
<1>1. a \o b \in Seq(S) /\ Len(a \o b) = Len(a) + Len(b)
    BY ConcatProperties
<1>2. a # <<>> \/ b # <<>> => Len(a) + Len(b) # 0
    BY EmptySeq
<1>3. Len(<<>>) = 0
    OBVIOUS
<1> QED  BY <1>1, <1>2, <1>3

\* A naming policy makes no name empty.
LEMMA PolicyKeeps ==
    ASSUME NEW S, NEW n \in Seq(S), n # <<>>, NEW policy
    PROVE  apply_policy(n, policy) # <<>>
<1>1. DOMAIN n # {}
    <2>1. Len(n) \in Nat /\ Len(n) # 0 /\ DOMAIN n = 1..Len(n)
        BY EmptySeq
    <2>2. 1 \in 1..Len(n)
        BY <2>1
    <2> QED  BY <2>1, <2>2
<1>2. /\ DOMAIN Hyphens(n) = DOMAIN n /\ DOMAIN Underscores(n) = DOMAIN n
      /\ DOMAIN Lower(Hyphens(n)) = DOMAIN n /\ DOMAIN Lower(Underscores(n)) = DOMAIN n
    BY DEF Hyphens, Underscores, Lower
<1>3. DOMAIN <<>> = {}
    OBVIOUS
<1>4. Hyphens(n) # <<>> /\ Underscores(n) # <<>> /\ Lower(Hyphens(n)) # <<>> /\ Lower(Underscores(n)) # <<>>
    BY <1>1, <1>2, <1>3
<1>5. TooLong # <<>>
    BY DEF TooLong
<1>6. <<"#">> \o n # <<>>
    <2>1. <<"#">> \in Seq(S \cup {"#"}) /\ n \in Seq(S \cup {"#"})
        OBVIOUS
    <2> QED  BY <2>1, Joined
<1> QED  BY <1>4, <1>5, <1>6 DEF apply_policy

\* The separators, and what else the code itself puts in a name.
Marks == {"_", "-", ".", "s", "api"}

\* A sequence over a set is one over a larger set.
LEMMA Wider ==
    ASSUME NEW T, NEW S, T \subseteq S, NEW n \in Seq(T)
    PROVE  n \in Seq(S)
<1>1. Len(n) \in Nat /\ n \in [1..Len(n) -> T]
    BY LenProperties
<1>2. n \in [1..Len(n) -> S]
    BY <1>1
<1> QED  BY <1>1, <1>2, SeqDef

\* Short sequences.
LEMMA Tokens ==
    ASSUME NEW S
    PROVE  /\ \A t \in S : <<t>> \in Seq(S)
           /\ \A t, u \in S : <<t, u>> \in Seq(S)
           /\ \A t, u, v \in S : <<t, u, v>> \in Seq(S)
<1>4. \A t \in S : <<t>> \in Seq(S)
    OBVIOUS
<1>5. \A t, u \in S : <<t, u>> \in Seq(S)
    OBVIOUS
<1>6. \A t, u, v \in S : <<t, u, v>> \in Seq(S)
    OBVIOUS
<1> QED  BY <1>4, <1>5, <1>6

\* The global name of a service is not empty, whatever policy its entry has.
LEMMA GlobalNameIsName ==
    ASSUME NEW env, NEW slot, NEW T, NEW name \in Seq(T), NEW policy
    PROVE  GlobalName(env, slot, name, policy) # <<>>
<1> DEFINE S == STRING \cup T \cup Marks \cup {env, ToString(slot)}
<1>0. /\ STRING \subseteq S /\ T \subseteq S /\ env \in S /\ ToString(slot) \in S
      /\ "_" \in S /\ "s" \in S
    BY DEF Marks
<1> HIDE DEF S
<1>1. /\ Project \in Seq(S) /\ name \in Seq(S) /\ <<"_">> \in Seq(S) /\ <<"_", env>> \in Seq(S)
      /\ SlotSegment(slot) \in Seq(S)
    <2>1. Project \in Seq(S) /\ name \in Seq(S)
        BY <1>0, Wider, ProjectAssumption
    <2>2. <<"_">> \in Seq(S) /\ <<"_", env>> \in Seq(S) /\ <<"_", "s", ToString(slot)>> \in Seq(S)
        BY <1>0, Tokens
    <2>3. <<>> \in Seq(S)
        OBVIOUS
    <2> QED  BY <2>1, <2>2, <2>3 DEF SlotSegment
<1>2. <<"_">> # <<>>
    OBVIOUS
<1>3. Project \o <<"_", env>> \in Seq(S)
    BY <1>1, Joined
<1>4. ScopeName(env, slot) \in Seq(S)
    BY <1>1, <1>3, Joined DEF ScopeName
<1>5. ScopeName(env, slot) \o <<"_">> \in Seq(S) /\ ScopeName(env, slot) \o <<"_">> # <<>>
    BY <1>1, <1>2, <1>4, Joined
<1>6. /\ ScopeName(env, slot) \o <<"_">> \o name \in Seq(S)
      /\ ScopeName(env, slot) \o <<"_">> \o name # <<>>
    BY <1>1, <1>5, Joined
<1> QED  BY <1>6, PolicyKeeps DEF GlobalName

\* Every service of a document has a global name and a resource key.
LEMMA HasAName ==
    ASSUME NEW s, IsDocument(s.doc), NEW id \in Ids(s.doc)
    PROVE  GlobalNameOf(s, id) # <<>> /\ KeyOf(id) # <<>>
<1> DEFINE S == STRING \cup Marks
<1>0. STRING \subseteq S /\ "_" \in S /\ "-" \in S
    BY DEF Marks
<1> HIDE DEF S
<1>1. CASE IsCoreId(id)
    <2>1. id[1] \in Seq(S) /\ id[2] \in Seq(S) /\ id[1] # <<>>
        BY <1>0, <1>1, IdIs, Wider DEF IsDocument, IsName
    <2>2. <<"_">> \in Seq(S) /\ <<"-">> \in Seq(S)
        BY <1>0, Tokens
    <2>3. /\ id[1] \o <<"_">> \in Seq(S)
          /\ id[1] \o <<"-">> \in Seq(S) /\ id[1] \o <<"-">> # <<>>
        BY <2>1, <2>2, Joined
    <2>4. id[1] \o <<"_">> \o id[2] \in Seq(S) /\ Compiled(id[1], id[2]) # <<>>
        BY <2>1, <2>3, Joined DEF Compiled
    <2> QED  BY <1>1, <2>4, GlobalNameIsName DEF GlobalNameOf, GlobalServiceName, KeyOf
<1>2. CASE ~IsCoreId(id)
    <2>1. id[1] \in Seq(STRING) /\ id[1] # <<>>
        BY <1>2, IdIs DEF IsDocument, IsName
    <2> QED  BY <1>2, <2>1, GlobalNameIsName DEF GlobalNameOf, KeyOf
<1> QED  BY <1>1, <1>2

\* Every env has a subdomain.
LEMMA SubdomainIsName ==
    ASSUME NEW env
    PROVE  Subdomain(env) # <<>>
<1> DEFINE S == STRING \cup Marks \cup {env}
           label == dns_label(Project)
<1>0. STRING \subseteq S /\ env \in S /\ "." \in S /\ "-" \in S /\ "api" \in S
    BY DEF Marks
<1> HIDE DEF S
<1>1. label \in Seq(S)
    <2>1. Project \in Seq(S)
        BY <1>0, ProjectAssumption, Wider
    <2>2. Len(Project) \in Nat /\ DOMAIN Project = 1..Len(Project) /\ \A i \in DOMAIN Project : Project[i] \in S
        BY <2>1
    <2>3. DOMAIN label = DOMAIN Project /\ label = [i \in 1..Len(Project) |-> label[i]]
        BY <2>2 DEF dns_label, Lower, Hyphens
    <2>4. \A i \in 1..Len(Project) : label[i] \in S
        BY <1>0, <2>2 DEF dns_label, Lower, Hyphens, LowerOf
    <2>5. label \in [1..Len(Project) -> S]
        BY <2>3, <2>4
    <2> QED  BY <2>2, <2>5, SeqDef
<1>2. ApexDomain \in Seq(S) /\ <<env, ".">> \in Seq(S) /\ <<".">> \in Seq(S)
    BY <1>0, ProjectAssumption, Wider, Tokens
<1>6. <<env, ".">> # <<>>
    OBVIOUS
<1> HIDE DEF label
<1>3. <<env, ".">> \o label \in Seq(S) /\ <<env, ".">> \o label # <<>>
    BY <1>1, <1>2, <1>6, Joined
<1>4. <<env, ".">> \o label \o <<".">> \in Seq(S) /\ <<env, ".">> \o label \o <<".">> # <<>>
    BY <1>2, <1>3, Joined
<1>5. <<env, ".">> \o label \o <<".">> \o ApexDomain # <<>>
    BY <1>2, <1>4, Joined
<1> QED  BY <1>5 DEF Subdomain, label

-----------------------------------------------------------------------------
\* What a template becomes, part by part.
LEMMA VariablesAre ==
    ASSUME NEW s, NEW id
    PROVE  DOMAIN Variables(s, id) = VariableNames
BY DEF Variables, VariableNames

\* What filling a template in does to each of its parts.
LEMMA FillIs ==
    ASSUME NEW s, NEW id, NEW template
    PROVE  /\ DOMAIN Fill(s, id, template) = DOMAIN template
           /\ \A i \in DOMAIN template :
                 LET part == template[i]
                     env == Entry(s, id).env
                     fixed == part[1] = "run" /\ part[2] \in DOMAIN env /\ KindOf(env[part[2]]) = "fixed"
                     known == part[1] = "var" /\ part[2] \in VariableNames
                 IN  /\ known => Fill(s, id, template)[i] = <<"lit", Variables(s, id)[part[2]]>>
                     /\ fixed => Fill(s, id, template)[i] = <<"lit", env[part[2]].value>>
                     /\ ~known /\ ~fixed => Fill(s, id, template)[i] = part
<1> DEFINE vals == Variables(s, id)
           env == Entry(s, id).env
           filled(part) == CASE part[1] = "var" /\ part[2] \in DOMAIN vals -> <<"lit", vals[part[2]]>>
                  [] part[1] = "run" /\ part[2] \in DOMAIN env /\ KindOf(env[part[2]]) = "fixed" ->
                        <<"lit", env[part[2]].value>>
                  [] OTHER -> part
<1>1. Fill(s, id, template) = [i \in DOMAIN template |-> filled(template[i])]
    BY DEF Fill
<1>2. ASSUME NEW part
      PROVE  /\ part[1] = "var" /\ part[2] \in VariableNames => filled(part) = <<"lit", vals[part[2]]>>
             /\ part[1] = "run" /\ part[2] \in DOMAIN env /\ KindOf(env[part[2]]) = "fixed" =>
                    filled(part) = <<"lit", env[part[2]].value>>
             /\ ~(part[1] = "var" /\ part[2] \in VariableNames)
                  /\ ~(part[1] = "run" /\ part[2] \in DOMAIN env /\ KindOf(env[part[2]]) = "fixed") =>
                    filled(part) = part
    <2>1. DOMAIN vals = VariableNames
        BY VariablesAre
    <2> HIDE DEF vals, env
    <2> QED  BY <2>1
<1> HIDE DEF filled, vals, env
<1>3. /\ DOMAIN Fill(s, id, template) = DOMAIN template
      /\ \A i \in DOMAIN template : Fill(s, id, template)[i] = filled(template[i])
    BY <1>1
<1> QED  BY <1>2, <1>3 DEF vals, env

\* What is put for one part.
Put(s, id, part) == IF part[1] = "ref" THEN Provided(s, part) ELSE Fill(s, id, <<part>>)

\* A resolved template holds what is put for each part, in order, and no more.
LEMMA ResolvedIs ==
    ASSUME NEW s, NEW id, NEW template
    PROVE  LET parts == resolve_in_string(s, id, template)
           IN  /\ \A i \in DOMAIN template : \A j \in DOMAIN Put(s, id, template[i]) :
                     <<i, j>> \in DOMAIN parts /\ parts[<<i, j>>] = Put(s, id, template[i])[j]
               /\ \A x \in DOMAIN parts : \E i \in DOMAIN template : \E j \in DOMAIN Put(s, id, template[i]) :
                     x = <<i, j>>
<1> DEFINE put == [i \in DOMAIN template |->
            IF template[i][1] = "ref" THEN Provided(s, template[i]) ELSE Fill(s, id, <<template[i]>>)]
           D == UNION {{i} \X DOMAIN put[i] : i \in DOMAIN template}
           parts == [x \in D |-> put[x[1]][x[2]]]
<1>1. resolve_in_string(s, id, template) = parts
    <2>1. resolve_in_string(s, id, template) = InPlace(put)
        BY DEF resolve_in_string
    <2>2. DOMAIN put = DOMAIN template
        OBVIOUS
    <2> HIDE DEF put
    <2> QED  BY <2>1, <2>2 DEF InPlace
<1>2. \A i \in DOMAIN template : put[i] = Put(s, id, template[i])
    BY DEF Put
<1> HIDE DEF put
<1>4. \A i \in DOMAIN template : \A j \in DOMAIN put[i] : <<i, j>> \in D
    OBVIOUS
<1>5. \A x \in D : \E i \in DOMAIN template : \E j \in DOMAIN put[i] : x = <<i, j>>
    OBVIOUS
<1> HIDE DEF D
<1>6. DOMAIN parts = D /\ \A i \in DOMAIN template : \A j \in DOMAIN put[i] : parts[<<i, j>>] = put[i][j]
    BY <1>4
<1> HIDE DEF parts
<1> QED  BY <1>1, <1>2, <1>4, <1>5, <1>6

\* A template of an author's, once its references resolve, has no unknown
\* variable left.
LEMMA NoVariable ==
    ASSUME NEW s, NEW id, NEW template, PlainTemplate(template),
           \A r \in {p \in Elements(template) : p[1] = "ref"} : ~RefFails(s, id, r)
    PROVE  ~HasUnknown(resolve_in_string(s, id, template))
<1> DEFINE parts == resolve_in_string(s, id, template)
<1>0. HasUnknown(parts) <=> \E x \in DOMAIN parts : parts[x][1] = "var"
    BY Zenon DEF HasUnknown
<1>1. SUFFICES ASSUME NEW x \in DOMAIN parts PROVE parts[x][1] # "var"
    BY <1>0
<1>7. PICK i \in DOMAIN template : \E j \in DOMAIN Put(s, id, template[i]) : x = <<i, j>>
    BY <1>1, ResolvedIs
<1>2. PICK j \in DOMAIN Put(s, id, template[i]) : x = <<i, j>>
    BY <1>7
<1>3. parts[x] = Put(s, id, template[i])[j]
    BY <1>2, ResolvedIs
<1>4. template[i] \in Elements(template)
    BY DEF Elements
<1> HIDE DEF parts
<1>5. CASE template[i][1] = "ref"
    <2>1. ~HasUnknown(Provided(s, template[i]))
        BY <1>4, <1>5 DEF RefFails
    <2> QED  BY <1>2, <1>3, <1>5, <2>1 DEF Put, HasUnknown
<1>6. CASE template[i][1] # "ref"
    <2> DEFINE one == <<template[i]>>
    <2>1. PlainPart(template[i])
        BY <1>4 DEF PlainTemplate
    <2>2. DOMAIN one = {1} /\ one[1] = template[i]
        OBVIOUS
    <2> HIDE DEF one
    <2>3. j = 1 /\ parts[x] = Fill(s, id, one)[1]
        BY <1>2, <1>3, <1>6, <2>2, FillIs DEF Put, one
    <2>4. \/ template[i][1] = "lit" /\ parts[x] = template[i]
          \/ template[i][1] = "var" /\ parts[x] = <<"lit", Variables(s, id)[template[i][2]]>>
        BY <1>6, <2>1, <2>2, <2>3, FillIs DEF PlainPart
    <2> QED  BY <2>4
<1> QED  BY <1>5, <1>6

-----------------------------------------------------------------------------
\* What validation has made sure of a reference that a service's values hold.
LEMMA RefIsValid ==
    ASSUME NEW src, NEW tables, Accepted(src, tables),
           NEW c \in CoreServices(src.doc), NEW r \in RefsOf(src.doc, c)
    PROVE  LET t == RefTarget(r) IN
           /\ WellFormed(r) /\ t # c /\ TargetExists(src.doc, t)
           /\ RefPart(r) \in ExposedParts(src.doc, tables, t)
           /\ t \in Core(src.doc, c).uses
<1> DEFINE doc == src.doc
           ofCore == {<<x, q>> : x \in CoreServices(doc), q \in UNION {RefsOf(doc, y) : y \in CoreServices(doc)}}
           held == {x \in ofCore : x[2] \in RefsOf(doc, x[1])}
           refs == {x[2] : x \in held}
                      \cup UNION {RefsIn(Values(doc.backing_services[b].extra)) : b \in Backing(doc)}
           resolves(q) == /\ TargetExists(doc, RefTarget(q))
                          /\ RefPart(q) \in ExposedParts(doc, tables, RefTarget(q))
<1>1. MagicRefs(doc, tables) = {}
    BY DEF Accepted, Issues
<1>2. <<c, r>> \in held /\ <<c, r>>[1] = c /\ <<c, r>>[2] = r
    OBVIOUS
<1>3. r \in refs
    BY <1>2
<1>4. /\ \A q \in refs : WellFormed(q)
      /\ \A x \in held : ~(WellFormed(x[2]) /\ RefTarget(x[2]) = x[1])
      /\ \A q \in refs : ~(WellFormed(q) /\ ~resolves(q))
      /\ \A x \in held : ~(/\ WellFormed(x[2]) /\ RefTarget(x[2]) # x[1]
                           /\ TargetExists(doc, RefTarget(x[2]))
                           /\ RefTarget(x[2]) \notin Core(doc, x[1]).uses)
    <2> HIDE DEF held
    <2>1. \A q \in refs : WellFormed(q)
        BY <1>1 DEF MagicRefs, Rule, held
    <2>2. \A x \in held : ~(WellFormed(x[2]) /\ RefTarget(x[2]) = x[1])
        BY <1>1 DEF MagicRefs, Rule, held
    <2>3. \A q \in refs : ~(WellFormed(q) /\ ~resolves(q))
        BY <1>1 DEF MagicRefs, Rule, held
    <2>4. \A x \in held : ~(/\ WellFormed(x[2]) /\ RefTarget(x[2]) # x[1]
                           /\ TargetExists(doc, RefTarget(x[2]))
                           /\ RefTarget(x[2]) \notin Core(doc, x[1]).uses)
        BY <1>1 DEF MagicRefs, Rule, held
    <2> QED  BY <2>1, <2>2, <2>3, <2>4
<1> HIDE DEF held, refs
<1> QED  BY <1>2, <1>3, <1>4

\* What a reference names: a service of a codebase or a backing service.
LEMMA TargetShape ==
    ASSUME NEW r, WellFormed(r)
    PROVE  /\ r[2] = "codebases" => RefTarget(r) = <<r[3][1], r[3][3]>> /\ Len(RefTarget(r)) = 2
           /\ r[2] # "codebases" => RefTarget(r) = <<r[3][1]>> /\ Len(RefTarget(r)) = 1
           /\ IsCoreId(RefTarget(r)) <=> r[2] = "codebases"
BY DEF RefTarget, IsCoreId

\* A reference whose target exists names a service of the document.
LEMMA TargetIsService ==
    ASSUME NEW doc, NEW r, WellFormed(r), TargetExists(doc, RefTarget(r))
    PROVE  RefTarget(r) \in Ids(doc)
<1>1. CASE r[2] = "codebases"
    <2>1. /\ RefTarget(r) = <<r[3][1], r[3][3]>> /\ IsCore(doc, RefTarget(r))
        BY <1>1, TargetShape DEF TargetExists
    <2>2. r[3][1] \in Codebases(doc) /\ r[3][3] \in DOMAIN doc.codebases[r[3][1]].core_services
        BY <2>1 DEF IsCore
    <2> QED  BY <2>1, <2>2, CoreIs
<1>2. CASE r[2] # "codebases"
    <2>1. RefTarget(r) = <<r[3][1]>> /\ r[3][1] \in Backing(doc)
        BY <1>2, TargetShape DEF TargetExists
    <2> QED  BY <2>1 DEF Ids
<1> QED  BY <1>1, <1>2

\* A core service that another one refers to has a port.
LEMMA AddressedHasPort ==
    ASSUME NEW src, NEW tables, Accepted(src, tables),
           NEW c \in CoreServices(src.doc), NEW r \in RefsOf(src.doc, c), IsCoreId(RefTarget(r))
    PROVE  Core(src.doc, RefTarget(r)).port # "none"
<1> DEFINE doc == src.doc
           t == RefTarget(r)
           users(target) == {x \in CoreServices(doc) \ {target} : target \in Core(doc, x).uses}
           addressers(target) ==
               {x \in users(target) : \E q \in RefsOf(doc, x) :
                   q[2] = "codebases" /\ WellFormed(q) /\ RefTarget(q) = target}
           used == {x \in CoreServices(doc) : users(x) # {}}
<1>1. WellFormed(r) /\ t # c /\ TargetExists(doc, t) /\ t \in Core(doc, c).uses
    BY RefIsValid
<1>2. r[2] = "codebases" /\ t \in Ids(doc) /\ t \in CoreServices(doc)
    BY <1>1, TargetShape, TargetIsService, IdIs
<1>3. c \in users(t) /\ c \in addressers(t) /\ t \in used
    BY <1>1, <1>2
<1>4. UsesAddressing(doc) = {}
    BY DEF Accepted, Issues
<1>5. \A x \in used : ~(addressers(x) # {} /\ Core(doc, x).port = "none")
    BY <1>4 DEF UsesAddressing, Rule
<1> HIDE DEF users, addressers, used
<1> QED  BY <1>3, <1>5

-----------------------------------------------------------------------------
\* Where the templates of a container come from.
LEMMA ServiceTemplate ==
    ASSUME NEW doc, NEW id \in CoreServices(doc),
           NEW x \in Values(EffectiveEnv(doc.codebases[id[1]], Core(doc, id)))
    PROVE  RefsIn({x}) \subseteq RefsOf(doc, id)
BY DEF RefsOf, RefTemplates, RefsIn

Overrides(doc, cb, k) ==
    {svc \in DOMAIN doc.codebases[cb].core_services : k \in DOMAIN doc.codebases[cb].core_services[svc].env}

\* A value of a codebase is one of each service that does not set the key
\* itself.
LEMMA CodebaseTemplate ==
    ASSUME NEW doc, NEW cb \in Codebases(doc), NEW k \in DOMAIN doc.codebases[cb].env,
           NEW svc \in DOMAIN doc.codebases[cb].core_services, svc \notin Overrides(doc, cb, k)
    PROVE  RefsIn({doc.codebases[cb].env[k]}) \subseteq RefsOf(doc, <<cb, svc>>)
<1> DEFINE c == <<cb, svc>>
           env == EffectiveEnv(doc.codebases[c[1]], Core(doc, c))
<1>1. c \in CoreServices(doc) /\ c[1] = cb /\ c[2] = svc
    BY CoreIs
<1>2. Core(doc, c) = doc.codebases[cb].core_services[svc]
    BY <1>1 DEF Core
<1>3. k \notin DOMAIN Core(doc, c).env
    BY <1>2 DEF Overrides
<1>4. k \in DOMAIN env /\ env[k] = doc.codebases[cb].env[k]
    BY <1>1, <1>3 DEF EffectiveEnv, Merge, Has
<1>5. doc.codebases[cb].env[k] \in Values(env)
    BY <1>4 DEF Values
<1> QED  BY <1>1, <1>5, ServiceTemplate

\* A template that is resolved for a service is one that validation has seen as
\* its own, or a value of the codebase that the service overrides.
LEMMA TemplateIs ==
    ASSUME NEW s, NEW id \in CoreServices(s.doc), NEW x \in TemplatesFor(s, id)
    PROVE  \/ RefsIn({x}) \subseteq RefsOf(s.doc, id)
           \/ \E k \in DOMAIN s.doc.codebases[id[1]].env :
                 x = s.doc.codebases[id[1]].env[k] /\ id[2] \in Overrides(s.doc, id[1], k)
<1>1. /\ IsCoreId(id) /\ id = <<id[1], id[2]>> /\ Service(s, id) = Core(s.doc, id)
      /\ id[1] \in Codebases(s.doc) /\ id[2] \in DOMAIN s.doc.codebases[id[1]].core_services
    <2>1. id \in Ids(s.doc)  BY DEF Ids
    <2>2. IsCoreId(id)
        BY DEF CoreServices, IsCoreId
    <2> QED  BY <2>1, <2>2, IdIs DEF Service
<1>2. CASE x \in Values(ServiceEnv(s, id))
    BY <1>1, <1>2, ServiceTemplate DEF ServiceEnv
<1>3. CASE x \in Values(CodebaseEnv(s, id))
    <2>1. PICK k \in DOMAIN s.doc.codebases[id[1]].env : x = s.doc.codebases[id[1]].env[k]
        BY <1>3 DEF CodebaseEnv, Values
    <2>2. CASE id[2] \in Overrides(s.doc, id[1], k)
        BY <2>1, <2>2
    <2>3. CASE id[2] \notin Overrides(s.doc, id[1], k)
        BY <1>1, <2>1, <2>3, CodebaseTemplate
    <2> QED  BY <2>2, <2>3
<1> QED  BY <1>2, <1>3 DEF TemplatesFor

\* Every template that is resolved for a service is of the author's parts.
LEMMA TemplatesArePlain ==
    ASSUME NEW s, NEW id \in CoreServices(s.doc), NEW x \in TemplatesFor(s, id), PlainDocument(s.doc)
    PROVE  PlainTemplate(x)
<1>1. /\ Service(s, id) = s.doc.codebases[id[1]].core_services[id[2]]
      /\ id[1] \in Codebases(s.doc) /\ id[2] \in DOMAIN s.doc.codebases[id[1]].core_services
    <2>1. id \in Ids(s.doc)  BY DEF Ids
    <2>2. IsCoreId(id)
        BY DEF CoreServices, IsCoreId
    <2> QED  BY <2>1, <2>2, IdIs DEF Service, Core
<1>2. x \in Values(s.doc.codebases[id[1]].env) \/ x \in Values(Service(s, id).env)
    BY DEF TemplatesFor, ServiceEnv, CodebaseEnv, EffectiveEnv, Merge, Values, Has
<1> QED  BY <1>1, <1>2 DEF PlainDocument

-----------------------------------------------------------------------------
\* A value that an engine offers on a host is there, and is known.
LEMMA FilledHasValue ==
    ASSUME NEW s, IsDocument(s.doc), NEW id \in Ids(s.doc), NEW template,
           "port" \in DOMAIN Entry(s, id).provides => PortOf(s, id) # "none",
           NEW i \in DOMAIN template, HasValue(Entry(s, id), template[i])
    PROVE  ~IsEmpty(Fill(s, id, template))
<1> DEFINE part == template[i]
           vals == Variables(s, id)
           filled == Fill(s, id, template)
<1>1. i \in DOMAIN filled
    BY FillIs
<1>2. SUFFICES filled[i] # <<"lit", <<>>>>
    BY <1>1 DEF IsEmpty
<1>3. \A v : <<"lit", v>> = <<"lit", <<>>>> => v = <<>>
    OBVIOUS
<1>4. CASE part[1] = "lit"
    <2>1. filled[i] = part /\ part[2] # <<>>
        BY <1>4, FillIs DEF HasValue
    <2>2. <<"lit", <<>>>>[2] = <<>>
        OBVIOUS
    <2> QED  BY <2>1, <2>2
<1>5. CASE part[1] = "var"
    <2>1. part[2] \in VariableNames
        BY <1>5 DEF HasValue, VariableNames
    <2>2. filled[i] = <<"lit", vals[part[2]]>>
        BY <1>5, <2>1, FillIs
    <2>3. vals[part[2]] # <<>>
        <3>1. /\ vals["name"] = KeyOf(id) /\ vals["global_service_name"] = GlobalNameOf(s, id)
              /\ vals["env_name"] = <<s.env>> /\ vals["env_subdomain"] = Subdomain(s.env)
              /\ PortOf(s, id) # "none" => vals["port"] = <<PortOf(s, id)>>
            BY DEF Variables
        <3>2. <<s.env>> # <<>> /\ <<PortOf(s, id)>> # <<>>
            OBVIOUS
        <3>3. \/ part[2] \in {"name", "global_service_name", "env_name", "env_subdomain"}
              \/ part[2] = "port" /\ PortOf(s, id) # "none"
            BY <1>5 DEF HasValue
        <3> HIDE DEF vals
        <3> QED  BY <3>1, <3>2, <3>3, HasAName, SubdomainIsName
    <2> QED  BY <1>3, <2>2, <2>3
<1>6. CASE part[1] \notin {"lit", "var"}
    <2> DEFINE env == Entry(s, id).env
               fixed == part[1] = "run" /\ part[2] \in DOMAIN env /\ KindOf(env[part[2]]) = "fixed"
    <2>1. CASE fixed
        <3>1. filled[i] = <<"lit", env[part[2]].value>>
            BY <2>1, FillIs
        <3>2. env[part[2]].value # <<>>
            BY <1>6, <2>1 DEF HasValue
        <3> QED  BY <1>3, <3>1, <3>2
    <2>2. CASE ~fixed
        <3>1. filled[i] = part
            BY <1>6, <2>2, FillIs
        <3>2. <<"lit", <<>>>>[1] = "lit"
            OBVIOUS
        <3> QED  BY <1>6, <3>1, <3>2
    <2> QED  BY <2>1, <2>2
<1> QED  BY <1>4, <1>5, <1>6

\* Filling in a known variable leaves none.
LEMMA KnownPart ==
    ASSUME NEW s, NEW id, NEW template, NEW i \in DOMAIN template,
           template[i][1] = "var" => template[i][2] \in VariableNames
    PROVE  Fill(s, id, template)[i][1] # "var"
<1>1. CASE template[i][1] = "var" /\ template[i][2] \in VariableNames
    <2>1. Fill(s, id, template)[i] = <<"lit", Variables(s, id)[template[i][2]]>>
        BY <1>1, FillIs
    <2> QED  BY <2>1
<1>2. CASE template[i][1] # "var"
    <2>1. CASE /\ template[i][1] = "run" /\ template[i][2] \in DOMAIN Entry(s, id).env
               /\ KindOf(Entry(s, id).env[template[i][2]]) = "fixed"
        <3>1. Fill(s, id, template)[i] = <<"lit", Entry(s, id).env[template[i][2]].value>>
            BY <2>1, FillIs
        <3> QED  BY <3>1
    <2>2. CASE ~(/\ template[i][1] = "run" /\ template[i][2] \in DOMAIN Entry(s, id).env
                 /\ KindOf(Entry(s, id).env[template[i][2]]) = "fixed")
        <3>1. Fill(s, id, template)[i] = template[i]
            BY <1>2, <2>2, FillIs
        <3> QED  BY <1>2, <3>1
    <2> QED  BY <2>1, <2>2
<1> QED  BY <1>1, <1>2

\* Nor does a template of known variables keep one.
LEMMA FilledIsKnown ==
    ASSUME NEW s, NEW id, NEW template,
           \A part \in Elements(template) : part[1] = "var" => part[2] \in VariableNames
    PROVE  ~HasUnknown(Fill(s, id, template))
<1> DEFINE filled == Fill(s, id, template)
<1>1. SUFFICES ASSUME NEW i \in DOMAIN filled PROVE filled[i][1] # "var"
    BY Zenon DEF HasUnknown
<1>2. i \in DOMAIN template /\ template[i] \in Elements(template)
    BY <1>1, FillIs DEF Elements
<1>3. template[i][1] = "var" => template[i][2] \in VariableNames
    BY <1>2
<1> QED  BY <1>2, <1>3, KnownPart

\* A backing service that offers a host or a port has a port in every env.
LEMMA BackingPort ==
    ASSUME NEW s, NEW src, NEW tables, CompilesTo(s, src, tables), BackingHasPort(src.doc, tables),
           NEW id \in Ids(src.doc), ~IsCoreId(id), ~Has(Entry(s, id), "none"),
           DOMAIN Entry(s, id).provides \cap {"host", "port"} # {}
    PROVE  PortOf(s, id) # "none"
<1>1. id[1] \in Backing(src.doc) /\ Declared(src.doc, id) = src.doc.backing_services[id[1]]
    BY IdIs
<1>2. PICK e \in DOMAIN tables : Entry(s, id) = tables[e] /\ e \in EntriesOf(tables, Declared(src.doc, id))
    BY EntryIs
<1>3. Service(s, id) = Declared(src.doc, id)
    BY ScopeIs DEF Service
<1>4. Service(s, id).port # "none" \/ Entry(s, id).default_port # "none"
    BY <1>1, <1>2, <1>3 DEF BackingHasPort
<1> QED  BY <1>4 DEF PortOf

\* On a host, the references that validation accepted resolve.
LEMMA HostValueResolves ==
    ASSUME NEW s, NEW src, NEW tables, CompilesTo(s, src, tables), Sound(src),
           src.doc.foundation = "fixed",
           NEW c \in CoreServices(src.doc), NEW r \in RefsOf(src.doc, c), NEW id, RefTarget(r) # id
    PROVE  ~RefFails(s, id, r)
<1> DEFINE doc == src.doc
           t == RefTarget(r)
           p == RefPart(r)
           entry == Entry(s, t)
<1>1. /\ Accepted(src, tables) /\ IsDocument(doc) /\ s.doc = doc /\ s.foundation = "fixed"
      /\ SoundTables(tables) /\ BackingHasPort(doc, tables)
    BY ScopeIs, FoundationType, SoundIs DEF CompilesTo
<1>2. WellFormed(r) /\ TargetExists(doc, t) /\ p \in ExposedParts(doc, tables, t) /\ t \in Ids(doc)
    BY <1>1, RefIsValid, TargetIsService
<1>3. ~Has(entry, "none")
    BY <1>1, <1>2, HasAnEngine
<1>4. PICK d \in DOMAIN tables : entry = tables[d] /\ d[1] = Declared(doc, t).role /\ Supports(tables[d], "fixed")
    BY <1>1, <1>2, <1>3, EntryIs
<1>5. PICK e \in DOMAIN tables : e[1] = Declared(doc, t).role /\ p \in DOMAIN tables[e].provides
    <2>1. CASE IsCoreId(t)
        BY <1>2, <2>1, IdIs DEF ExposedParts, IsCoreId
    <2>2. CASE ~IsCoreId(t)
        <3>1. Declared(doc, t) = doc.backing_services[t[1]] /\ Len(t) # 2
            BY <1>2, <2>2, IdIs DEF IsCoreId
        <3>2. PICK e \in EntriesOf(tables, Declared(doc, t)) : p \in DOMAIN tables[e].provides
            BY <1>2, <3>1 DEF ExposedParts
        <3>3. e \in DOMAIN tables /\ e[1] = Declared(doc, t).role
            BY <3>2 DEF EntriesOf
        <3> QED  BY <3>2, <3>3
    <2> QED  BY <2>1, <2>2
<1>6. OffersOnAHost(entry, p)
    BY <1>1, <1>4, <1>5 DEF SoundTables, Interchangeable
<1> DEFINE template == ProvidesFor(entry, "fixed")[p]
<1>7. "port" \in DOMAIN entry.provides => PortOf(s, t) # "none"
    <2>1. CASE IsCoreId(t)
        <3>1. Core(doc, t).port # "none" /\ Service(s, t) = Core(doc, t)
            BY <1>1, <1>2, <2>1, AddressedHasPort, IdIs DEF Service
        <3> QED  BY <3>1 DEF PortOf
    <2>2. CASE ~IsCoreId(t)
        BY <1>1, <1>2, <1>3, <2>2, BackingPort
    <2> QED  BY <2>1, <2>2
<1>8. PICK i \in DOMAIN template : HasValue(entry, template[i])
    BY <1>6 DEF OffersOnAHost, Elements
<1>9. p \in DOMAIN ProvidesFor(entry, "fixed") /\ \A part \in Elements(template) : part[1] = "var" => part[2] \in VariableNames
    BY <1>6 DEF OffersOnAHost
<1>10. Provided(s, r) = Fill(s, t, template)
    BY <1>1 DEF Provided
<1>11. ~IsEmpty(Provided(s, r)) /\ ~HasUnknown(Provided(s, r))
    BY <1>1, <1>2, <1>7, <1>8, <1>9, <1>10, FilledHasValue, FilledIsKnown
<1> QED  BY <1>1, <1>2, <1>9, <1>11 DEF RefFails

\* A reference that an accepted document for a host makes resolves on a host,
\* but for one that is shadowed.
LEMMA NoRefFails ==
    ASSUME NEW s, NEW src, NEW tables, CompilesTo(s, src, tables), Sound(src),
           src.doc.foundation = "fixed", ~Shadowed(src.doc),
           NEW id \in CoreServices(src.doc), NEW x \in TemplatesFor(s, id), NEW r \in RefsIn({x})
    PROVE  ~RefFails(s, id, r)
<1> DEFINE doc == src.doc
           cb == id[1]
           services == doc.codebases[cb].core_services
<1>1. s.doc = doc /\ Accepted(src, tables)
    BY ScopeIs DEF CompilesTo
<1>2. CASE RefsIn({x}) \subseteq RefsOf(doc, id)
    BY <1>1, <1>2, RefIsValid, HostValueResolves
<1>3. CASE \E k \in DOMAIN doc.codebases[cb].env :
                 x = doc.codebases[cb].env[k] /\ id[2] \in Overrides(doc, cb, k)
    <2>1. PICK k \in DOMAIN doc.codebases[cb].env :
                 x = doc.codebases[cb].env[k] /\ id[2] \in Overrides(doc, cb, k)
        BY <1>3
    <2>2. cb \in Codebases(doc) /\ id = <<cb, id[2]>>
        <3>1. id \in Ids(doc) /\ IsCoreId(id)  BY DEF Ids, CoreServices, IsCoreId
        <3> QED  BY <3>1, IdIs
    <2>3. /\ Overrides(doc, cb, k) # DOMAIN services
          /\ \A q \in RefsIn({x}) : \A svc \in Overrides(doc, cb, k) : RefTarget(q) # <<cb, svc>>
        BY <2>1, <2>2 DEF Shadowed, Overrides
    <2>4. PICK svc \in DOMAIN services : svc \notin Overrides(doc, cb, k)
        BY <2>3 DEF Overrides
    <2>5. r \in RefsOf(doc, <<cb, svc>>) /\ <<cb, svc>> \in CoreServices(doc)
        BY <2>1, <2>2, <2>4, CodebaseTemplate, CoreIs
    <2>6. RefTarget(r) # id
        BY <2>1, <2>2, <2>3
    <2> QED  BY <2>5, <2>6, HostValueResolves
<1> QED  BY <1>1, <1>2, <1>3, TemplateIs

-----------------------------------------------------------------------------
\* The failures of an accepted document are foreseen.
LEMMA TemplateFailures ==
    ASSUME NEW s, NEW src, NEW tables, CompilesTo(s, src, tables), Sound(src),
           NEW id \in CoreServices(src.doc), NEW x \in TemplatesFor(s, id)
    PROVE  TemplateErrors(s, id, x) \subseteq Foreseen(src.doc)
<1> DEFINE doc == src.doc
           refs == {p \in Elements(x) : p[1] = "ref"}
           parts == resolve_in_string(s, id, x)
<1>1. s.doc = doc /\ PlainDocument(doc) /\ doc.foundation \in {"fixed", "elastic"}
    BY ScopeIs, FoundationType, SoundIs
<1>2. refs = RefsIn({x})
    BY DEF RefsIn
<1>3. CASE \E r \in refs : RefFails(s, id, r)
    <2>1. TemplateErrors(s, id, x) = {"reference"}
        BY <1>3 DEF TemplateErrors
    <2>2. Shadowed(doc) \/ doc.foundation = "elastic"
        BY <1>1, <1>2, <1>3, NoRefFails
    <2> QED  BY <2>1, <2>2 DEF Foreseen
<1>4. CASE ~\E r \in refs : RefFails(s, id, r)
    <2>1. ~HasUnknown(parts)
        BY <1>1, <1>4, TemplatesArePlain, NoVariable
    <2>2. TemplateErrors(s, id, x) \subseteq {"composed"}
        BY <1>4, <2>1 DEF TemplateErrors, Rule
    <2> QED  BY <2>2 DEF Foreseen
<1> QED  BY <1>3, <1>4

\* A service fails late only in the ways foreseen.
LEMMA ServiceFailures ==
    ASSUME NEW s, NEW src, NEW tables, CompilesTo(s, src, tables), Sound(src), NEW id \in Ids(src.doc)
    PROVE  ServiceErrors(s, id) \subseteq Foreseen(src.doc)
<1>1. s.doc = src.doc /\ (s.foundation = "elastic" => src.doc.foundation = "elastic")
    BY ScopeIs, FoundationType
<1>2. \A e \in ServiceErrors(s, id) :
          \/ e \in {"defaults", "sizing"} /\ s.foundation = "elastic"
          \/ IsCoreId(id) /\ \E x \in TemplatesFor(s, id) : e \in TemplateErrors(s, id, x)
    <2> DEFINE rest == UNION {TemplateErrors(s, id, x) : x \in TemplatesFor(s, id)}
    <2>1. \A e \in ServiceErrors(s, id) :
              (e \in {"defaults", "sizing"} /\ s.foundation = "elastic") \/ (IsCoreId(id) /\ e \in rest)
        BY DEF ServiceErrors, Rule
    <2>2. \A e \in rest : \E x \in TemplatesFor(s, id) : e \in TemplateErrors(s, id, x)
        OBVIOUS
    <2> HIDE DEF rest
    <2> QED  BY <2>1, <2>2
<1>3. IsCoreId(id) => id \in CoreServices(src.doc)
    BY IdIs
<1>4. s.foundation = "elastic" => {"defaults", "sizing"} \subseteq Foreseen(src.doc)
    BY <1>1 DEF Foreseen
<1> QED  BY <1>2, <1>3, <1>4, TemplateFailures

\* So does a compile of an env.
LEMMA LateFailures ==
    ASSUME NEW s, NEW src, NEW tables, CompilesTo(s, src, tables), Sound(src)
    PROVE  LateErrors(s) \subseteq Foreseen(src.doc)
<1>1. s.doc = src.doc /\ src.doc.foundation \in {"fixed", "elastic"} /\ SoundTables(tables)
    BY ScopeIs, FoundationType, SoundIs
<1>2. CASE \E id \in Ids(src.doc) : Has(Entry(s, id), "none")
    <2>1. src.doc.foundation = "elastic"
        BY <1>1, <1>2, HasAnEngine
    <2>2. LateErrors(s) = {"engine"}
        BY <1>1, <1>2 DEF LateErrors
    <2> QED  BY <2>1, <2>2 DEF Foreseen
<1>3. CASE ~\E id \in Ids(src.doc) : Has(Entry(s, id), "none")
    <2>1. LateErrors(s) = {"name"} \/ LateErrors(s) = UNION {ServiceErrors(s, id) : id \in Ids(src.doc)}
        BY <1>1, <1>3 DEF LateErrors
    <2>2. "name" \in Foreseen(src.doc)
        BY DEF Foreseen
    <2> QED  BY <2>1, <2>2, ServiceFailures
<1> QED  BY <1>2, <1>3

-----------------------------------------------------------------------------
\* What an accepted revision comes to.
LEMMA OutcomeIs ==
    ASSUME NEW r \in Revisions, Passes(r)
    PROVE  LET src == SourceOf[r]
               tables == Tables(src.layer)
           IN  /\ Accepted(src, tables) /\ IsDocument(src.doc) /\ \A e \in DOMAIN src.layer : Len(e) = 2
               /\ \A dir \in AllDirs : Fails(r, dir) = LateOf(src.doc, tables, dir)
               /\ \A p \in UNION {PathsOf(src.doc, d) : d \in AllDirs} :
                     p[1] \in AllDirs /\ Main(p) /\ Fails(r, p[1]) = {} =>
                        Outcomes[r].files[p] = FileOf(Scope(src.doc, tables, p[1][1], p[1][2]), tables, p)
<1> DEFINE src == SourceOf[r]
           tables == Tables(src.layer)
           late == [dir \in AllDirs |-> LateOf(src.doc, tables, dir)]
           paths == {x \in UNION {PathsOf(src.doc, d) : d \in AllDirs} : Main(x) /\ late[x[1]] = {}}
           files == [p \in paths |-> FileOf(Scope(src.doc, tables, p[1][1], p[1][2]), tables, p)]
<1>1. Outcomes = [q \in Revisions |-> OutcomeIn(SourceOf[q], Tables(SourceOf[q].layer))]
    BY TabledIs DEF Outcomes
<1>2. Outcomes[r] = OutcomeIn(src, tables)
    BY <1>1
<1>3. Accepted(src, tables)
    <2>1. ~Accepted(src, tables) => OutcomeIn(src, tables) = [accepted |-> FALSE]
        BY DEF OutcomeIn
    <2> QED  BY <1>2, <2>1 DEF Passes
<1>4. OutcomeIn(src, tables) = OutputOf(src.doc, tables, late)
    BY <1>3, TabledIs DEF OutcomeIn
<1>5. OutputOf(src.doc, tables, late) = [accepted |-> TRUE, late |-> late, files |-> files]
    BY TabledIs DEF OutputOf
<1> HIDE DEF files
<1>6. Outcomes[r].late = late /\ Outcomes[r].files = files
    BY <1>2, <1>4, <1>5
<1>7. \A dir \in AllDirs : Fails(r, dir) = LateOf(src.doc, tables, dir)
    BY <1>6 DEF Fails
<1>8. \A p \in UNION {PathsOf(src.doc, d) : d \in AllDirs} :
          p[1] \in AllDirs /\ Main(p) /\ Fails(r, p[1]) = {} => p \in paths
    BY <1>6 DEF Fails
<1> HIDE DEF paths
<1> QED  BY <1>3, <1>6, <1>7, <1>8, SourcesAssumption DEF files

\* The compile of a directory of an accepted revision.
LEMMA ScopeCompiles ==
    ASSUME NEW r \in Revisions, Passes(r), NEW env, NEW slot
    PROVE  LET src == SourceOf[r]
               tables == Tables(src.layer)
               s == Scope(src.doc, tables, env, slot)
           IN  CompilesTo(s, src, tables) /\ s.env = env /\ s.slot = slot
<1> DEFINE src == SourceOf[r]
           tables == Tables(src.layer)
           s == Scope(src.doc, tables, env, slot)
<1>1. s.env = env /\ s.slot = slot
    BY DEF Scope
<1>2. s = Scope(src.doc, tables, s.env, s.slot)
    BY <1>1
<1> QED  BY <1>1, <1>2, OutcomeIs DEF CompilesTo

\* An accepted revision fails only in the ways foreseen, in any directory.
LEMMA ForeseenFails ==
    ASSUME SoundSources, NEW r \in Revisions, Passes(r), NEW dir \in AllDirs
    PROVE  Fails(r, dir) \subseteq Foreseen(SourceOf[r].doc)
<1> DEFINE src == SourceOf[r]
           tables == Tables(src.layer)
           s == Scope(src.doc, tables, dir[1], dir[2])
<1>1. Fails(r, dir) = LateOf(src.doc, tables, dir)
    BY OutcomeIs
<1>2. CompilesTo(s, src, tables) /\ Sound(src)
    BY ScopeCompiles DEF SoundSources
<1>3. LateErrors(s) \subseteq Foreseen(src.doc)
    BY <1>2, LateFailures
<1> QED  BY <1>1, <1>3 DEF LateOf

-----------------------------------------------------------------------------
\* Two envs of one foundation resolve a template to parts of the same kinds, of
\* which the same ones are empty.
Blank == <<"lit", <<>>>>
AlikeParts(a, b) == a = b \/ (a[1] = "lit" /\ b[1] = "lit" /\ a # Blank /\ b # Blank)
Alike(p, q) == DOMAIN p = DOMAIN q /\ \A i \in DOMAIN p : AlikeParts(p[i], q[i])

\* Resolved values that are alike fail alike.
LEMMA AlikeIs ==
    ASSUME NEW p, NEW q, Alike(p, q)
    PROVE  /\ IsEmpty(p) <=> IsEmpty(q)
           /\ HasUnknown(p) <=> HasUnknown(q)
           /\ IsComposed(p) <=> IsComposed(q)
<1>1. /\ DOMAIN p = DOMAIN q
      /\ \A i \in DOMAIN p : p[i] = q[i] \/ (p[i][1] = "lit" /\ q[i][1] = "lit" /\ p[i] # Blank /\ q[i] # Blank)
    BY DEF Alike, AlikeParts
<1>2. \A i \in DOMAIN p : p[i] = Blank <=> q[i] = Blank
    BY <1>1
<1>3. \A i \in DOMAIN p : /\ p[i][1] = "var" <=> q[i][1] = "var"
                          /\ p[i][1] = "raw" <=> q[i][1] = "raw"
                          /\ p[i][1] = "run" <=> q[i][1] = "run"
                          /\ p[i][1] = "run" => p[i] = q[i]
    BY <1>1
<1>4. IsEmpty(p) <=> IsEmpty(q)
    BY <1>1, <1>2 DEF IsEmpty, Blank
<1>5. (HasUnknown(p) <=> HasUnknown(q)) /\ (IsRaw(p) <=> IsRaw(q))
    BY <1>1, <1>3 DEF HasUnknown, IsRaw
<1>6. RuntimeKeys(p) = {} <=> RuntimeKeys(q) = {}
    <2>1. \A x : RuntimeKeys(x) = {} <=> \A i \in DOMAIN x : x[i][1] # "run"
        BY DEF RuntimeKeys
    <2>2. (\A i \in DOMAIN p : p[i][1] # "run") <=> (\A i \in DOMAIN q : q[i][1] # "run")
        BY <1>1, <1>3
    <2> QED  BY <2>1, <2>2
<1>7. (\E i, j \in DOMAIN p : i # j /\ Blank \notin {p[i], p[j]})
          <=> (\E i, j \in DOMAIN q : i # j /\ Blank \notin {q[i], q[j]})
    <2>1. \A i, j \in DOMAIN p : Blank \notin {p[i], p[j]} <=> Blank \notin {q[i], q[j]}
        BY <1>2
    <2>2. DOMAIN p = DOMAIN q
        BY <1>1
    <2> QED  BY <2>1, <2>2
<1> QED  BY <1>4, <1>5, <1>6, <1>7 DEF IsComposed, Blank

\* Two scopes of one document that differ in nothing but the env.
Cousins(s, t, src, tables) ==
    /\ CompilesTo(s, src, tables) /\ CompilesTo(t, src, tables)
    /\ s.foundation = t.foundation

\* Two envs of one foundation share the document, entries and ports.
LEMMA CousinsShare ==
    ASSUME NEW s, NEW t, NEW src, NEW tables, Cousins(s, t, src, tables)
    PROVE  /\ s.doc = src.doc /\ t.doc = src.doc /\ IsDocument(src.doc)
           /\ \A id \in Ids(src.doc) : Entry(s, id) = Entry(t, id) /\ PortOf(s, id) = PortOf(t, id)
<1>1. s.doc = src.doc /\ t.doc = src.doc /\ IsDocument(src.doc) /\ s.foundation = t.foundation
    BY ScopeIs DEF Cousins, CompilesTo
<1>2. \A id \in Ids(src.doc) : Entry(s, id) = Entry(t, id)
    <2>1. SUFFICES ASSUME NEW id \in Ids(src.doc) PROVE Entry(s, id) = Entry(t, id)
        OBVIOUS
    <2> DEFINE e == EngineOf(src.doc, tables, id, s.foundation)
               entry == IF e = <<>> THEN [none |-> TRUE] ELSE tables[e]
    <2>2. CompilesTo(s, src, tables) /\ CompilesTo(t, src, tables)
        BY DEF Cousins
    <2>3. Entry(s, id) = entry
        BY <2>2, ScopeIs
    <2>4. Entry(t, id) = entry
        BY <1>1, <2>2, ScopeIs
    <2> QED  BY <2>3, <2>4
<1> QED  BY <1>1, <1>2 DEF PortOf, Service

\* Their variables differ only in names, none of them empty.
LEMMA VariablesAlike ==
    ASSUME NEW s, NEW t, NEW src, NEW tables, Cousins(s, t, src, tables),
           NEW id \in Ids(src.doc), NEW v \in VariableNames
    PROVE  AlikeParts(<<"lit", Variables(s, id)[v]>>, <<"lit", Variables(t, id)[v]>>)
<1> DEFINE a == Variables(s, id)
           b == Variables(t, id)
<1>1. s.doc = src.doc /\ t.doc = src.doc /\ IsDocument(src.doc) /\ PortOf(s, id) = PortOf(t, id)
    BY CousinsShare
<1>2. GlobalNameOf(s, id) # <<>> /\ GlobalNameOf(t, id) # <<>>
    BY <1>1, HasAName
<1>3. a.name = b.name /\ a.port = b.port /\ a.project_name = b.project_name
    BY <1>1 DEF Variables
<1>4. /\ a.global_service_name # <<>> /\ b.global_service_name # <<>>
      /\ a.env_subdomain # <<>> /\ b.env_subdomain # <<>>
    BY <1>2, SubdomainIsName DEF Variables
<1>5. a.env_name # <<>> /\ b.env_name # <<>>
    BY DEF Variables
<1> HIDE DEF a, b
<1>6. a[v] = b[v] \/ (a[v] # <<>> /\ b[v] # <<>>)
    BY <1>3, <1>4, <1>5 DEF VariableNames
<1>7. \A x : x # <<>> => <<"lit", x>> # Blank /\ <<"lit", x>>[1] = "lit"
    BY DEF Blank
<1> QED  BY <1>6, <1>7 DEF AlikeParts, a, b

\* What they fill in is alike.
LEMMA FillAlike ==
    ASSUME NEW s, NEW t, NEW src, NEW tables, Cousins(s, t, src, tables),
           NEW id \in Ids(src.doc), NEW template
    PROVE  Alike(Fill(s, id, template), Fill(t, id, template))
<1> DEFINE p == Fill(s, id, template)
           q == Fill(t, id, template)
<1>1. DOMAIN p = DOMAIN template /\ DOMAIN q = DOMAIN template
    BY FillIs
<1>2. Entry(s, id) = Entry(t, id)
    BY CousinsShare
<1>3. ASSUME NEW i \in DOMAIN template PROVE AlikeParts(p[i], q[i])
    <2> DEFINE part == template[i]
               env == Entry(s, id).env
               fixed == part[1] = "run" /\ part[2] \in DOMAIN env /\ KindOf(env[part[2]]) = "fixed"
               known == part[1] = "var" /\ part[2] \in VariableNames
    <2>1. CASE known
        <3>1. p[i] = <<"lit", Variables(s, id)[part[2]]>> /\ q[i] = <<"lit", Variables(t, id)[part[2]]>>
            BY <2>1, FillIs
        <3> QED  BY <2>1, <3>1, VariablesAlike
    <2>2. CASE fixed
        <3>1. p[i] = <<"lit", env[part[2]].value>>
            BY <2>2, FillIs
        <3>2. q[i] = <<"lit", env[part[2]].value>>
            BY <1>2, <2>2, FillIs
        <3> QED  BY <3>1, <3>2 DEF AlikeParts
    <2>3. CASE ~known /\ ~fixed
        <3>1. p[i] = part
            BY <2>3, FillIs
        <3>2. q[i] = part
            BY <1>2, <2>3, FillIs
        <3> QED  BY <3>1, <3>2 DEF AlikeParts
    <2> QED  BY <2>1, <2>2, <2>3
<1> QED  BY <1>1, <1>3 DEF Alike

\* A reference fails in both or in neither, with values alike.
LEMMA RefsAlike ==
    ASSUME NEW s, NEW t, NEW src, NEW tables, Cousins(s, t, src, tables), NEW id, NEW r
    PROVE  /\ RefFails(s, id, r) <=> RefFails(t, id, r)
           /\ ~RefFails(s, id, r) => Alike(Provided(s, r), Provided(t, r))
<1> DEFINE target == RefTarget(r)
           known == WellFormed(r) /\ target # id /\ TargetExists(src.doc, target)
<1>1. s.doc = src.doc /\ t.doc = src.doc /\ s.foundation = t.foundation
    BY CousinsShare DEF Cousins
<1>2. CASE ~known
    <2>1. RefFails(s, id, r) /\ RefFails(t, id, r)
        BY <1>1, <1>2 DEF RefFails
    <2> QED  BY <2>1
<1>3. CASE known
    <2>1. target \in Ids(src.doc)
        BY <1>3, TargetIsService
    <2>2. Entry(s, target) = Entry(t, target)
        BY <2>1, CousinsShare
    <2>3. Alike(Provided(s, r), Provided(t, r))
        BY <1>1, <2>1, <2>2, FillAlike DEF Provided
    <2>4. /\ IsEmpty(Provided(s, r)) <=> IsEmpty(Provided(t, r))
          /\ HasUnknown(Provided(s, r)) <=> HasUnknown(Provided(t, r))
        BY <2>3, AlikeIs
    <2> QED  BY <1>1, <2>2, <2>3, <2>4 DEF RefFails
<1> QED  BY <1>2, <1>3

\* What they resolve is alike.
LEMMA ResolvedAlike ==
    ASSUME NEW s, NEW t, NEW src, NEW tables, Cousins(s, t, src, tables), NEW id \in Ids(src.doc),
           NEW x, \A r \in {p \in Elements(x) : p[1] = "ref"} : ~RefFails(s, id, r)
    PROVE  Alike(resolve_in_string(s, id, x), resolve_in_string(t, id, x))
<1> DEFINE p == resolve_in_string(s, id, x)
           q == resolve_in_string(t, id, x)
<1>1. ASSUME NEW i \in DOMAIN x
      PROVE  Alike(Put(s, id, x[i]), Put(t, id, x[i]))
    <2>1. CASE x[i][1] = "ref"
        <3>1. ~RefFails(s, id, x[i])
            BY <1>1, <2>1 DEF Elements
        <3> QED  BY <2>1, <3>1, RefsAlike DEF Put
    <2>2. CASE x[i][1] # "ref"
        BY <2>2, FillAlike DEF Put
    <2> QED  BY <2>1, <2>2
<1>2. \A i \in DOMAIN x : /\ DOMAIN Put(s, id, x[i]) = DOMAIN Put(t, id, x[i])
                          /\ \A j \in DOMAIN Put(s, id, x[i]) : AlikeParts(Put(s, id, x[i])[j], Put(t, id, x[i])[j])
    BY <1>1 DEF Alike
<1>3. ASSUME NEW y \in DOMAIN p
      PROVE  y \in DOMAIN q /\ AlikeParts(p[y], q[y])
    <2>1. PICK i \in DOMAIN x : \E j \in DOMAIN Put(s, id, x[i]) : y = <<i, j>>
        BY <1>3, ResolvedIs
    <2>2. PICK j \in DOMAIN Put(s, id, x[i]) : y = <<i, j>>
        BY <2>1
    <2>3. p[y] = Put(s, id, x[i])[j]
        BY <2>2, ResolvedIs
    <2>4. y \in DOMAIN q /\ q[y] = Put(t, id, x[i])[j]
        BY <1>2, <2>2, ResolvedIs
    <2> QED  BY <1>2, <2>3, <2>4
<1>4. ASSUME NEW y \in DOMAIN q
      PROVE  y \in DOMAIN p
    <2>1. PICK i \in DOMAIN x : \E j \in DOMAIN Put(t, id, x[i]) : y = <<i, j>>
        BY <1>4, ResolvedIs
    <2>2. PICK j \in DOMAIN Put(t, id, x[i]) : y = <<i, j>>
        BY <2>1
    <2> QED  BY <1>2, <2>2, ResolvedIs
<1> HIDE DEF p, q
<1>5. DOMAIN p = DOMAIN q
    BY <1>3, <1>4
<1> QED  BY <1>3, <1>5 DEF Alike, p, q

\* A template fails in one env as it does in the other.
LEMMA TemplatesAlike ==
    ASSUME NEW s, NEW t, NEW src, NEW tables, Cousins(s, t, src, tables), NEW id \in Ids(src.doc), NEW x
    PROVE  TemplateErrors(s, id, x) = TemplateErrors(t, id, x)
<1> DEFINE refs == {p \in Elements(x) : p[1] = "ref"}
<1>1. CASE \E r \in refs : RefFails(s, id, r)
    <2>1. \E r \in refs : RefFails(t, id, r)
        BY <1>1, RefsAlike
    <2> QED  BY <1>1, <2>1 DEF TemplateErrors
<1>2. CASE ~\E r \in refs : RefFails(s, id, r)
    <2>1. ~\E r \in refs : RefFails(t, id, r)
        BY <1>2, RefsAlike
    <2>2. Alike(resolve_in_string(s, id, x), resolve_in_string(t, id, x))
        BY <1>2, ResolvedAlike
    <2>3. /\ HasUnknown(resolve_in_string(s, id, x)) <=> HasUnknown(resolve_in_string(t, id, x))
          /\ IsComposed(resolve_in_string(s, id, x)) <=> IsComposed(resolve_in_string(t, id, x))
        BY <2>2, AlikeIs
    <2> QED  BY <1>2, <2>1, <2>3 DEF TemplateErrors, Rule
<1> QED  BY <1>1, <1>2

\* What fails on a host in one env but not in another is a name that is too long.
LEMMA CousinsFailByName ==
    ASSUME NEW s, NEW t, NEW src, NEW tables, Cousins(s, t, src, tables), s.foundation = "fixed",
           LateErrors(s) = {}, LateErrors(t) # {}
    PROVE  "name" \in LateErrors(t)
<1> DEFINE ids == Ids(src.doc)
           tooLong(x, id) == \/ GlobalNameOf(x, id) = TooLong
                             \/ \E h \in HostsOf(x, id) : h[1] = TooLong[1]
<1>1. s.doc = src.doc /\ t.doc = src.doc /\ s.foundation = "fixed" /\ t.foundation = "fixed"
    BY CousinsShare DEF Cousins
<1>2. ASSUME NEW x, x.doc = src.doc
      PROVE  LateErrors(x) = IF \E id \in ids : Has(Entry(x, id), "none") THEN {"engine"}
                             ELSE IF \E id \in ids : tooLong(x, id) THEN {"name"}
                             ELSE UNION {ServiceErrors(x, id) : id \in ids}
    BY <1>2 DEF LateErrors
<1> HIDE DEF tooLong, ids
<1>3. /\ ~\E id \in ids : Has(Entry(s, id), "none")
      /\ (UNION {ServiceErrors(s, id) : id \in ids}) = {}
    BY <1>1, <1>2
<1>4. ~\E id \in ids : Has(Entry(t, id), "none")
    BY <1>3, CousinsShare DEF ids
<1>5. \A id \in ids : ServiceErrors(t, id) = ServiceErrors(s, id)
    <2>1. SUFFICES ASSUME NEW id \in ids PROVE ServiceErrors(t, id) = ServiceErrors(s, id)
        OBVIOUS
    <2>2. Service(s, id) = Service(t, id) /\ CodebaseEnv(s, id) = CodebaseEnv(t, id)
        BY <1>1 DEF Service, CodebaseEnv
    <2>3. TemplatesFor(s, id) = TemplatesFor(t, id)
        BY <1>1, <2>2 DEF TemplatesFor, ServiceEnv
    <2>4. \A x : TemplateErrors(s, id, x) = TemplateErrors(t, id, x)
        BY TemplatesAlike DEF ids
    <2>5. {TemplateErrors(s, id, x) : x \in TemplatesFor(s, id)} = {TemplateErrors(t, id, x) : x \in TemplatesFor(t, id)}
        BY <2>3, <2>4
    <2>6. \A y \in {s, t} : ServiceErrors(y, id) = IF ~IsCoreId(id) THEN {}
                                ELSE UNION {TemplateErrors(y, id, x) : x \in TemplatesFor(y, id)}
        BY <1>1 DEF ServiceErrors, Rule
    <2> QED  BY <2>5, <2>6
<1>6. (UNION {ServiceErrors(t, id) : id \in ids}) = {}
    BY <1>3, <1>5
<1> QED  BY <1>1, <1>2, <1>4, <1>6

\* A document that dev accepts fails in a later directory only by a name that is
\* too long, or on elastic.
LEMMA LaterFailsByName ==
    ASSUME NEW r \in Revisions, Passes(r), NEW dir \in Elements(OutputDirs),
           Fails(r, EnvDir("dev")) = {}, Fails(r, dir) # {}
    PROVE  \/ "name" \in Fails(r, dir)
           \/ SourceOf[r].doc.foundation = "elastic" /\ dir[1] \in {"stage", "prod"}
<1> DEFINE src == SourceOf[r]
           tables == Tables(src.layer)
           s == Scope(src.doc, tables, "dev", 1)
           t == Scope(src.doc, tables, dir[1], dir[2])
<1>0. /\ dir \in AllDirs /\ EnvDir("dev") \in AllDirs
      /\ dir[1] \in {"dev", "test", "stage", "prod", "project"}
    <2>1. dir \in AllDirs
        BY OutputDirsType
    <2>2. OutputDirs[1] = EnvDir("dev")
        BY OutputDirsIs DEF EnvDir
    <2>3. EnvDir("dev") \in Elements(OutputDirs)
        BY <2>2, OutputDirsType
    <2>4. \A i \in 1..6 : OutputDirs[i][1] \in {"dev", "test", "stage", "prod", "project"}
        BY OutputDirsIs
    <2> QED  BY <2>1, <2>3, <2>4, OutputDirsType
<1>1. CompilesTo(s, src, tables) /\ CompilesTo(t, src, tables) /\ s.env = "dev" /\ t.env = dir[1]
    BY ScopeCompiles
<1>2. IsEnvDir(dir) /\ Fails(r, dir) = LateErrors(t)
    BY <1>0, OutcomeIs DEF LateOf
<1>3. Fails(r, EnvDir("dev")) = LateErrors(s)
    <2>1. EnvDir("dev")[1] = "dev" /\ EnvDir("dev")[2] = 1
        BY DEF EnvDir
    <2>2. Fails(r, EnvDir("dev")) = LateOf(src.doc, tables, EnvDir("dev"))
        BY <1>0, OutcomeIs
    <2>3. LateOf(src.doc, tables, EnvDir("dev")) = LateErrors(Scope(src.doc, tables, EnvDir("dev")[1], EnvDir("dev")[2]))
        BY <2>1 DEF LateOf, IsEnvDir
    <2> QED  BY <2>1, <2>2, <2>3
<1> HIDE DEF s, t, src, tables
<1>4. s.foundation = "fixed" /\ (t.foundation = "fixed" \/ (t.foundation = "elastic" /\ src.doc.foundation = "elastic" /\ dir[1] \notin {"dev", "test"}))
    BY <1>1, FoundationType
<1>5. CASE t.foundation = "fixed"
    BY <1>1, <1>2, <1>3, <1>4, <1>5, CousinsFailByName DEF Cousins
<1>6. CASE t.foundation = "elastic"
    <2>1. dir[1] \in {"stage", "prod"}
        BY <1>0, <1>2, <1>4, <1>6 DEF IsEnvDir
    <2> QED  BY <1>4, <1>6, <2>1 DEF src
<1> QED  BY <1>4, <1>5, <1>6

-----------------------------------------------------------------------------
\* A key of the project: one that the categories know.
Known(doc, tables, key) ==
    LET cats == classify_source_keys(doc, tables) IN key \in cats.tte \cup cats.secret \cup cats.config

\* The categories of classify_source_keys, as sets.
LEMMA CategoriesAre ==
    ASSUME NEW doc, NEW tables, NEW cats, cats = classify_source_keys(doc, tables)
    PROVE  /\ cats.tte = EngineKeysOf(doc, tables, "minted")
           /\ cats.secret = DOCTRINE_INJECTED_SECRETS \cup EngineKeysOf(doc, tables, "secret")
                              \cup (UNION {doc.codebases[cb].secrets : cb \in Codebases(doc)})
           /\ cats.config = UNION {doc.codebases[cb].config : cb \in Codebases(doc)}
           /\ \A key : CategoriesOf(cats, key) = {c \in {"tte", "secret", "config"} : key \in cats[c]}
BY DEF classify_source_keys, CategoriesOf

\* A set that is neither empty nor has two elements has one.
LEMMA AtMostOneIsOne ==
    ASSUME NEW S, IsFiniteSet(S), S # {}, ~(Cardinality(S) > 1)
    PROVE  Cardinality(S) = 1
<1>1. Cardinality(S) \in Nat /\ Cardinality(S) # 0
    BY FS_CardinalityType, FS_EmptySet
<1> QED  BY <1>1

\* The key of the doctrine is nobody's but the secrets'.
LEMMA DoctrineKey ==
    ASSUME NEW src, NEW tables, Accepted(src, tables), SoundTables(tables),
           NEW key \in DOCTRINE_INJECTED_SECRETS
    PROVE  /\ key \notin EngineKeysOf(src.doc, tables, "minted")
           /\ \A cb \in Codebases(src.doc) : key \notin src.doc.codebases[cb].config
<1> DEFINE doc == src.doc
<1>1. key \notin EngineKeysOf(doc, tables, "minted")
    <2>1. SUFFICES ASSUME NEW b \in Backing(doc), NEW e \in EntriesOf(tables, doc.backing_services[b]),
                          key \in DOMAIN tables[e].env, KindOf(tables[e].env[key]) = "minted"
                   PROVE  FALSE
        BY DEF EngineKeysOf
    <2>2. e \in DOMAIN tables
        BY DEF EntriesOf
    <2> QED  BY <2>1, <2>2 DEF SoundTables, DeclaresKeys
<1>2. \A cb \in Codebases(doc) : key \notin doc.codebases[cb].config
    <2> DEFINE own(x) == LET cb == doc.codebases[x]
                         IN  DOMAIN cb.env \cup cb.secrets \cup cb.config
                                \cup UNION {DOMAIN cb.core_services[t].env : t \in DOMAIN cb.core_services}
               written == UNION {own(x) : x \in Codebases(doc)}
    <2>1. ReservedEnvKeys(doc) = {}
        BY DEF Accepted, Issues
    <2>2. written \cap DOCTRINE_INJECTED_SECRETS = {}
        BY <2>1 DEF ReservedEnvKeys, Rule
    <2>3. ASSUME NEW cb \in Codebases(doc), key \in doc.codebases[cb].config PROVE FALSE
        <3>1. key \in own(cb)
            BY <2>3
        <3> HIDE DEF own
        <3>2. key \in written
            BY <3>1
        <3> QED  BY <2>2, <3>2
    <2> QED  BY <2>3
<1> QED  BY <1>1, <1>2

\* A key that is known is of one category and has a store.
LEMMA KnownHasOneSource ==
    ASSUME NEW src, NEW tables, Accepted(src, tables), SoundTables(tables),
           NEW s, s.doc = src.doc, NEW key, Known(src.doc, tables, key)
    PROVE  /\ Cardinality(CategoriesOf(classify_source_keys(src.doc, tables), key)) = 1
           /\ StoresOf(s, tables, key) # {}
<1> DEFINE doc == src.doc
           cats == classify_source_keys(doc, tables)
           of == CategoriesOf(cats, key)
<1>0. key \in cats.tte \/ key \in cats.secret \/ key \in cats.config
    BY DEF Known
<1>a. cats = classify_source_keys(doc, tables)
    OBVIOUS
<1>b. ~(\E k \in (cats.tte \cup cats.secret \cup cats.config) \ DOCTRINE_INJECTED_SECRETS :
                 Cardinality(CategoriesOf(cats, k)) > 1)
    <2>1. SourceKeyDisjointness(doc, tables) = {}
        BY DEF Accepted, Issues
    <2> QED  BY <2>1 DEF SourceKeyDisjointness, Rule
<1>c. minted_policies(doc, tables) = cats.tte /\ secret_manifest(doc, tables) = cats.secret
      /\ config_manifest(doc) = cats.config
    BY DEF minted_policies, secret_manifest, config_manifest, classify_source_keys
<1> HIDE DEF cats
<1>1. of = {c \in {"tte", "secret", "config"} : key \in cats[c]}
    BY <1>a, CategoriesAre
<1>2. of # {}
    BY <1>0, <1>1
<1>3. IsFiniteSet(of)
    <2>1. IsFiniteSet({"tte", "secret", "config"})
        <3>1. IsFiniteSet({"tte"} \cup {"secret"})
            BY FS_Singleton, FS_AddElement
        <3>2. IsFiniteSet(({"tte"} \cup {"secret"}) \cup {"config"})
            BY <3>1, FS_AddElement
        <3>3. {"tte", "secret", "config"} = ({"tte"} \cup {"secret"}) \cup {"config"}
            OBVIOUS
        <3> QED  BY <3>2, <3>3
    <2> QED  BY <1>1, <2>1, FS_Subset
<1>4. ASSUME key \notin DOCTRINE_INJECTED_SECRETS PROVE Cardinality(of) = 1
    <2>2. ~(Cardinality(of) > 1)
        BY <1>0, <1>4, <1>b
    <2> QED  BY <1>2, <1>3, <2>2, AtMostOneIsOne
<1>5. ASSUME key \in DOCTRINE_INJECTED_SECRETS PROVE Cardinality(of) = 1
    <2>1. key \notin cats.tte /\ key \notin cats.config /\ key \in cats.secret
        <3>1. cats.tte = EngineKeysOf(doc, tables, "minted")
              /\ cats.config = (UNION {doc.codebases[cb].config : cb \in Codebases(doc)})
              /\ DOCTRINE_INJECTED_SECRETS \subseteq cats.secret
            BY <1>a, CategoriesAre
        <3> QED  BY <1>5, <3>1, DoctrineKey
    <2>2. of = {"secret"}
        BY <1>1, <2>1
    <2> QED  BY <2>2, FS_Singleton
<1>6. StoresOf(s, tables, key) # {}
    <2> DEFINE kept(store) == CASE store = "tte" -> key \in minted_policies(s.doc, tables)
                                [] store = "secrets" -> key \in secret_manifest(s.doc, tables)
                                [] store = "config" -> key \in config_manifest(s.doc)
    <2>1. StoresOf(s, tables, key) = {store \in {"tte", "secrets", "config"} : kept(store)}
        BY DEF StoresOf
    <2>3. kept("tte") \/ kept("secrets") \/ kept("config")
        BY <1>0, <1>c
    <2> HIDE DEF kept
    <2> QED  BY <2>1, <2>3
<1> QED  BY <1>4, <1>5, <1>6 DEF cats

-----------------------------------------------------------------------------
\* The runtime keys that a value is read from are known.
LEMMA DeclaredKeyIsKnown ==
    ASSUME NEW src, NEW tables, Accepted(src, tables), tables = Tables(src.layer),
           NEW b \in Backing(src.doc), NEW e \in EntriesOf(tables, src.doc.backing_services[b]),
           NEW key \in DOMAIN tables[e].env, KindOf(tables[e].env[key]) # "fixed"
    PROVE  Known(src.doc, tables, key)
<1> DEFINE doc == src.doc
           kind == KindOf(tables[e].env[key])
<1>1. e \in DOMAIN tables
    BY DEF EntriesOf
<1>2. tables[e].env[key].kind \in {"text", "fixed", "minted", "secret"}
    BY <1>1, EntryFacts DEF Accepted
<1>3. kind \in {"minted", "secret"}
    BY <1>2 DEF KindOf
<1>4. key \in EngineKeysOf(doc, tables, kind)
    <2>1. e \in UNION {EntriesOf(tables, doc.backing_services[x]) : x \in Backing(doc)}
        OBVIOUS
    <2>2. key \in {k \in DOMAIN tables[e].env : KindOf(tables[e].env[k]) = kind}
        OBVIOUS
    <2> HIDE DEF kind
    <2> QED  BY <2>1, <2>2 DEF EngineKeysOf
<1> DEFINE cats == classify_source_keys(doc, tables)
<1>5. cats.tte = EngineKeysOf(doc, tables, "minted") /\ EngineKeysOf(doc, tables, "secret") \subseteq cats.secret
    BY CategoriesAre
<1> HIDE DEF kind
<1>6. key \in cats.tte \/ key \in cats.secret
    BY <1>3, <1>4, <1>5
<1> QED  BY <1>6 DEF Known

\* A runtime part that filling in leaves is one of the template's, and has no
\* fixed value.
LEMMA FilledPart ==
    ASSUME NEW s, NEW id, NEW template, NEW i \in DOMAIN template, Fill(s, id, template)[i][1] = "run"
    PROVE  /\ Fill(s, id, template)[i] = template[i]
           /\ ~(template[i][2] \in DOMAIN Entry(s, id).env /\ KindOf(Entry(s, id).env[template[i][2]]) = "fixed")
<1>1. CASE template[i][1] = "var" /\ template[i][2] \in VariableNames
    <2>1. Fill(s, id, template)[i] = <<"lit", Variables(s, id)[template[i][2]]>>
        BY <1>1, FillIs
    <2> QED  BY <2>1
<1>2. CASE /\ template[i][1] = "run" /\ template[i][2] \in DOMAIN Entry(s, id).env
           /\ KindOf(Entry(s, id).env[template[i][2]]) = "fixed"
    <2>1. Fill(s, id, template)[i] = <<"lit", Entry(s, id).env[template[i][2]].value>>
        BY <1>2, FillIs
    <2> QED  BY <2>1
<1>3. CASE /\ ~(template[i][1] = "var" /\ template[i][2] \in VariableNames)
           /\ ~(/\ template[i][1] = "run" /\ template[i][2] \in DOMAIN Entry(s, id).env
                /\ KindOf(Entry(s, id).env[template[i][2]]) = "fixed")
    <2>1. Fill(s, id, template)[i] = template[i]
        BY <1>3, FillIs
    <2> QED  BY <1>3, <2>1
<1> QED  BY <1>1, <1>2, <1>3

\* So are the runtime keys of a filled template.
LEMMA FilledKeys ==
    ASSUME NEW s, NEW id, NEW template, NEW key \in RuntimeKeys(Fill(s, id, template))
    PROVE  /\ key \in RuntimeKeys(template)
           /\ ~(key \in DOMAIN Entry(s, id).env /\ KindOf(Entry(s, id).env[key]) = "fixed")
<1>1. PICK i \in DOMAIN Fill(s, id, template) : Fill(s, id, template)[i][1] = "run" /\ Fill(s, id, template)[i][2] = key
    BY DEF RuntimeKeys
<1>2. i \in DOMAIN template
    BY FillIs
<1>3. template[i][1] = "run" /\ template[i][2] = key
      /\ ~(key \in DOMAIN Entry(s, id).env /\ KindOf(Entry(s, id).env[key]) = "fixed")
    BY <1>1, <1>2, FilledPart
<1> QED  BY <1>2, <1>3 DEF RuntimeKeys

\* Those of a backing service are declared by its engine.
LEMMA BackingKeys ==
    ASSUME NEW s, NEW src, NEW tables, CompilesTo(s, src, tables),
           NEW id \in Ids(src.doc), ~IsCoreId(id), ~Has(Entry(s, id), "none"),
           NEW template, RuntimeKeys(template) \subseteq DOMAIN Entry(s, id).env,
           NEW key \in RuntimeKeys(Fill(s, id, template))
    PROVE  Known(src.doc, tables, key)
<1>1. id[1] \in Backing(src.doc) /\ Declared(src.doc, id) = src.doc.backing_services[id[1]]
    BY IdIs
<1>2. PICK e \in DOMAIN tables : Entry(s, id) = tables[e] /\ e \in EntriesOf(tables, Declared(src.doc, id))
    BY EntryIs
<1>3. key \in DOMAIN tables[e].env /\ KindOf(tables[e].env[key]) # "fixed"
    BY <1>2, FilledKeys
<1> QED  BY <1>1, <1>2, <1>3, DeclaredKeyIsKnown DEF CompilesTo

\* A key that a reference brings in is known.
LEMMA ProvidedKeys ==
    ASSUME NEW s, NEW src, NEW tables, CompilesTo(s, src, tables), Sound(src),
           \A x \in Ids(src.doc) : ~Has(Entry(s, x), "none"),
           NEW id, NEW r, ~RefFails(s, id, r), NEW key \in RuntimeKeys(Provided(s, r))
    PROVE  Known(src.doc, tables, key)
<1> DEFINE t == RefTarget(r)
           entry == Entry(s, t)
           template == ProvidesFor(entry, s.foundation)[RefPart(r)]
<1>1. s.doc = src.doc /\ s.foundation \in {"fixed", "elastic"} /\ SoundTables(tables) /\ CoreHoldsNoKeys(src.doc, tables)
    BY ScopeIs, FoundationType, SoundIs
<1>2. t \in Ids(src.doc) /\ RefPart(r) \in DOMAIN ProvidesFor(entry, s.foundation)
    BY <1>1, TargetIsService DEF RefFails
<1>3. template \in Values(ProvidesFor(entry, s.foundation))
    BY <1>2 DEF Values
<1>4. PICK e \in DOMAIN tables : entry = tables[e] /\ e[1] = Declared(src.doc, t).role
    BY <1>2, EntryIs
<1>5. key \in RuntimeKeys(Fill(s, t, template))
    BY DEF Provided
<1>6. CASE IsCoreId(t)
    <2>1. t \in CoreServices(src.doc) /\ Declared(src.doc, t) = Core(src.doc, t)
        BY <1>2, <1>6, IdIs
    <2>2. RuntimeKeys(template) = {}
        BY <1>1, <1>3, <1>4, <2>1 DEF CoreHoldsNoKeys
    <2> QED  BY <1>5, <2>2, FilledKeys
<1>7. CASE ~IsCoreId(t)
    <2>1. RuntimeKeys(template) \subseteq DOMAIN entry.env
        BY <1>1, <1>3, <1>4 DEF SoundTables, DeclaresKeys
    <2> QED  BY <1>2, <1>5, <1>7, <2>1, BackingKeys
<1> QED  BY <1>6, <1>7

\* The keys of a resolved template are known.
LEMMA ResolvedKeys ==
    ASSUME NEW s, NEW src, NEW tables, CompilesTo(s, src, tables), Sound(src),
           \A x \in Ids(src.doc) : ~Has(Entry(s, x), "none"),
           NEW id, NEW template, PlainTemplate(template),
           \A r \in {p \in Elements(template) : p[1] = "ref"} : ~RefFails(s, id, r),
           NEW key \in RuntimeKeys(resolve_in_string(s, id, template))
    PROVE  Known(src.doc, tables, key)
<1> DEFINE parts == resolve_in_string(s, id, template)
<1>1. PICK x \in DOMAIN parts : parts[x][1] = "run" /\ parts[x][2] = key
    BY DEF RuntimeKeys
<1>2. PICK i \in DOMAIN template : \E j \in DOMAIN Put(s, id, template[i]) : x = <<i, j>>
    BY ResolvedIs
<1>3. PICK j \in DOMAIN Put(s, id, template[i]) : x = <<i, j>>
    BY <1>2
<1>4. parts[x] = Put(s, id, template[i])[j]
    BY <1>3, ResolvedIs
<1>5. template[i] \in Elements(template)
    BY DEF Elements
<1> HIDE DEF parts
<1>6. CASE template[i][1] = "ref"
    <2>1. ~RefFails(s, id, template[i])
        BY <1>5, <1>6
    <2>2. key \in RuntimeKeys(Provided(s, template[i]))
        BY <1>1, <1>3, <1>4, <1>6 DEF Put, RuntimeKeys
    <2> QED  BY <2>1, <2>2, ProvidedKeys
<1>7. CASE template[i][1] # "ref"
    <2> DEFINE one == <<template[i]>>
    <2>1. key \in RuntimeKeys(Fill(s, id, one))
        BY <1>1, <1>3, <1>4, <1>7 DEF Put, RuntimeKeys
    <2>2. key \in RuntimeKeys(one)
        BY <2>1, FilledKeys
    <2>3. template[i][1] = "run"
        BY <2>2 DEF RuntimeKeys
    <2> QED  BY <1>5, <1>7, <2>3 DEF PlainTemplate, PlainPart
<1> QED  BY <1>6, <1>7

-----------------------------------------------------------------------------
\* What an env that was written has not run into.
LEMMA NothingFails ==
    ASSUME NEW s, NEW src, NEW tables, Emitted(s, src, tables)
    PROVE  /\ s.doc = src.doc /\ CompilesTo(s, src, tables) /\ Accepted(src, tables) /\ IsDocument(src.doc)
           /\ \A id \in Ids(src.doc) : ~Has(Entry(s, id), "none")
           /\ \A id \in CoreServices(src.doc) : \A x \in TemplatesFor(s, id) :
                 \A r \in {p \in Elements(x) : p[1] = "ref"} : ~RefFails(s, id, r)
<1> DEFINE doc == src.doc
           tooLong(id) == \/ GlobalNameOf(s, id) = TooLong
                          \/ \E h \in HostsOf(s, id) : h[1] = TooLong[1]
<1>1. s.doc = doc /\ CompilesTo(s, src, tables) /\ Accepted(src, tables) /\ IsDocument(doc) /\ LateErrors(s) = {}
    BY ScopeIs DEF Emitted, CompilesTo
<1>2. LateErrors(s) = IF \E id \in Ids(doc) : Has(Entry(s, id), "none") THEN {"engine"}
                      ELSE IF \E id \in Ids(doc) : tooLong(id) THEN {"name"}
                      ELSE UNION {ServiceErrors(s, id) : id \in Ids(doc)}
    BY <1>1 DEF LateErrors
<1> HIDE DEF tooLong
<1>3. /\ \A id \in Ids(doc) : ~Has(Entry(s, id), "none")
      /\ (UNION {ServiceErrors(s, id) : id \in Ids(doc)}) = {}
    BY <1>1, <1>2
<1>4. ASSUME NEW id \in CoreServices(doc), NEW x \in TemplatesFor(s, id),
             NEW r \in {p \in Elements(x) : p[1] = "ref"}, RefFails(s, id, r)
      PROVE  FALSE
    <2>1. id \in Ids(doc) /\ IsCoreId(id)
        BY DEF Ids, CoreServices, IsCoreId
    <2>2. "reference" \in TemplateErrors(s, id, x)
        BY <1>4 DEF TemplateErrors
    <2>3. "reference" \in UNION {TemplateErrors(s, id, y) : y \in TemplatesFor(s, id)}
        BY <2>2
    <2>4. "reference" \in ServiceErrors(s, id)
        BY <2>1, <2>3 DEF ServiceErrors
    <2> QED  BY <1>3, <2>1, <2>4
<1> QED  BY <1>1, <1>3, <1>4

\* A variable of a container is read from keys that are known.
KnownEnv(doc, tables, env) == \A k \in DOMAIN env : \A key \in env[k] : Known(doc, tables, key)

\* The secrets and the config of a codebase are known.
LEMMA DeclaredByAuthor ==
    ASSUME NEW doc, NEW tables, NEW cb \in Codebases(doc), NEW key \in doc.codebases[cb].secrets \cup doc.codebases[cb].config
    PROVE  Known(doc, tables, key)
<1> DEFINE cats == classify_source_keys(doc, tables)
<1>1. /\ (UNION {doc.codebases[x].secrets : x \in Codebases(doc)}) \subseteq cats.secret
      /\ cats.config = UNION {doc.codebases[x].config : x \in Codebases(doc)}
    BY CategoriesAre
<1> HIDE DEF cats
<1>2. key \in cats.secret \/ key \in cats.config
    BY <1>1
<1> QED  BY <1>2 DEF Known, cats

\* The keys of the env that is handed to a service are known.
LEMMA SurfaceKeys ==
    ASSUME NEW s, NEW src, NEW tables, Emitted(s, src, tables), Sound(src),
           NEW id \in CoreServices(src.doc), NEW source, Values(source) \subseteq TemplatesFor(s, id)
    PROVE  KnownEnv(src.doc, tables, _build_env_surface(s, id, source))
<1> DEFINE doc == src.doc
           cb == doc.codebases[id[1]]
           written == [k \in DOMAIN source |-> RuntimeKeys(resolve_in_string(s, id, source[k]))]
           handed == Handed(cb.secrets \cup cb.config)
           env == _build_env_surface(s, id, source)
<1>1. s.doc = doc /\ PlainDocument(doc) /\ id[1] \in Codebases(doc)
    <2>1. id \in Ids(doc) /\ IsCoreId(id)
        BY DEF Ids, CoreServices, IsCoreId
    <2> QED  BY <2>1, NothingFails, SoundIs, IdIs
<1>2. env = Merge(Merge(written, handed), Literal(Injected))
    BY <1>1 DEF _build_env_surface
<1>3. ASSUME NEW k \in DOMAIN source, NEW key \in written[k]
      PROVE  Known(doc, tables, key)
    <2>1. source[k] \in TemplatesFor(s, id)
        BY DEF Values
    <2>2. key \in RuntimeKeys(resolve_in_string(s, id, source[k]))
        BY <1>3
    <2>3. PlainTemplate(source[k])
        BY <1>1, <2>1, TemplatesArePlain
    <2>4. CompilesTo(s, src, tables) /\ \A x \in Ids(doc) : ~Has(Entry(s, x), "none")
        BY NothingFails
    <2>5. \A r \in {p \in Elements(source[k]) : p[1] = "ref"} : ~RefFails(s, id, r)
        BY <2>1, NothingFails
    <2> QED  BY <2>2, <2>3, <2>4, <2>5, ResolvedKeys
<1>4. ASSUME NEW k \in DOMAIN handed, NEW key \in handed[k]
      PROVE  Known(doc, tables, key)
    <2>1. key \in cb.secrets \cup cb.config
        BY <1>4 DEF Handed
    <2> QED  BY <1>1, <2>1, DeclaredByAuthor
<1> HIDE DEF written, handed
<1>5. \A k \in DOMAIN env :
         \/ k \in DOMAIN Literal(Injected) /\ env[k] = Literal(Injected)[k]
         \/ k \in DOMAIN handed /\ env[k] = handed[k]
         \/ k \in DOMAIN written /\ env[k] = written[k]
    BY <1>2 DEF Merge, Has
<1>6. \A k \in DOMAIN Literal(Injected) : Literal(Injected)[k] = {}
    BY DEF Literal
<1>7. DOMAIN written = DOMAIN source
    BY DEF written
<1> HIDE DEF env
<1>8. ASSUME NEW k \in DOMAIN env, NEW key \in env[k]
      PROVE  Known(doc, tables, key)
    <2>1. CASE k \in DOMAIN Literal(Injected) /\ env[k] = Literal(Injected)[k]
        BY <1>6, <1>8, <2>1
    <2>2. CASE k \in DOMAIN handed /\ env[k] = handed[k]
        BY <1>4, <1>8, <2>2
    <2>3. CASE k \in DOMAIN written /\ env[k] = written[k]
        BY <1>3, <1>7, <1>8, <2>3
    <2> QED  BY <1>5, <1>8, <2>1, <2>2, <2>3
<1> QED  BY <1>8 DEF KnownEnv, env

\* The env of a core service: its surface, and its schedules.
LEMMA CoreEnvIs ==
    ASSUME NEW s, NEW src, NEW tables, Emitted(s, src, tables), NEW id \in CoreServices(src.doc)
    PROVE  /\ EnvOf(s, id) = Merge(_build_env_surface(s, id, ServiceEnv(s, id)), schedule_env(s, id))
           /\ schedule_env(s, id) \in {Literal({SCHEDULES_ENV_KEY}), <<>>}
           /\ id \in Ids(src.doc) /\ IsCoreId(id) /\ id[1] \in Codebases(src.doc)
           /\ id[2] \in DOMAIN src.doc.codebases[id[1]].core_services
           /\ Service(s, id) = Core(src.doc, id) /\ s.doc = src.doc
<1>1. id \in Ids(src.doc) /\ IsCoreId(id)
    BY DEF Ids, CoreServices, IsCoreId
<1>2. s.doc = src.doc
    BY NothingFails
<1> QED  BY <1>1, <1>2, IdIs DEF EnvOf, schedule_env, Service

\* The keys in the env of a service are known.
LEMMA ServiceKeys ==
    ASSUME NEW s, NEW src, NEW tables, Emitted(s, src, tables), Sound(src), NEW id \in Ids(src.doc)
    PROVE  KnownEnv(src.doc, tables, EnvOf(s, id))
<1> DEFINE doc == src.doc
<1>1. CASE IsCoreId(id)
    <2> DEFINE a == _build_env_surface(s, id, ServiceEnv(s, id))
               b == schedule_env(s, id)
    <2>1. id \in CoreServices(doc)
        BY <1>1, IdIs
    <2>2. EnvOf(s, id) = Merge(a, b) /\ b \in {Literal({SCHEDULES_ENV_KEY}), <<>>}
        BY <2>1, CoreEnvIs
    <2>3. KnownEnv(doc, tables, a)
        BY <2>1, SurfaceKeys DEF TemplatesFor
    <2>4. \A k \in DOMAIN b : b[k] = {}
        <3>1. DOMAIN <<>> = {}
            OBVIOUS
        <3> QED  BY <2>2, <3>1 DEF Literal
    <2> HIDE DEF a, b
    <2>5. \A k \in DOMAIN Merge(a, b) : (k \in DOMAIN b /\ Merge(a, b)[k] = b[k]) \/ (k \in DOMAIN a /\ Merge(a, b)[k] = a[k])
        BY DEF Merge, Has
    <2> QED  BY <2>2, <2>3, <2>4, <2>5 DEF KnownEnv
<1>2. CASE ~IsCoreId(id)
    <2> DEFINE entry == Entry(s, id)
               block == Under(DefaultsFor(entry, s.foundation), "environment", <<>>)
    <2>1. EnvOf(s, id) = [k \in DOMAIN block |-> RuntimeKeys(Fill(s, id, block[k]))]
        BY <1>2 DEF EnvOf, FilledDefaults
    <2>2. CompilesTo(s, src, tables) /\ ~Has(entry, "none") /\ s.foundation \in {"fixed", "elastic"} /\ SoundTables(tables)
        BY NothingFails, FoundationType, SoundIs
    <2>3. PICK e \in DOMAIN tables : entry = tables[e]
        BY <2>2, EntryIs
    <2>4. ASSUME NEW k \in DOMAIN block, NEW key \in RuntimeKeys(Fill(s, id, block[k]))
          PROVE  Known(doc, tables, key)
        <3>1. RuntimeKeys(block[k]) \subseteq DOMAIN entry.env
            BY <2>2, <2>3 DEF SoundTables, DeclaresKeys, Values
        <3> QED  BY <1>2, <2>2, <2>4, <3>1, BackingKeys
    <2> HIDE DEF block
    <2> QED  BY <2>1, <2>4 DEF KnownEnv
<1> QED  BY <1>1, <1>2

\* A codebase has a service to stand for it.
LEMMA StandIn ==
    ASSUME NEW s, NEW src, NEW tables, Emitted(s, src, tables), NEW cb \in Codebases(src.doc)
    PROVE  LET c == CHOOSE x \in ServicesOfCodebase(s, cb) : TRUE
           IN  c \in CoreServices(src.doc) /\ c[1] = cb
<1>1. s.doc = src.doc /\ DOMAIN src.doc.codebases[cb].core_services # {}
    BY NothingFails DEF Accepted, Parses
<1>2. PICK svc \in DOMAIN src.doc.codebases[cb].core_services : TRUE
    BY <1>1
<1>3. <<cb, svc>> \in ServicesOfCodebase(s, cb)
    BY <1>1, CoreIs DEF ServicesOfCodebase
<1>4. (CHOOSE x \in ServicesOfCodebase(s, cb) : TRUE) \in ServicesOfCodebase(s, cb)
    BY <1>3
<1> QED  BY <1>1, <1>4 DEF ServicesOfCodebase

\* So are those of a codebase's exec container.
LEMMA ExecKeys ==
    ASSUME NEW s, NEW src, NEW tables, Emitted(s, src, tables), Sound(src), NEW cb \in Codebases(src.doc)
    PROVE  KnownEnv(src.doc, tables, CodebaseEnvOf(s, cb))
<1> DEFINE c == CHOOSE x \in ServicesOfCodebase(s, cb) : TRUE
<1>1. c \in CoreServices(src.doc) /\ c[1] = cb /\ s.doc = src.doc
    BY StandIn, NothingFails
<1>2. CodebaseEnvOf(s, cb) = _build_env_surface(s, c, src.doc.codebases[cb].env)
    BY <1>1 DEF CodebaseEnvOf
<1> HIDE DEF c
<1>3. Values(src.doc.codebases[cb].env) \subseteq TemplatesFor(s, c)
    BY <1>1 DEF TemplatesFor, CodebaseEnv
<1> QED  BY <1>1, <1>2, <1>3, SurfaceKeys

\* A sidecar reads no key that is unknown.
LEMMA SidecarKeys ==
    ASSUME NEW doc, NEW tables
    PROVE  KnownEnv(doc, tables, SidecarEnv)
<1> DEFINE cats == classify_source_keys(doc, tables)
<1>1. DOCTRINE_INJECTED_SECRETS \subseteq cats.secret
    BY CategoriesAre
<1> HIDE DEF cats
<1>2. \A key \in DOCTRINE_INJECTED_SECRETS : key \in cats.tte \cup cats.secret \cup cats.config
    BY <1>1
<1>3. \A key \in DOCTRINE_INJECTED_SECRETS : Known(doc, tables, key)
    BY <1>2 DEF Known, cats
<1> QED  BY <1>3 DEF KnownEnv, SidecarEnv, Handed

\* The containers, by whom they stand for.
LEMMA ContainersAre ==
    ASSUME NEW s, NEW c \in Containers(s)
    PROVE  \/ \E id \in Ids(s.doc) : c \in ServiceContainers(s, id, GlobalNameOf(s, id), effective_replicas(s, id))
           \/ \E id \in Ids(s.doc) : /\ IsCoreId(id)
                 /\ \E d \in ServiceContainers(s, id, GlobalNameOf(s, id), effective_replicas(s, id)) : c = Sidecar(d)
           \/ \E cb \in Codebases(s.doc) : c = ExecContainer(s, cb)
<1> DEFINE own(id) == ServiceContainers(s, id, GlobalNameOf(s, id), effective_replicas(s, id))
<1>1. \/ \E id \in Ids(s.doc) : c \in WithSidecars(id, own(id))
      \/ \E cb \in Codebases(s.doc) : c = ExecContainer(s, cb)
    BY DEF Containers
<1> HIDE DEF own
<1>2. ASSUME NEW id \in Ids(s.doc), c \in WithSidecars(id, own(id))
      PROVE  c \in own(id) \/ (IsCoreId(id) /\ \E d \in own(id) : c = Sidecar(d))
    BY <1>2 DEF WithSidecars
<1> QED  BY <1>1, <1>2 DEF own

\* The containers of a service, whatever their number.
LEMMA ServiceContainerIs ==
    ASSUME NEW s, NEW id, NEW name, NEW count, NEW c \in ServiceContainers(s, id, name, count)
    PROVE  /\ c.env = EnvOf(s, id) /\ c.networks = Service(s, id).networks /\ c.needs = {}
           /\ c.origin[1] \in {"service", "replica"} /\ c.origin[2] = id
           /\ c.key = name \/ c.aliases = {name}
<1> DEFINE key(i) == IF count = 1 THEN name ELSE name \o <<"-", ToString(i)>>
           origin(i) == IF count = 1 THEN <<"service", id>> ELSE <<"replica", id, i>>
           aliases == IF count = 1 THEN {} ELSE {name}
           env == EnvOf(s, id)
           networks == Service(s, id).networks
           box(i) == [key |-> key(i), origin |-> origin(i), aliases |-> aliases,
                      env |-> env, networks |-> networks, needs |-> {}]
<1>1. ServiceContainers(s, id, name, count) = {box(i) : i \in 1..count}
    BY DEF ServiceContainers
<1> HIDE DEF box
<1>2. PICK i \in 1..count : c = box(i)
    BY <1>1
<1>3. /\ origin(i)[1] \in {"service", "replica"} /\ origin(i)[2] = id
      /\ key(i) = name \/ aliases = {name}
    OBVIOUS
<1> HIDE DEF key, origin, aliases, env, networks
<1>4. /\ c.key = key(i) /\ c.origin = origin(i) /\ c.aliases = aliases
      /\ c.env = env /\ c.networks = networks /\ c.needs = {}
    BY <1>2 DEF box
<1> QED  BY <1>3, <1>4 DEF env, networks

\* Every container of an env reads known keys only.
LEMMA ContainerKeys ==
    ASSUME NEW s, NEW src, NEW tables, Emitted(s, src, tables), Sound(src), NEW c \in Containers(s)
    PROVE  KnownEnv(src.doc, tables, c.env)
<1>0. s.doc = src.doc
    BY NothingFails
<1>1. ASSUME NEW id \in Ids(src.doc), NEW n, NEW k, c \in ServiceContainers(s, id, n, k)
      PROVE  KnownEnv(src.doc, tables, c.env)
    <2>1. c.env = EnvOf(s, id)
        BY <1>1, ServiceContainerIs
    <2> QED  BY <2>1, ServiceKeys
<1>2. ASSUME NEW d, c = Sidecar(d)
      PROVE  KnownEnv(src.doc, tables, c.env)
    <2>1. c.env = SidecarEnv
        BY <1>2 DEF Sidecar
    <2> QED  BY <2>1, SidecarKeys
<1>3. ASSUME NEW cb \in Codebases(src.doc), c = ExecContainer(s, cb)
      PROVE  KnownEnv(src.doc, tables, c.env)
    <2>1. c.env = CodebaseEnvOf(s, cb)
        BY <1>3 DEF ExecContainer
    <2> QED  BY <2>1, ExecKeys
<1> QED  BY <1>0, <1>1, <1>2, <1>3, ContainersAre

-----------------------------------------------------------------------------
\* A variable of a service is set from one side.
LEMMA SetOnce ==
    ASSUME NEW s, NEW src, NEW tables, Emitted(s, src, tables), NEW id \in CoreServices(src.doc),
           NEW key \in DOMAIN EnvOf(s, id)
    PROVE  Cardinality(SettersOf(s, id, key)) = 1
<1> DEFINE doc == src.doc
           cb == doc.codebases[id[1]]
           author == key \in DOMAIN ServiceEnv(s, id)
           secrets == key \in cb.secrets
           config == key \in cb.config
           doctrine == key \in Injected
           schedules == key \in DOMAIN schedule_env(s, id)
<1>0. /\ s.doc = doc /\ id[1] \in Codebases(doc) /\ id[2] \in DOMAIN cb.core_services
      /\ ServiceEnv(s, id) = EffectiveEnv(cb, Core(doc, id))
    BY CoreEnvIs DEF ServiceEnv
<1>1. author \/ secrets \/ config \/ doctrine \/ schedules
    <2>1. DOMAIN EnvOf(s, id) = ((DOMAIN ServiceEnv(s, id) \cup (cb.secrets \cup cb.config)) \cup Injected) \cup DOMAIN schedule_env(s, id)
        <3>1. EnvOf(s, id) = Merge(_build_env_surface(s, id, ServiceEnv(s, id)), schedule_env(s, id))
            BY CoreEnvIs
        <3>2. \A a, b : DOMAIN Merge(a, b) = DOMAIN a \cup DOMAIN b
            BY DEF Merge
        <3>3. DOMAIN Literal(Injected) = Injected /\ DOMAIN Handed(cb.secrets \cup cb.config) = cb.secrets \cup cb.config
            BY DEF Literal, Handed
        <3>4. DOMAIN _build_env_surface(s, id, ServiceEnv(s, id)) =
                 (DOMAIN ServiceEnv(s, id) \cup (cb.secrets \cup cb.config)) \cup Injected
            <4> DEFINE source == ServiceEnv(s, id)
                       written == [k \in DOMAIN source |-> RuntimeKeys(resolve_in_string(s, id, source[k]))]
            <4>1. _build_env_surface(s, id, source) = Merge(Merge(written, Handed(cb.secrets \cup cb.config)), Literal(Injected))
                BY <1>0 DEF _build_env_surface
            <4>2. DOMAIN written = DOMAIN source
                OBVIOUS
            <4> HIDE DEF written, source
            <4>3. DOMAIN _build_env_surface(s, id, source) = (DOMAIN source \cup (cb.secrets \cup cb.config)) \cup Injected
                <5> DEFINE handed == Handed(cb.secrets \cup cb.config)
                           inner == Merge(written, handed)
                           outer == Merge(inner, Literal(Injected))
                <5>1. DOMAIN inner = DOMAIN source \cup (cb.secrets \cup cb.config)
                    <6>1. DOMAIN handed = cb.secrets \cup cb.config
                        BY <3>3
                    <6> HIDE DEF handed
                    <6>2. DOMAIN Merge(written, handed) = DOMAIN written \cup DOMAIN handed
                        BY <3>2
                    <6> QED  BY <4>2, <6>1, <6>2
                <5>2. DOMAIN outer = DOMAIN inner \cup Injected
                    BY <3>2, <3>3
                <5>3. _build_env_surface(s, id, source) = outer
                    BY <4>1
                <5> HIDE DEF outer, inner
                <5> QED  BY <5>1, <5>2, <5>3
            <4> QED  BY <4>3 DEF source
        <3> QED  BY <3>1, <3>2, <3>4
    <2> QED  BY <2>1
<1>2. DOMAIN schedule_env(s, id) \subseteq {SCHEDULES_ENV_KEY}
    BY CoreEnvIs DEF Literal
<1>3. (author \/ secrets \/ config) => key \notin RESERVED_CORE_ENV_KEYS
    <2> DEFINE own(x) == LET base == doc.codebases[x]
                         IN  DOMAIN base.env \cup base.secrets \cup base.config
                                \cup UNION {DOMAIN base.core_services[t].env : t \in DOMAIN base.core_services}
               written == UNION {own(x) : x \in Codebases(doc)}
    <2>1. ReservedEnvKeys(doc) = {}
        BY NothingFails DEF Accepted, Issues
    <2>2. written \cap RESERVED_CORE_ENV_KEYS = {}
        BY <2>1 DEF ReservedEnvKeys, Rule
    <2>3. author => key \in DOMAIN cb.env \/ key \in DOMAIN cb.core_services[id[2]].env
        BY <1>0 DEF EffectiveEnv, Merge, Core
    <2>4. (author \/ secrets \/ config) => key \in own(id[1])
        BY <1>0, <2>3
    <2> HIDE DEF own
    <2>5. (author \/ secrets \/ config) => key \in written
        BY <1>0, <2>4
    <2> QED  BY <2>2, <2>5
<1>4. ~(secrets /\ config) /\ ~(author /\ (secrets \/ config))
    <2>1. EnvSecretsConfigOverlap(doc) = {}
        BY NothingFails DEF Accepted, Issues
    <2>2. /\ \A x \in Codebases(doc) : doc.codebases[x].secrets \cap doc.codebases[x].config = {}
          /\ \A c \in CoreServices(doc) :
                DOMAIN EffectiveEnv(doc.codebases[c[1]], Core(doc, c))
                    \cap (doc.codebases[c[1]].secrets \cup doc.codebases[c[1]].config) = {}
        BY <2>1 DEF EnvSecretsConfigOverlap, Rule
    <2> QED  BY <1>0, <2>2
<1>5. Injected \subseteq RESERVED_CORE_ENV_KEYS /\ SCHEDULES_ENV_KEY \in RESERVED_CORE_ENV_KEYS
      /\ SCHEDULES_ENV_KEY \notin Injected
    BY DEF Injected, RESERVED_CORE_ENV_KEYS, SCHEDULES_ENV_KEY
<1>6. ~(doctrine /\ schedules) /\ ~((doctrine \/ schedules) /\ (author \/ secrets \/ config))
    BY <1>2, <1>3, <1>5
<1>7. SettersOf(s, id, key) = {x \in {"author", "secrets", "config", "doctrine", "schedules"} :
         CASE x = "author" -> author [] x = "secrets" -> secrets [] x = "config" -> config
           [] x = "doctrine" -> doctrine [] x = "schedules" -> schedules}
    BY <1>0 DEF SettersOf
<1> HIDE DEF author, secrets, config, doctrine, schedules
<1>8. SettersOf(s, id, key) =
         {x \in {"author", "secrets", "config", "doctrine", "schedules"} :
             \/ x = "author" /\ author
             \/ x = "secrets" /\ secrets
             \/ x = "config" /\ config
             \/ x = "doctrine" /\ doctrine
             \/ x = "schedules" /\ schedules}
    BY <1>7
<1>9. \E x : SettersOf(s, id, key) = {x}
    <2>1. CASE author
        <3>1. SettersOf(s, id, key) = {"author"}  BY <1>4, <1>6, <1>8, <2>1
        <3> QED  BY <3>1
    <2>2. CASE secrets
        <3>1. SettersOf(s, id, key) = {"secrets"}  BY <1>4, <1>6, <1>8, <2>2
        <3> QED  BY <3>1
    <2>3. CASE config
        <3>1. SettersOf(s, id, key) = {"config"}  BY <1>4, <1>6, <1>8, <2>3
        <3> QED  BY <3>1
    <2>4. CASE doctrine
        <3>1. SettersOf(s, id, key) = {"doctrine"}  BY <1>6, <1>8, <2>4
        <3> QED  BY <3>1
    <2>5. CASE schedules
        <3>1. SettersOf(s, id, key) = {"schedules"}  BY <1>6, <1>8, <2>5
        <3> QED  BY <3>1
    <2> QED  BY <1>1, <2>1, <2>2, <2>3, <2>4, <2>5
<1> QED  BY <1>9, FS_Singleton

\* A file that is emitted reads every key from one source.
LEMMA KeysHold ==
    ASSUME NEW s, NEW src, NEW tables, Emitted(s, src, tables), Sound(src)
    PROVE  KeysHaveOneSourceIn(s, tables, Containers(s), classify_source_keys(s.doc, tables))
<1>1. s.doc = src.doc /\ Accepted(src, tables) /\ SoundTables(tables)
    BY NothingFails, SoundIs
<1>2. ASSUME NEW c \in Containers(s), NEW k \in DOMAIN c.env, NEW key \in c.env[k]
      PROVE  /\ Cardinality(CategoriesOf(classify_source_keys(s.doc, tables), key)) = 1
             /\ StoresOf(s, tables, key) # {}
    <2>1. Known(src.doc, tables, key)
        BY <1>2, ContainerKeys DEF KnownEnv
    <2> QED  BY <1>1, <2>1, KnownHasOneSource
<1>3. \A id \in CoreServices(s.doc) : \A k \in DOMAIN EnvOf(s, id) : Cardinality(SettersOf(s, id, k)) = 1
    BY <1>1, SetOnce
<1> QED  BY <1>2, <1>3 DEF KeysHaveOneSourceIn

-----------------------------------------------------------------------------
\* The containers of a service are all on its networks, and one at least is there.
LEMMA StandsFor ==
    ASSUME NEW s, NEW t, NEW c \in Containers(s), c.origin[1] \in {"service", "replica"}, c.origin[2] = t
    PROVE  c.networks = Service(s, t).networks
<1>1. ASSUME NEW id, NEW n, NEW k, c \in ServiceContainers(s, id, n, k)
      PROVE  c.networks = Service(s, t).networks
    BY <1>1, ServiceContainerIs
<1>2. ASSUME NEW d, c = Sidecar(d)
      PROVE  FALSE
    <2>1. c.origin = <<"sidecar", d.origin>>
        BY <1>2 DEF Sidecar
    <2> QED  BY <2>1
<1>3. ASSUME NEW cb, c = ExecContainer(s, cb)
      PROVE  FALSE
    <2>1. c.origin = <<"exec", cb>>
        BY <1>3 DEF ExecContainer
    <2> QED  BY <2>1
<1> QED  BY <1>1, <1>2, <1>3, ContainersAre

\* Every service has a container in a file that is emitted.
LEMMA HasContainer ==
    ASSUME NEW s, NEW src, NEW tables, Emitted(s, src, tables), NEW id \in Ids(src.doc)
    PROVE  \E c \in Containers(s) :
              /\ c \in ServiceContainers(s, id, GlobalNameOf(s, id), effective_replicas(s, id))
              /\ ~IsCoreId(id) => c.key = GlobalNameOf(s, id)
<1> DEFINE name == GlobalNameOf(s, id)
           count == effective_replicas(s, id)
<1>1. s.doc = src.doc /\ IsDocument(src.doc)
    BY NothingFails
<1>2. count \in Nat /\ count >= 1 /\ (~IsCoreId(id) => count = 1)
    <2>1. IsCoreId(id) => Service(s, id).replicas \in Nat
        BY <1>1, IdIs DEF IsDocument, Service
    <2> QED  BY <2>1 DEF effective_replicas
<1> HIDE DEF name, count
<1>3. 1 \in 1..count
    BY <1>2
<1> DEFINE key(i) == IF count = 1 THEN name ELSE name \o <<"-", ToString(i)>>
           origin(i) == IF count = 1 THEN <<"service", id>> ELSE <<"replica", id, i>>
           aliases == IF count = 1 THEN {} ELSE {name}
           env == EnvOf(s, id)
           networks == Service(s, id).networks
           box(i) == [key |-> key(i), origin |-> origin(i), aliases |-> aliases,
                      env |-> env, networks |-> networks, needs |-> {}]
<1>4. ServiceContainers(s, id, name, count) = {box(i) : i \in 1..count}
    BY DEF ServiceContainers
<1>5. box(1).key = key(1) /\ (count = 1 => key(1) = name)
    OBVIOUS
<1> HIDE DEF box, key
<1>6. box(1) \in ServiceContainers(s, id, name, count)
    BY <1>3, <1>4
<1>7. box(1) \in Containers(s)
    <2>1. box(1) \in WithSidecars(id, ServiceContainers(s, id, GlobalNameOf(s, id), effective_replicas(s, id)))
        BY <1>6 DEF WithSidecars, name, count
    <2> QED  BY <1>1, <2>1 DEF Containers
<1> QED  BY <1>2, <1>5, <1>6, <1>7 DEF name, count

-----------------------------------------------------------------------------
\* A host that a container is handed comes from a template of some core service.
HandedHost(doc, c, r, id, x) ==
    /\ r \in RefsIn({x}) /\ RefPart(r) = "host"
    /\ c.origin[1] # "exec" => c.origin[2] = id /\ c.networks = Declared(doc, id).networks

\* A host that a container is handed comes of a template of some core service.
LEMMA HostRefIs ==
    ASSUME NEW s, NEW src, NEW tables, Emitted(s, src, tables),
           NEW c \in Containers(s), NEW r \in HostRefs(TemplatesOf(s, c))
    PROVE  \E id \in CoreServices(src.doc) : \E x \in TemplatesFor(s, id) : HandedHost(src.doc, c, r, id, x)
<1> DEFINE doc == src.doc
<1>0. s.doc = doc
    BY NothingFails
<1>1. RefPart(r) = "host" /\ \E x \in TemplatesOf(s, c) : r \in RefsIn({x})
    BY DEF HostRefs, RefsIn
<1>2. PICK x \in TemplatesOf(s, c) : r \in RefsIn({x})
    BY <1>1
<1>3. CASE \E id \in Ids(doc) : c \in ServiceContainers(s, id, GlobalNameOf(s, id), effective_replicas(s, id))
    <2>1. PICK id \in Ids(doc) : c \in ServiceContainers(s, id, GlobalNameOf(s, id), effective_replicas(s, id))
        BY <1>3
    <2>2. c.origin[1] \in {"service", "replica"} /\ c.origin[2] = id /\ c.networks = Service(s, id).networks
        BY <2>1, ServiceContainerIs
    <2>3. TemplatesOf(s, c) = IF IsCoreId(id) THEN Values(ServiceEnv(s, id)) ELSE {}
        BY <2>2 DEF TemplatesOf
    <2>4. IsCoreId(id) /\ x \in TemplatesFor(s, id)
        BY <1>2, <2>3 DEF TemplatesFor
    <2>5. id \in CoreServices(doc)
        BY <2>4, IdIs
    <2>6. HandedHost(doc, c, r, id, x)
        BY <1>0, <1>1, <1>2, <2>2 DEF HandedHost, Service
    <2> QED  BY <2>4, <2>5, <2>6
<1>4. CASE \E d : c = Sidecar(d)
    <2>1. PICK d : c = Sidecar(d)
        BY <1>4
    <2>2. c.origin = <<"sidecar", d.origin>>
        BY <2>1 DEF Sidecar
    <2>3. c.origin[1] = "sidecar"
        BY <2>2
    <2>4. TemplatesOf(s, c) = {}
        BY <2>3 DEF TemplatesOf
    <2> QED  BY <1>2, <2>4
<1>5. CASE \E cb \in Codebases(doc) : c = ExecContainer(s, cb)
    <2>1. PICK cb \in Codebases(doc) : c = ExecContainer(s, cb)
        BY <1>5
    <2>2. c.origin = <<"exec", cb>>
        BY <2>1 DEF ExecContainer
    <2>3. c.origin[1] = "exec" /\ c.origin[2] = cb
        BY <2>2
    <2>4. TemplatesOf(s, c) = Values(doc.codebases[cb].env)
        BY <1>0, <2>3 DEF TemplatesOf
    <2> DEFINE id == CHOOSE y \in ServicesOfCodebase(s, cb) : TRUE
    <2>5. id \in CoreServices(doc) /\ id[1] = cb
        BY StandIn
    <2> HIDE DEF id
    <2>6. x \in TemplatesFor(s, id)
        BY <1>0, <1>2, <2>4, <2>5 DEF TemplatesFor, CodebaseEnv
    <2>7. HandedHost(doc, c, r, id, x)
        BY <1>1, <1>2, <2>3 DEF HandedHost
    <2> QED  BY <2>5, <2>6, <2>7
<1> QED  BY <1>0, <1>3, <1>4, <1>5, ContainersAre

\* What is known of the service that such a host is of.
LEMMA HostTarget ==
    ASSUME NEW s, NEW src, NEW tables, Emitted(s, src, tables), Sound(src),
           NEW id \in CoreServices(src.doc), NEW x \in TemplatesFor(s, id), NEW r \in RefsIn({x}),
           RefPart(r) = "host"
    PROVE  /\ RefTarget(r) \in Ids(src.doc) /\ ~RefFails(s, id, r)
           /\ "host" \in DOMAIN ProvidesFor(Entry(s, RefTarget(r)), s.foundation)
           /\ HostIsReal(Entry(s, RefTarget(r)))
           /\ Provided(s, r) = Fill(s, RefTarget(r), ProvidesFor(Entry(s, RefTarget(r)), s.foundation)["host"])
           /\ ~Has(Entry(s, RefTarget(r)), "none")
<1>1. ~RefFails(s, id, r)
    BY NothingFails DEF RefsIn
<1>2. s.doc = src.doc /\ CompilesTo(s, src, tables) /\ SoundTables(tables)
    BY NothingFails, SoundIs
<1>3. RefTarget(r) \in Ids(src.doc) /\ "host" \in DOMAIN ProvidesFor(Entry(s, RefTarget(r)), s.foundation)
    BY <1>1, <1>2, TargetIsService DEF RefFails
<1>4. ~Has(Entry(s, RefTarget(r)), "none")
    BY <1>3, NothingFails
<1>5. HostIsReal(Entry(s, RefTarget(r)))
    BY <1>2, <1>3, <1>4, EntryIs DEF SoundTables
<1> QED  BY <1>1, <1>3, <1>4, <1>5 DEF Provided

\* The global name, filled in.
LEMMA GlobalPartIsName ==
    ASSUME NEW s, NEW t
    PROVE  /\ Fill(s, t, <<GlobalNamePart>>)[1] = <<"lit", GlobalNameOf(s, t)>>
           /\ DOMAIN Fill(s, t, <<GlobalNamePart>>) = {1}
<1> DEFINE one == <<GlobalNamePart>>
<1>1. DOMAIN one = {1} /\ one[1] = GlobalNamePart
    OBVIOUS
<1>2. GlobalNamePart[1] = "var" /\ GlobalNamePart[2] = "global_service_name" /\ "global_service_name" \in VariableNames
    BY DEF GlobalNamePart, VariableNames
<1>3. Variables(s, t)["global_service_name"] = GlobalNameOf(s, t)
    BY DEF Variables
<1> HIDE DEF one
<1>4. DOMAIN Fill(s, t, one) = {1} /\ Fill(s, t, one)[1] = <<"lit", Variables(s, t)["global_service_name"]>>
    BY <1>1, <1>2, FillIs
<1> QED  BY <1>3, <1>4 DEF one

\* On a machine it is the name of the containers of that service.
LEMMA LandsOnMachine ==
    ASSUME NEW s, NEW src, NEW tables, Emitted(s, src, tables), Sound(src), s.foundation = "fixed",
           NEW c \in Containers(s), NEW r \in HostRefs(TemplatesOf(s, c))
    PROVE  LandsInCompose(s, Containers(s), c, r)
<1> DEFINE doc == src.doc
           t == RefTarget(r)
           host == Provided(s, r)[1][2]
           reached == Reached(Containers(s), t, host)
<1>0. s.doc = doc
    BY NothingFails
<1>1. PICK id \in CoreServices(doc) : \E x \in TemplatesFor(s, id) : HandedHost(doc, c, r, id, x)
    BY HostRefIs
<1>a. PICK x \in TemplatesFor(s, id) : HandedHost(doc, c, r, id, x)
    BY <1>1
<1>2. /\ r \in RefsIn({x}) /\ RefPart(r) = "host"
      /\ c.origin[1] # "exec" => c.origin[2] = id /\ c.networks = Declared(doc, id).networks
    BY <1>a DEF HandedHost
<1>3. /\ t \in Ids(doc) /\ "host" \in DOMAIN ProvidesFor(Entry(s, t), "fixed")
      /\ HostIsReal(Entry(s, t))
      /\ Provided(s, r) = Fill(s, t, ProvidesFor(Entry(s, t), "fixed")["host"])
    BY <1>2, HostTarget
<1>4. Provided(s, r) = Fill(s, t, <<GlobalNamePart>>)
    BY <1>3 DEF HostIsReal
<1>5. host = GlobalNameOf(s, t)
    <2>1. Provided(s, r)[1] = <<"lit", GlobalNameOf(s, t)>>
        BY <1>4, GlobalPartIsName
    <2> QED  BY <2>1
<1> HIDE DEF host
<1>6. reached # {}
    <2>1. PICK d \in Containers(s) : d \in ServiceContainers(s, t, GlobalNameOf(s, t), effective_replicas(s, t))
        BY <1>3, HasContainer
    <2>2. d.origin[1] \in {"service", "replica"} /\ d.origin[2] = t /\ (d.key = host \/ d.aliases = {host})
        BY <1>5, <2>1, ServiceContainerIs
    <2> QED  BY <2>1, <2>2 DEF Reached, StandFor
<1>7. \A d \in reached : d.networks = Declared(doc, t).networks
    BY <1>0, StandsFor DEF Reached, StandFor, Service
<1>8. OnSharedNetwork(doc, c, t, reached)
    BY <1>2, <1>6, <1>7 DEF OnSharedNetwork, ShareNetwork
<1> QED  BY <1>0, <1>8 DEF LandsInCompose, host

\* On AWS it is the discovery name of that service or an attribute of a resource
\* that is emitted for it.
LEMMA HostHasPort ==
    ASSUME NEW s, NEW src, NEW tables, Emitted(s, src, tables), Sound(src),
           NEW id \in CoreServices(src.doc), NEW x \in TemplatesFor(s, id), NEW r \in RefsIn({x}),
           RefPart(r) = "host"
    PROVE  PortOf(s, RefTarget(r)) # "none"
<1> DEFINE doc == src.doc
           t == RefTarget(r)
           cb == id[1]
           services == doc.codebases[cb].core_services
<1>1. s.doc = doc /\ Accepted(src, tables) /\ CompilesTo(s, src, tables)
      /\ ShadowedHostsHavePorts(doc) /\ BackingHasPort(doc, tables)
    BY NothingFails, SoundIs
<1>2. t \in Ids(doc) /\ ~RefFails(s, id, r) /\ ~Has(Entry(s, t), "none")
      /\ "host" \in DOMAIN ProvidesFor(Entry(s, t), s.foundation)
    BY HostTarget
<1>3. CASE ~IsCoreId(t)
    <2>1. "host" \in DOMAIN Entry(s, t).provides
        BY <1>2 DEF ProvidesFor
    <2> QED  BY <1>1, <1>2, <1>3, <2>1, BackingPort
<1>4. CASE IsCoreId(t)
    <2>1. Service(s, t) = Core(doc, t) /\ t \in CoreServices(doc)
        BY <1>1, <1>2, <1>4, IdIs DEF Service
    <2>2. Core(doc, t).port # "none"
        <3>1. CASE r \in RefsOf(doc, id)
            BY <1>1, <1>4, <3>1, AddressedHasPort
        <3>2. CASE \E k \in DOMAIN doc.codebases[cb].env :
                      x = doc.codebases[cb].env[k] /\ id[2] \in Overrides(doc, cb, k)
            <4>1. PICK k \in DOMAIN doc.codebases[cb].env : x = doc.codebases[cb].env[k]
                BY <3>2
            <4>2. cb \in Codebases(doc)
                <5>1. id \in Ids(doc) /\ IsCoreId(id)
                    BY DEF Ids, CoreServices, IsCoreId
                <5> QED  BY <5>1, IdIs
            <4>3. CASE \A svc \in DOMAIN services : k \in DOMAIN services[svc].env
                <5>1. WellFormed(r) /\ TargetExists(doc, t)
                    BY <1>1, <1>2 DEF RefFails
                <5>2. r[2] = "codebases" /\ IsCore(doc, t)
                    BY <1>4, <5>1, TargetShape DEF TargetExists, IsCoreId
                <5> QED  BY <1>1, <4>1, <4>2, <4>3, <5>1, <5>2 DEF ShadowedHostsHavePorts
            <4>4. CASE ~\A svc \in DOMAIN services : k \in DOMAIN services[svc].env
                <5>1. PICK svc \in DOMAIN services : k \notin DOMAIN services[svc].env
                    BY <4>4
                <5>2. svc \notin Overrides(doc, cb, k)
                    BY <5>1 DEF Overrides
                <5>3. r \in RefsOf(doc, <<cb, svc>>) /\ <<cb, svc>> \in CoreServices(doc)
                    BY <4>1, <4>2, <5>2, CodebaseTemplate, CoreIs
                <5> QED  BY <1>1, <1>4, <5>3, AddressedHasPort
            <4> QED  BY <4>3, <4>4
        <3> QED  BY <1>1, <3>1, <3>2, TemplateIs
    <2> QED  BY <2>1, <2>2 DEF PortOf
<1> QED  BY <1>3, <1>4

\* The attribute of a resource, filled in.
LEMMA AttributeIsFilled ==
    ASSUME NEW s, NEW t, NEW type, NEW attr
    PROVE  LET parts == Fill(s, t, Attribute(type, attr))
           IN  IsRaw(parts) /\ parts[2][2][1] = type /\ parts[3][2] = KeyOf(t)
<1> DEFINE h == Attribute(type, attr)
           parts == Fill(s, t, h)
<1>1. DOMAIN h = 1..4 /\ h[1] = <<"raw", <<>>>> /\ h[2] = <<"lit", <<type, ".">>>> /\ h[3] = <<"var", "name">>
    BY DEF Attribute
<1>2. "name" \in VariableNames /\ Variables(s, t)["name"] = KeyOf(t)
    BY DEF VariableNames, Variables
<1> HIDE DEF h
<1>3. 1 \in DOMAIN h /\ 2 \in DOMAIN h /\ 3 \in DOMAIN h
    BY <1>1
<1>4. h[1][1] = "raw" /\ h[2][1] = "lit" /\ h[3][1] = "var" /\ h[3][2] = "name"
    BY <1>1
<1>5. parts[1] = h[1]
    BY <1>3, <1>4, FillIs
<1>6. parts[2] = h[2]
    BY <1>3, <1>4, FillIs
<1>7. parts[3] = <<"lit", Variables(s, t)["name"]>>
    BY <1>2, <1>3, <1>4, FillIs
<1>8. 1 \in DOMAIN parts
    BY <1>3, FillIs
<1> HIDE DEF parts
<1>9. IsRaw(parts)
    BY <1>4, <1>5, <1>8 DEF IsRaw
<1>10. parts[2][2] = <<type, ".">> /\ <<type, ".">>[1] = type
    BY <1>1, <1>6
<1>11. parts[3][2] = KeyOf(t)
    BY <1>2, <1>7
<1> QED  BY <1>9, <1>10, <1>11 DEF parts, h

\* On AWS a host lands on a discovery name or on a resource of the file.
LEMMA LandsOnAws ==
    ASSUME NEW s, NEW src, NEW tables, Emitted(s, src, tables), Sound(src), s.foundation = "elastic",
           NEW c \in Containers(s), NEW r \in HostRefs(TemplatesOf(s, c))
    PROVE  LandsInHcl(s, HclClaims(s), Provided(s, r), <<s.env, s.slot, <<"service", RefTarget(r)>>>>)
<1> DEFINE doc == src.doc
           t == RefTarget(r)
           of == <<s.env, s.slot, <<"service", t>>>>
           entry == Entry(s, t)
           emitted == EmitsHere(s, t)
           dests == {d \in emitted \cap DOMAIN Resource : d # "target_group" \/ OwnTargetGroup(s, t)}
           h == ProvidesFor(entry, "elastic")["host"]
<1>0. s.doc = doc
    BY NothingFails
<1>1. PICK id \in CoreServices(doc) : \E x \in TemplatesFor(s, id) : HandedHost(doc, c, r, id, x)
    BY HostRefIs
<1>a. PICK x \in TemplatesFor(s, id) : HandedHost(doc, c, r, id, x)
    BY <1>1
<1>2. r \in RefsIn({x}) /\ RefPart(r) = "host"
    BY <1>a DEF HandedHost
<1>3. /\ t \in Ids(doc) /\ "host" \in DOMAIN ProvidesFor(entry, "elastic")
      /\ HostIsReal(entry) /\ Provided(s, r) = Fill(s, t, h)
    BY <1>2, HostTarget
<1>4. PortOf(s, t) # "none"
    BY <1>2, HostHasPort
<1>5. emitted = Elements(EmitsOn(entry, "elastic"))
    BY DEF EmitsHere
<1>6. \A y \in render_service(s, t) : y \in HclClaims(s)
    BY <1>0, <1>3 DEF HclClaims
<1>7. \/ h = <<GlobalNamePart>> /\ "ecs_service" \in emitted
      \/ \E d \in (emitted \cap DOMAIN Resource) \ {"target_group"} : h = Attribute(Resource[d], h[4][2][2])
    BY <1>3, <1>5 DEF HostIsReal
<1>8. CASE h = <<GlobalNamePart>> /\ "ecs_service" \in emitted
    <2>1. Provided(s, r)[1] = <<"lit", GlobalNameOf(s, t)>> /\ DOMAIN Provided(s, r) = {1}
        BY <1>3, <1>8, GlobalPartIsName
    <2>2. ~IsRaw(Provided(s, r)) /\ Provided(s, r)[1][2] = GlobalNameOf(s, t)
        BY <2>1 DEF IsRaw
    <2>3. "ecs_service" \in DOMAIN Resource
        BY DEF Resource
    <2>4. "ecs_service" \in dests
        BY <1>8, <2>3
    <2>5. <<"discovery", GlobalNameOf(s, t), of>> \in render_service(s, t)
        BY <1>4, <2>4 DEF render_service
    <2> QED  BY <1>6, <2>2, <2>5 DEF LandsInHcl
<1>9. CASE \E d \in (emitted \cap DOMAIN Resource) \ {"target_group"} : h = Attribute(Resource[d], h[4][2][2])
    <2>1. PICK d \in (emitted \cap DOMAIN Resource) \ {"target_group"} : h = Attribute(Resource[d], h[4][2][2])
        BY <1>9
    <2>2. d \in dests
        BY <2>1
    <2>3. IsRaw(Provided(s, r)) /\ Provided(s, r)[2][2][1] = Resource[d] /\ Provided(s, r)[3][2] = KeyOf(t)
        BY <1>3, <2>1, AttributeIsFilled
    <2>4. <<"resource", <<s.env, Resource[d]>> \o KeyOf(t), of>> \in render_service(s, t)
        BY <2>2 DEF render_service
    <2> QED  BY <1>6, <2>3, <2>4 DEF LandsInHcl
<1> QED  BY <1>7, <1>8, <1>9

\* A container waits only for containers of its file.
LEMMA NeedsAreThere ==
    ASSUME NEW s, NEW src, NEW tables, Emitted(s, src, tables), NEW c \in Containers(s)
    PROVE  c.needs \subseteq {x.key : x \in Containers(s)}
<1> DEFINE doc == src.doc
           own(id) == ServiceContainers(s, id, GlobalNameOf(s, id), effective_replicas(s, id))
<1>0. s.doc = doc /\ IsDocument(doc) /\ Accepted(src, tables)
    BY NothingFails
<1>1. ASSUME NEW id \in Ids(doc), c \in own(id)
      PROVE  c.needs \subseteq {x.key : x \in Containers(s)}
    <2>1. c.needs = {}
        BY <1>1, ServiceContainerIs
    <2> QED  BY <2>1
<1>2. ASSUME NEW id \in Ids(doc), NEW d \in own(id), c = Sidecar(d)
      PROVE  c.needs \subseteq {x.key : x \in Containers(s)}
    <2>1. c.needs = {d.key}
        BY <1>2 DEF Sidecar
    <2> HIDE DEF own
    <2>2. d \in WithSidecars(id, own(id))
        BY DEF WithSidecars
    <2>3. d \in Containers(s)
        BY <1>0, <2>2 DEF Containers, own
    <2> QED  BY <2>1, <2>3
<1>3. ASSUME NEW cb \in Codebases(doc), c = ExecContainer(s, cb)
      PROVE  c.needs \subseteq {x.key : x \in Containers(s)}
    <2> DEFINE uses == UNION {Service(s, y).uses : y \in ServicesOfCodebase(s, cb)}
    <2>1. c.needs = {GlobalNameOf(s, u) : u \in {x \in uses : ~names_core_service(x)}}
        BY <1>3 DEF ExecContainer
    <2>2. ASSUME NEW u \in uses, ~names_core_service(u)
          PROVE  GlobalNameOf(s, u) \in {x.key : x \in Containers(s)}
        <3>1. PICK y \in CoreServices(doc) : u \in Core(doc, y).uses
            <4>1. PICK y \in ServicesOfCodebase(s, cb) : u \in Service(s, y).uses
                BY <2>2
            <4>2. y \in CoreServices(doc)
                BY <1>0 DEF ServicesOfCodebase
            <4>3. Service(s, y) = Core(doc, y)
                BY <4>2, CoreEnvIs
            <4> QED  BY <4>1, <4>2, <4>3
        <3>2. u \in Seq(Seq(STRING)) /\ u # <<>>
            BY <1>0, <3>1 DEF IsDocument
        <3>3. Len(u) = 1 /\ u = <<u[1]>>
            <4>1. Len(u) \in Nat /\ Len(u) # 0
                BY <3>2, EmptySeq
            <4>2. ~(Len(u) > 1)
                BY <2>2 DEF names_core_service
            <4>3. \A n \in Nat : n # 0 /\ ~(n > 1) => n = 1
                OBVIOUS
            <4>4. Len(u) = 1
                BY <4>1, <4>2, <4>3
            <4> QED  BY <3>2, <4>4
        <3> DEFINE edges == UNION {{<<q, v>> : v \in Core(doc, q).uses} : q \in CoreServices(doc)}
                   bare == {e \in edges : ~names_core_service(e[2])}
        <3>4. <<y, u>> \in bare /\ <<y, u>>[2] = u
            BY <2>2, <3>1
        <3>5. /\ ~\E e \in bare : e[2][1] \in Codebases(doc)
              /\ ~\E e \in bare : e[2][1] \notin Backing(doc) \cup Codebases(doc)
            <4>1. Uses(doc) = {}
                BY <1>0 DEF Accepted, Issues
            <4> QED  BY <4>1 DEF Uses, Rule
        <3> HIDE DEF bare
        <3>6. u[1] \in Backing(doc)
            BY <3>4, <3>5
        <3>7. u \in Ids(doc) /\ ~IsCoreId(u)
            BY <3>3, <3>6 DEF Ids, IsCoreId
        <3>8. PICK d \in Containers(s) : d.key = GlobalNameOf(s, u)
            BY <3>7, HasContainer
        <3> QED  BY <3>8
    <2> HIDE DEF uses
    <2> QED  BY <2>1, <2>2
<1> QED  BY <1>0, <1>1, <1>2, <1>3, ContainersAre

\* The hosts that a file hands out land.
LEMMA RefsHold ==
    ASSUME NEW s, NEW src, NEW tables, Emitted(s, src, tables), Sound(src),
           NEW path, path[2] = "main.tf" <=> s.foundation = "elastic"
    PROVE  RefsLandIn(s, path, Containers(s), IF path[2] = "main.tf" THEN HclClaims(s) ELSE ComposeClaims(s, Containers(s)))
<1>1. s.foundation \in {"fixed", "elastic"}
    BY NothingFails, FoundationType
<1>2. CASE path[2] = "main.tf"
    BY <1>2, LandsOnAws DEF RefsLandIn
<1>3. CASE path[2] # "main.tf"
    BY <1>1, <1>3, LandsOnMachine, NeedsAreThere DEF RefsLandIn
<1> QED  BY <1>2, <1>3

-----------------------------------------------------------------------------
\* The directories that the compile at work has begun.
Begun == {OutputDirs[i] : i \in 1..(Len(OutputDirs) - Len(run.dirs))}

\* Every file is of an accepted revision that has that file and does not fail in
\* its directory.
FileKnown(p, r) ==
    /\ r \in Revisions /\ Passes(r)
    /\ p[1] \in AllDirs /\ Fails(r, p[1]) = {}
    /\ p \in PathsOf(SourceOf[r].doc, p[1])
FilesKnown == \A p \in DOMAIN tree : FileKnown(p, tree[p])

\* A compile at work has an accepted revision, the rest of the directories, and
\* files of those it has begun.
RunKnown ==
    run # NoRun =>
        /\ run.pc = "dir" /\ DOMAIN run = {"pc", "rev", "dirs", "files", "at"}
        /\ run.rev \in Revisions /\ Passes(run.rev)
        /\ run.dirs \in Seq(Elements(OutputDirs)) /\ Len(run.dirs) <= Len(OutputDirs)
        /\ \A i \in 1..Len(run.dirs) : run.dirs[i] = OutputDirs[Len(OutputDirs) - Len(run.dirs) + i]
        /\ run.files \in Seq(UNION {PathsOf(SourceOf[run.rev].doc, d) : d \in Begun})

\* What it has begun does not fail, and is on disk or still to be written.
RunWrote ==
    run # NoRun =>
        /\ verdict = NoVerdict
        /\ \A d \in Begun :
              /\ Fails(run.rev, d) = {}
              /\ \A p \in PathsOf(SourceOf[run.rev].doc, d) :
                    p \in Elements(run.files) \/ (p \in DOMAIN tree /\ tree[p] = run.rev)
        /\ Begun = {} => Output(tree) = Output(run.at)

VerdictKnown ==
    /\ verdict.kind \in {"none", "ok", "refused", "failed"}
    /\ verdict.kind = "ok" =>
          /\ DOMAIN verdict = {"kind", "rev", "dirs"}
          /\ verdict.dirs \subseteq Elements(OutputDirs)

CompileInv == rev \in Revisions /\ FilesKnown /\ RunKnown /\ RunWrote /\ VerdictKnown

\* A run is idle or at a directory.
LEMMA IdleOrDir ==
    ASSUME CompileInv
    PROVE  /\ run = NoRun => run.pc = "idle"
           /\ run # NoRun => run.pc = "dir"
<1>1. run = NoRun => run.pc = "idle"
    BY DEF NoRun
<1>2. run # NoRun => run.pc = "dir"
    BY DEF CompileInv, RunKnown
<1> QED  BY <1>1, <1>2

\* The empty tree, at the start.
LEMMA InitCompile == Init => CompileInv /\ VerdictIsTrue
BY DEF Init, CompileInv, FilesKnown, RunKnown, RunWrote, VerdictKnown, VerdictIsTrue, NoVerdict

\* An edit of the sources changes no output.
LEMMA EditKeeps ==
    ASSUME CompileInv, VerdictIsTrue, Edit
    PROVE  CompileInv' /\ VerdictIsTrue'
<1>1. /\ tree' = tree /\ run' = run /\ verdict' = verdict
      /\ rev' \in Revisions
    BY EditableAssumption DEF Edit
<1>2. /\ FilesKnown' = FilesKnown /\ RunKnown' = RunKnown /\ RunWrote' = RunWrote
      /\ VerdictKnown' = VerdictKnown /\ VerdictIsTrue' = VerdictIsTrue
    BY <1>1 DEF FilesKnown, RunKnown, RunWrote, VerdictKnown, VerdictIsTrue, Begun
<1> QED  BY <1>1, <1>2 DEF CompileInv

\* The start of a compile: a refusal leaves the tree, an accepted run has begun
\* no directory.
LEMMA StartKeeps ==
    ASSUME CompileInv, VerdictIsTrue, StartCompile
    PROVE  CompileInv' /\ VerdictIsTrue'
<1>1. /\ rev \in Revisions /\ rev' = rev /\ tree' = tree /\ run = NoRun
      /\ FilesKnown
    BY IdleOrDir DEF CompileInv, StartCompile
<1>2. FilesKnown'
    BY <1>1 DEF FilesKnown
<1>3. CASE Passes(rev)
    <2>1. /\ run' = [pc |-> "dir", rev |-> rev, dirs |-> OutputDirs, files |-> <<>>, at |-> tree]
          /\ verdict' = NoVerdict
        BY <1>3 DEF StartCompile
    <2>2. Begun' = {}
        <3>1. Len(OutputDirs) - Len(run'.dirs) = 0  BY <2>1, OutputDirsType
        <3>2. 1..0 = {}  OBVIOUS
        <3> QED  BY <3>1, <3>2 DEF Begun
    <2>3. RunKnown'
        <3>1. DOMAIN run' = {"pc", "rev", "dirs", "files", "at"} /\ run'.pc = "dir"
              /\ run'.rev = rev /\ run'.dirs = OutputDirs /\ run'.files = <<>>
            BY <2>1
        <3>2. \A i \in 1..Len(OutputDirs) : OutputDirs[i] = OutputDirs[Len(OutputDirs) - Len(OutputDirs) + i]
            BY OutputDirsType
        <3> QED  BY <1>1, <1>3, <3>1, <3>2, OutputDirsType DEF RunKnown
    <2>4. RunWrote'
        <3>1. run'.at = tree'  BY <1>1, <2>1
        <3> QED  BY <2>1, <2>2, <3>1 DEF RunWrote
    <2> QED  BY <1>1, <1>2, <2>1, <2>3, <2>4 DEF CompileInv, VerdictKnown, VerdictIsTrue, NoVerdict
<1>4. CASE ~Passes(rev)
    <2>1. run' = run /\ verdict' = [kind |-> "refused", rev |-> rev, at |-> tree]
        BY <1>4 DEF StartCompile
    <2> QED  BY <1>1, <1>2, <2>1 DEF CompileInv, RunKnown, RunWrote, VerdictKnown, VerdictIsTrue, NoRun
<1> QED  BY <1>3, <1>4

\* A run takes the directories in order.
LEMMA NextDir ==
    ASSUME CompileInv, run # NoRun, run.dirs # <<>>
    PROVE  /\ Head(run.dirs) \in Elements(OutputDirs)
           /\ Len(Tail(run.dirs)) = Len(run.dirs) - 1
           /\ Tail(run.dirs) \in Seq(Elements(OutputDirs))
           /\ \A i \in 1..Len(Tail(run.dirs)) :
                 Tail(run.dirs)[i] = OutputDirs[Len(OutputDirs) - Len(Tail(run.dirs)) + i]
           /\ {OutputDirs[i] : i \in 1..(Len(OutputDirs) - Len(Tail(run.dirs)))} = Begun \cup {Head(run.dirs)}
<1> DEFINE ds == run.dirs
           D == Elements(OutputDirs)
           n == Len(OutputDirs) - Len(ds)
<1>1. /\ ds \in Seq(D) /\ Len(ds) <= Len(OutputDirs)
      /\ \A i \in 1..Len(ds) : ds[i] = OutputDirs[n + i]
      /\ Len(OutputDirs) = 6
    BY OutputDirsType DEF CompileInv, RunKnown
<1>2. Begun = {OutputDirs[i] : i \in 1..n}
    BY DEF Begun
<1> HIDE DEF ds, D, n
<1>3. /\ Head(ds) \in D /\ Tail(ds) \in Seq(D) /\ Len(Tail(ds)) = Len(ds) - 1
      /\ \A i \in 1..Len(Tail(ds)) : Tail(ds)[i] = ds[i + 1]
      /\ Head(ds) = ds[1] /\ 1 \in 1..Len(ds) /\ Len(ds) \in Nat
    BY <1>1 DEF ds
<1>4. n \in Nat /\ n + Len(ds) = Len(OutputDirs)
    BY <1>1, <1>3 DEF n
<1>5. \A i \in 1..Len(Tail(ds)) : Tail(ds)[i] = OutputDirs[Len(OutputDirs) - Len(Tail(ds)) + i]
    <2> SUFFICES ASSUME NEW i \in 1..Len(Tail(ds))
                 PROVE  Tail(ds)[i] = OutputDirs[Len(OutputDirs) - Len(Tail(ds)) + i]
        OBVIOUS
    <2>1. i + 1 \in 1..Len(ds) /\ n + (i + 1) = Len(OutputDirs) - Len(Tail(ds)) + i
        BY <1>1, <1>3, <1>4
    <2> QED  BY <1>1, <1>3, <2>1
<1>6. Len(OutputDirs) - Len(Tail(ds)) = n + 1 /\ Head(ds) = OutputDirs[n + 1]
    BY <1>1, <1>3, <1>4
<1>7. 1..(n + 1) = 1..n \cup {n + 1}
    BY <1>4
<1>8. {OutputDirs[i] : i \in 1..(n + 1)} = Begun \cup {Head(ds)}
    BY <1>2, <1>6, <1>7
<1> QED  BY <1>3, <1>5, <1>6, <1>8 DEF ds, D

\* The compile of a directory: it fails as foreseen, and with an output only by
\* a name or on elastic, or it goes on.
LEMMA DirKeeps ==
    ASSUME SoundSources, CompileInv, VerdictIsTrue, CompileDir
    PROVE  CompileInv' /\ VerdictIsTrue'
<1> DEFINE dir == Head(run.dirs)
           doc == SourceOf[run.rev].doc
           files == PathSeq(FilesOf(doc, dir), dir)
<1>1. /\ run # NoRun /\ run.files = <<>> /\ run.dirs # <<>>
      /\ rev' = rev /\ tree' = tree
    BY IdleOrDir DEF CompileDir, NoRun
<1>2. /\ run.pc = "dir" /\ DOMAIN run = {"pc", "rev", "dirs", "files", "at"}
      /\ run.rev \in Revisions /\ Passes(run.rev) /\ verdict = NoVerdict
      /\ Len(run.dirs) <= Len(OutputDirs)
    BY <1>1 DEF CompileInv, RunKnown, RunWrote
<1>3. dir \in Elements(OutputDirs) /\ dir \in AllDirs
    BY <1>1, NextDir, OutputDirsType
<1>4. rev' \in Revisions /\ FilesKnown'
    BY <1>1 DEF CompileInv, FilesKnown
<1>5. \A d \in Begun : /\ Fails(run.rev, d) = {}
                       /\ \A p \in PathsOf(doc, d) : p \in DOMAIN tree /\ tree[p] = run.rev
    <2>1. Elements(run.files) = {}  BY <1>1 DEF Elements
    <2> QED  BY <1>1, <2>1 DEF CompileInv, RunWrote
<1>6. CASE Fails(run.rev, dir) = {}
    <2>1. run' = [run EXCEPT !.files = files, !.dirs = Tail(run.dirs)] /\ verdict' = verdict
        BY <1>6 DEF CompileDir
    <2>2. /\ DOMAIN run' = {"pc", "rev", "dirs", "files", "at"} /\ run'.pc = "dir"
          /\ run'.rev = run.rev /\ run'.files = files /\ run'.dirs = Tail(run.dirs) /\ run'.at = run.at
        BY <1>2, <2>1
    <2>3. Begun' = Begun \cup {dir}
        BY <1>1, <2>2, NextDir DEF Begun
    <2>4. files \in Seq(PathsOf(doc, dir)) /\ Elements(files) = PathsOf(doc, dir)
        BY PathSeqType
    <2>5. files \in Seq(UNION {PathsOf(doc, d) : d \in Begun'})
        <3>1. PathsOf(doc, dir) \subseteq UNION {PathsOf(doc, d) : d \in Begun'}  BY <2>3
        <3> HIDE DEF files, doc, dir
        <3> QED  BY <2>4, <3>1
    <2>6. RunKnown'
        <3>1. Len(Tail(run.dirs)) <= Len(OutputDirs)
            <4>1. Len(run.dirs) \in Nat  BY <1>1 DEF CompileInv, RunKnown
            <4> QED  BY <1>1, <1>2, <4>1, NextDir, OutputDirsType
        <3> QED  BY <1>1, <1>2, <2>2, <2>5, <3>1, NextDir DEF RunKnown
    <2>7. RunWrote'
        <3>1. \A d \in Begun' :
                 /\ Fails(run.rev, d) = {}
                 /\ \A p \in PathsOf(doc, d) : p \in Elements(files) \/ (p \in DOMAIN tree /\ tree[p] = run.rev)
            BY <1>5, <1>6, <2>3, <2>4
        <3>2. Begun' # {}  BY <2>3
        <3> QED  BY <1>1, <1>2, <2>1, <2>2, <3>1, <3>2 DEF RunWrote
    <2> QED  BY <1>1, <1>2, <1>4, <2>1, <2>6, <2>7 DEF CompileInv, VerdictKnown, VerdictIsTrue, NoVerdict
<1>7. CASE Fails(run.rev, dir) # {}
    <2>1. run' = NoRun /\ verdict' = [kind |-> "failed", rev |-> run.rev, at |-> run.at, dir |-> dir]
        BY <1>7 DEF CompileDir
    <2>2. RunKnown' /\ RunWrote' /\ VerdictKnown'
        BY <2>1 DEF RunKnown, RunWrote, VerdictKnown
    <2>3. Fails(run.rev, dir) \subseteq Foreseen(doc)
        BY <1>2, <1>3, ForeseenFails
    <2>4. \/ Output(tree) = Output(run.at)
          \/ "name" \in Fails(run.rev, dir)
          \/ doc.foundation = "elastic" /\ dir[1] \in {"stage", "prod"}
        <3>1. CASE Begun = {}
            BY <1>1, <3>1 DEF CompileInv, RunWrote
        <3>2. CASE Begun # {}
            <4>1. EnvDir("dev") \in Begun
                <5>1. PICK i \in 1..(Len(OutputDirs) - Len(run.dirs)) : TRUE  BY <3>2 DEF Begun
                <5>2. Len(run.dirs) \in Nat  BY <1>1 DEF CompileInv, RunKnown
                <5>3. 1 \in 1..(Len(OutputDirs) - Len(run.dirs))  BY <5>1, <5>2, OutputDirsType
                <5>4. OutputDirs[1] = EnvDir("dev")  BY OutputDirsIs DEF EnvDir
                <5> QED  BY <5>3, <5>4 DEF Begun
            <4>2. Fails(run.rev, EnvDir("dev")) = {}
                BY <1>5, <4>1
            <4> QED  BY <1>2, <1>3, <1>7, <4>2, LaterFailsByName
        <3> QED  BY <3>1, <3>2
    <2>5. VerdictIsTrue'
        <3>1. /\ verdict'.kind = "failed" /\ verdict'.rev = run.rev
              /\ verdict'.at = run.at /\ verdict'.dir = dir
            BY <2>1
        <3>2. Output(tree)' = Output(tree) /\ Output(verdict.at)' = Output(run.at)
            BY <1>1, <3>1 DEF Output
        <3> HIDE DEF dir, doc
        <3> QED  BY <1>1, <2>3, <2>4, <3>1, <3>2 DEF VerdictIsTrue, doc
    <2> QED  BY <1>4, <2>2, <2>5 DEF CompileInv
<1> QED  BY <1>6, <1>7

\* The write of one file.
LEMMA FileKeeps ==
    ASSUME CompileInv, VerdictIsTrue, WriteFile
    PROVE  CompileInv' /\ VerdictIsTrue'
<1> DEFINE doc == SourceOf[run.rev].doc
           path == Head(run.files)
           P == UNION {PathsOf(doc, d) : d \in Begun}
<1>1. /\ run # NoRun /\ run.files # <<>>
      /\ rev' = rev /\ verdict' = verdict
      /\ tree' = [p \in DOMAIN tree \cup {path} |-> IF p \in {path} THEN run.rev ELSE tree[p]]
      /\ run' = [run EXCEPT !.files = Tail(run.files)]
    BY IdleOrDir DEF WriteFile, NoRun, Write, WriteAll
<1>2. /\ run.pc = "dir" /\ DOMAIN run = {"pc", "rev", "dirs", "files", "at"}
      /\ run.rev \in Revisions /\ Passes(run.rev) /\ verdict = NoVerdict
      /\ run.files \in Seq(P)
    BY <1>1 DEF CompileInv, RunKnown, RunWrote
<1>3. /\ DOMAIN run' = {"pc", "rev", "dirs", "files", "at"} /\ run'.pc = "dir"
      /\ run'.rev = run.rev /\ run'.files = Tail(run.files) /\ run'.dirs = run.dirs /\ run'.at = run.at
    BY <1>1, <1>2
<1>4. Begun' = Begun
    BY <1>3 DEF Begun
<1>5. /\ path \in P /\ Tail(run.files) \in Seq(P)
      /\ Elements(run.files) \subseteq Elements(Tail(run.files)) \cup {path}
    <2> HIDE DEF P
    <2>1. path \in P /\ Tail(run.files) \in Seq(P)  BY <1>1, <1>2
    <2>2. \A i \in 1..Len(run.files) : run.files[i] = path \/ run.files[i] \in Elements(Tail(run.files))
        <3> SUFFICES ASSUME NEW i \in 1..Len(run.files), i # 1
                     PROVE  run.files[i] \in Elements(Tail(run.files))
            BY <1>1, <1>2
        <3>1. i - 1 \in 1..Len(Tail(run.files)) /\ Tail(run.files)[i - 1] = run.files[i]
            BY <1>1, <1>2
        <3>2. i - 1 \in DOMAIN Tail(run.files)  BY <2>1, <3>1
        <3> QED  BY <3>1, <3>2 DEF Elements
    <2> QED  BY <1>2, <2>1, <2>2 DEF Elements
<1>6. PICK d \in Begun : path \in PathsOf(doc, d)
    BY <1>5
<1>7. path[1] = d /\ d \in AllDirs /\ Fails(run.rev, d) = {}
    <2>1. d \in Elements(OutputDirs)
        <3>1. d \in {OutputDirs[i] : i \in 1..(Len(OutputDirs) - Len(run.dirs))}  BY DEF Begun
        <3>2. Len(run.dirs) \in Nat  BY <1>1 DEF CompileInv, RunKnown
        <3> QED  BY <3>1, <3>2, OutputDirsType
    <2> QED  BY <1>1, <1>6, <2>1, PathSeqType, OutputDirsType DEF CompileInv, RunWrote
<1>8. FilesKnown'
    <2>1. FileKnown(path, run.rev)
        BY <1>2, <1>6, <1>7 DEF FileKnown
    <2>2. \A p \in DOMAIN tree' : FileKnown(p, tree'[p])
        BY <1>1, <2>1 DEF CompileInv, FilesKnown
    <2> QED  BY <2>2 DEF FilesKnown, FileKnown
<1>9. RunKnown'
    BY <1>1, <1>2, <1>3, <1>4, <1>5 DEF CompileInv, RunKnown
<1>10. RunWrote'
    <2>1. \A e \in Begun :
             /\ Fails(run.rev, e) = {}
             /\ \A p \in PathsOf(doc, e) : p \in Elements(Tail(run.files)) \/ (p \in DOMAIN tree' /\ tree'[p] = run.rev)
        <3> SUFFICES ASSUME NEW e \in Begun, NEW p \in PathsOf(doc, e), p \notin Elements(Tail(run.files))
                     PROVE  p \in DOMAIN tree' /\ tree'[p] = run.rev
            BY <1>1 DEF CompileInv, RunWrote
        <3>1. p = path \/ (p \in DOMAIN tree /\ tree[p] = run.rev)
            BY <1>1, <1>5 DEF CompileInv, RunWrote
        <3> QED  BY <1>1, <3>1
    <2>2. Begun # {}  BY <1>6
    <2> QED  BY <1>1, <1>2, <1>3, <1>4, <2>1, <2>2 DEF RunWrote
<1> QED  BY <1>1, <1>2, <1>8, <1>9, <1>10 DEF CompileInv, VerdictKnown, VerdictIsTrue, NoVerdict

\* The end of a compile: all six directories are on disk.
LEMMA FinishKeeps ==
    ASSUME CompileInv, VerdictIsTrue, Finish
    PROVE  CompileInv' /\ VerdictIsTrue'
<1>1. /\ run # NoRun /\ run.files = <<>> /\ run.dirs = <<>>
      /\ rev' = rev /\ tree' = tree /\ run' = NoRun
      /\ verdict' = [kind |-> "ok", rev |-> run.rev, dirs |-> Elements(OutputDirs)]
    BY IdleOrDir DEF Finish, NoRun
<1>2. rev' \in Revisions /\ FilesKnown'
    BY <1>1 DEF CompileInv, FilesKnown
<1>3. RunKnown' /\ RunWrote' /\ VerdictKnown'
    BY <1>1 DEF RunKnown, RunWrote, VerdictKnown
<1>4. Begun = Elements(OutputDirs)
    <2>1. Len(OutputDirs) - Len(run.dirs) = 6  BY <1>1, OutputDirsType
    <2> QED  BY <2>1, OutputDirsType DEF Begun
<1>5. \A d \in Elements(OutputDirs) : \A p \in PathsOf(SourceOf[run.rev].doc, d) :
         p \in DOMAIN tree /\ tree[p] = run.rev
    <2>1. Elements(run.files) = {}  BY <1>1 DEF Elements
    <2> QED  BY <1>1, <1>4, <2>1 DEF CompileInv, RunWrote
<1>6. verdict'.kind = "ok" /\ verdict'.rev = run.rev /\ verdict'.dirs = Elements(OutputDirs)
    BY <1>1
<1>7. VerdictIsTrue'
    BY <1>1, <1>5, <1>6 DEF VerdictIsTrue
<1> QED  BY <1>2, <1>3, <1>7 DEF CompileInv

\* A compile that is killed reports nothing.
LEMMA KillKeeps ==
    ASSUME CompileInv, VerdictIsTrue, Kill
    PROVE  CompileInv' /\ VerdictIsTrue'
<1>1. rev' = rev /\ tree' = tree /\ run' = NoRun /\ verdict' = NoVerdict
    BY DEF Kill
<1> QED  BY <1>1 DEF CompileInv, FilesKnown, RunKnown, RunWrote, VerdictKnown, VerdictIsTrue, NoVerdict

\* The compile of a test slot, which leaves the output of a compile alone.
LEMMA SlotKeeps ==
    ASSUME CompileInv, VerdictIsTrue, NEW k \in Slots, CompileSlot(k)
    PROVE  CompileInv' /\ VerdictIsTrue'
<1> DEFINE paths == PathsOf(SourceOf[rev].doc, SlotDir(k))
<1>1. /\ rev' = rev /\ run' = run /\ Passes(rev) /\ Fails(rev, SlotDir(k)) = {}
      /\ tree' = [p \in DOMAIN tree \cup paths |-> IF p \in paths THEN rev ELSE tree[p]]
      /\ rev \in Revisions
    BY DEF CompileSlot, WriteAll, CompileInv
<1>2. \A p \in paths : p[1] = SlotDir(k)
    BY PathSeqType
<1>3. \A p : p[1] # SlotDir(k) => (p \in DOMAIN tree' <=> p \in DOMAIN tree) /\ (p \in DOMAIN tree => tree'[p] = tree[p])
    BY <1>1, <1>2
<1>4. FilesKnown'
    <2>1. \A p \in paths : FileKnown(p, rev)
        BY <1>1, <1>2 DEF FileKnown, AllDirs
    <2>2. \A p \in DOMAIN tree' : FileKnown(p, tree'[p])
        BY <1>1, <2>1 DEF CompileInv, FilesKnown
    <2> QED  BY <2>2 DEF FilesKnown, FileKnown
<1>5. RunKnown'
    BY <1>1 DEF CompileInv, RunKnown, Begun
<1>6. run # NoRun => SlotDir(k) \notin Elements(OutputDirs)
    BY SlotIsApart, IdleOrDir DEF CompileSlot
<1>7. run # NoRun => verdict' = NoVerdict
    BY DEF CompileSlot, CompileInv, RunWrote, NoVerdict
<1>8. RunWrote'
    <2> SUFFICES ASSUME run # NoRun  PROVE RunWrote'
        BY <1>1 DEF RunWrote
    <2>1. Begun' = Begun  BY <1>1 DEF Begun
    <2>2. \A d \in Begun : d # SlotDir(k)
        <3>1. Len(run.dirs) \in Nat  BY DEF CompileInv, RunKnown
        <3> QED  BY <1>6, <3>1, OutputDirsType DEF Begun
    <2>3. \A d \in Begun : \A p \in PathsOf(SourceOf[run.rev].doc, d) :
             p \in DOMAIN tree /\ tree[p] = run.rev => p \in DOMAIN tree' /\ tree'[p] = run.rev
        BY <1>3, <2>2, PathSeqType
    <2>4. Output(tree') = Output(tree)
        <3>1. {q \in DOMAIN tree' : q[1] \in Elements(OutputDirs)} = {q \in DOMAIN tree : q[1] \in Elements(OutputDirs)}
            BY <1>3, <1>6
        <3> QED  BY <1>3, <1>6, <3>1 DEF Output
    <2> QED  BY <1>1, <1>7, <2>1, <2>3, <2>4 DEF CompileInv, RunWrote
<1>9. CASE verdict.kind = "ok"
    <2>1. verdict' = [verdict EXCEPT !.dirs = @ \ {SlotDir(k)}]
        BY <1>9 DEF CompileSlot
    <2>2. /\ DOMAIN verdict' = {"kind", "rev", "dirs"} /\ verdict'.kind = "ok" /\ verdict'.rev = verdict.rev
          /\ verdict'.dirs = verdict.dirs \ {SlotDir(k)}
        BY <1>9, <2>1 DEF CompileInv, VerdictKnown
    <2>3. VerdictKnown'
        BY <1>9, <2>2 DEF CompileInv, VerdictKnown
    <2>4. \A d \in verdict'.dirs : \A p \in PathsOf(SourceOf[verdict.rev].doc, d) :
             p \in DOMAIN tree' /\ tree'[p] = verdict.rev
        BY <1>3, <1>9, <2>2, PathSeqType DEF VerdictIsTrue
    <2> QED  BY <1>1, <1>4, <1>5, <1>8, <2>2, <2>3, <2>4 DEF CompileInv, VerdictIsTrue
<1>10. CASE verdict.kind # "ok"
    <2>1. verdict'.kind = "none"
        BY <1>10 DEF CompileSlot, CompileInv, VerdictKnown, NoVerdict
    <2> QED  BY <1>1, <1>4, <1>5, <1>8, <2>1 DEF CompileInv, VerdictKnown, VerdictIsTrue
<1> QED  BY <1>9, <1>10

\* No step breaks the invariant: not an edit, a phase of the compile, its death,
\* or the compile of a test slot in between.
THEOREM CompileStep ==
    ASSUME SoundSources, CompileInv, VerdictIsTrue, [Next]_vars
    PROVE  CompileInv' /\ VerdictIsTrue'
<1>1. CASE UNCHANGED vars
    <2>1. rev' = rev /\ tree' = tree /\ run' = run /\ verdict' = verdict  BY <1>1 DEF vars
    <2>2. /\ FilesKnown' = FilesKnown /\ RunKnown' = RunKnown /\ RunWrote' = RunWrote
          /\ VerdictKnown' = VerdictKnown /\ VerdictIsTrue' = VerdictIsTrue
        BY <2>1 DEF FilesKnown, RunKnown, RunWrote, VerdictKnown, VerdictIsTrue, Begun
    <2> QED  BY <2>1, <2>2 DEF CompileInv
<1> QED  BY <1>1, EditKeeps, StartKeeps, DirKeeps, FileKeeps, FinishKeeps, KillKeeps, SlotKeeps DEF Next

-----------------------------------------------------------------------------
\* What the files of an env say, now that each is of a compile that succeeded.
\* The elements of two sequences, one after the other.
LEMMA JoinedElements ==
    ASSUME NEW S, NEW a \in Seq(S), NEW b \in Seq(S)
    PROVE  Elements(a \o b) = Elements(a) \cup Elements(b)
<1>1. /\ a \o b \in Seq(S) /\ Len(a \o b) = Len(a) + Len(b)
      /\ \A i \in 1..(Len(a) + Len(b)) : (a \o b)[i] = IF i <= Len(a) THEN a[i] ELSE b[i - Len(a)]
    BY ConcatProperties
<1>2. /\ DOMAIN (a \o b) = 1..(Len(a) + Len(b)) /\ DOMAIN a = 1..Len(a) /\ DOMAIN b = 1..Len(b)
      /\ Len(a) \in Nat /\ Len(b) \in Nat
    BY <1>1
<1> DEFINE ab == a \o b
<1> HIDE DEF ab
<1>3. ASSUME NEW i \in 1..(Len(a) + Len(b)) PROVE ab[i] \in Elements(a) \cup Elements(b)
    <2>1. CASE i <= Len(a)
        <3>1. i \in DOMAIN a /\ ab[i] = a[i]
            BY <1>1, <1>2, <2>1 DEF ab
        <3> QED  BY <3>1 DEF Elements
    <2>2. CASE ~(i <= Len(a))
        <3>1. i - Len(a) \in DOMAIN b /\ ab[i] = b[i - Len(a)]
            BY <1>1, <1>2, <2>2 DEF ab
        <3> QED  BY <3>1 DEF Elements
    <2> QED  BY <2>1, <2>2
<1>4. ASSUME NEW i \in DOMAIN a PROVE a[i] \in Elements(ab)
    <2>1. i \in 1..(Len(a) + Len(b)) /\ i <= Len(a)
        BY <1>2
    <2>2. i \in DOMAIN ab /\ ab[i] = a[i]
        BY <1>1, <1>2, <2>1 DEF ab
    <2> QED  BY <2>2 DEF Elements
<1>5. ASSUME NEW i \in DOMAIN b PROVE b[i] \in Elements(ab)
    <2>1. i + Len(a) \in 1..(Len(a) + Len(b)) /\ ~(i + Len(a) <= Len(a)) /\ (i + Len(a)) - Len(a) = i
        BY <1>2
    <2>2. i + Len(a) \in DOMAIN ab /\ ab[i + Len(a)] = b[i]
        BY <1>1, <1>2, <2>1 DEF ab
    <2> QED  BY <2>2 DEF Elements
<1>6. DOMAIN ab = 1..(Len(a) + Len(b))
    BY <1>2 DEF ab
<1>7. Elements(ab) = Elements(a) \cup Elements(b)
    BY <1>3, <1>4, <1>5, <1>6 DEF Elements
<1> QED  BY <1>7 DEF ab

\* A directory has the main file of its foundation.
LEMMA MainFileFits ==
    ASSUME NEW doc, NEW dir, IsEnvDir(dir), NEW p \in PathsOf(doc, dir), Main(p)
    PROVE  p[2] = "main.tf" <=> _env_foundation(doc, dir[1]) # "fixed"
<1> DEFINE foundation == _env_foundation(doc, dir[1])
           a == IF HasClock(doc) THEN <<"schedules.yml">> ELSE <<>>
           b == IF foundation = "fixed" THEN <<"docker-compose.yml">> ELSE <<"main.tf">>
           c == IF foundation = "fixed" /\ dir[1] \in {"stage", "prod"} THEN <<"ansible">> ELSE <<>>
<1>1. FilesOf(doc, dir) = a \o b \o c
    BY DEF FilesOf
<1>2. /\ \A x \in FileNames : <<x>> \in Seq(FileNames) /\ Elements(<<x>>) = {x}
      /\ <<>> \in Seq(FileNames) /\ Elements(<<>>) = {}
    <2>1. \A x \in FileNames : <<x>> \in Seq(FileNames) /\ DOMAIN <<x>> = {1} /\ <<x>>[1] = x
        OBVIOUS
    <2>2. <<>> \in Seq(FileNames) /\ DOMAIN <<>> = {}
        OBVIOUS
    <2> QED  BY <2>1, <2>2 DEF Elements
<1>3. {"schedules.yml", "docker-compose.yml", "main.tf", "ansible"} \subseteq FileNames
    BY DEF FileNames
<1>4. /\ a \in Seq(FileNames) /\ Elements(a) \subseteq {"schedules.yml"}
      /\ b \in Seq(FileNames) /\ Elements(b) = IF foundation = "fixed" THEN {"docker-compose.yml"} ELSE {"main.tf"}
      /\ c \in Seq(FileNames) /\ Elements(c) \subseteq {"ansible"}
    <2> HIDE DEF foundation
    <2>1. a \in Seq(FileNames) /\ Elements(a) \subseteq {"schedules.yml"}
        BY <1>2, <1>3
    <2>2. b \in Seq(FileNames) /\ Elements(b) = IF foundation = "fixed" THEN {"docker-compose.yml"} ELSE {"main.tf"}
        BY <1>2, <1>3
    <2>3. c \in Seq(FileNames) /\ Elements(c) \subseteq {"ansible"}
        BY <1>2, <1>3
    <2> QED  BY <2>1, <2>2, <2>3
<1> HIDE DEF a, b, c, foundation
<1>5. a \o b \in Seq(FileNames) /\ Elements(a \o b) = Elements(a) \cup Elements(b)
    BY <1>4, JoinedElements, ConcatProperties
<1>6. Elements(FilesOf(doc, dir)) = Elements(a) \cup Elements(b) \cup Elements(c)
    <2> DEFINE ab == a \o b
    <2>1. FilesOf(doc, dir) = ab \o c /\ ab \in Seq(FileNames) /\ c \in Seq(FileNames)
        BY <1>1, <1>4, <1>5
    <2>2. Elements(ab) = Elements(a) \cup Elements(b)
        BY <1>5
    <2> HIDE DEF ab
    <2>3. Elements(ab \o c) = Elements(ab) \cup Elements(c)
        BY <2>1, JoinedElements
    <2> QED  BY <2>1, <2>2, <2>3
<1>7. p[2] \in Elements(FilesOf(doc, dir))
    BY DEF PathsOf
<1>8. p[2] \in {"docker-compose.yml", "main.tf"}
    BY DEF Main
<1>9. p[2] \in Elements(b)
    BY <1>4, <1>6, <1>7, <1>8
<1> QED  BY <1>4, <1>9 DEF foundation

\* A file of an env, written by the compile of a directory that succeeded, says
\* only what lands and reads every key from one store.
LEMMA FilesSay ==
    ASSUME SoundSources, FilesKnown, NEW p \in EnvFiles
    PROVE  Text(p).refsLand /\ Text(p).oneSource
<1> DEFINE r == tree[p]
           src == SourceOf[r]
           tables == Tables(src.layer)
           s == Scope(src.doc, tables, p[1][1], p[1][2])
           claims == IF p[2] = "main.tf" THEN HclClaims(s) ELSE ComposeClaims(s, Containers(s))
           refs == RefsLandIn(s, p, Containers(s), claims)
           keys == KeysHaveOneSourceIn(s, tables, Containers(s), classify_source_keys(s.doc, tables))
<1>1. p \in DOMAIN tree /\ Main(p) /\ IsEnvDir(p[1])
    BY DEF EnvFiles, MainFiles
<1>2. /\ r \in Revisions /\ Passes(r) /\ p[1] \in AllDirs /\ Fails(r, p[1]) = {}
      /\ p \in PathsOf(src.doc, p[1])
    BY <1>1 DEF FilesKnown, FileKnown
<1>3. Sound(src)
    BY <1>2 DEF SoundSources
<1>4. CompilesTo(s, src, tables) /\ s.env = p[1][1]
    BY <1>2, ScopeCompiles
<1>5. LateErrors(s) = {}
    <2>1. Fails(r, p[1]) = LateOf(src.doc, tables, p[1])
        BY <1>2, OutcomeIs
    <2> QED  BY <1>1, <1>2, <2>1 DEF LateOf
<1>6. Text(p) = FileOf(s, tables, p)
    <2>1. p \in UNION {PathsOf(src.doc, d) : d \in AllDirs}
        BY <1>2
    <2> QED  BY <1>1, <1>2, <2>1, OutcomeIs DEF Text
<1>7. Text(p) = [claims |-> claims, refsLand |-> refs, oneSource |-> keys]
    BY <1>1, <1>6 DEF FileOf, EnvFile, FileIn
<1>8. Emitted(s, src, tables)
    BY <1>4, <1>5 DEF Emitted
<1>9. s.foundation = _env_foundation(src.doc, p[1][1]) /\ s.foundation \in {"fixed", "elastic"}
    BY <1>4, ScopeIs, FoundationType
<1> HIDE DEF s, tables, src, r
<1>10. p[2] = "main.tf" <=> s.foundation = "elastic"
    BY <1>1, <1>2, <1>9, MainFileFits
<1>11. refs
    BY <1>3, <1>8, <1>10, RefsHold
<1>12. keys
    BY <1>3, <1>8, KeysHold
<1> HIDE DEF refs, keys, claims
<1>13. Text(p).refsLand = refs /\ Text(p).oneSource = keys
    BY <1>7
<1> QED  BY <1>11, <1>12, <1>13

\* The inductive invariant of the compiler, from the start: a main file of the
\* tree is what the compile of its directory makes of a revision that passed
\* every phase there; a run under way has written the directories before the one
\* it is at, and touched nothing else of its own; the verdict of the last
\* compile still fits the tree.
THEOREM CompileHolds ==
    ASSUME SoundSources
    PROVE  Spec => [](CompileInv /\ VerdictIsTrue)
<1>1. Init => CompileInv /\ VerdictIsTrue
    BY InitCompile
<1>2. CompileInv /\ VerdictIsTrue /\ [Next]_vars => CompileInv' /\ VerdictIsTrue'
    BY CompileStep
<1> QED  BY <1>1, <1>2, PTL DEF Spec

\* The exit code of a compile is right about the output, for every project whose
\* sources are sound and every order of edits, compiles and slot compiles: after
\* success every file is of the revision that was read, a refusal changes
\* nothing, and what passed the validation fails in compile_env only in the ways
\* foreseen.
THEOREM VerdictHolds ==
    ASSUME SoundSources
    PROVE  Spec => []VerdictIsTrue
BY CompileHolds, PTL

\* Every runtime key that a container of an env is handed is in exactly one
\* category of classify_source_keys and in a store that some command fills, and
\* no variable of a service is set from two of: its author, its secrets, its
\* config, the doctrine, the schedules.
THEOREM OneSourcePerKey ==
    ASSUME SoundSources
    PROVE  Spec => []KeysHaveOneSource
<1>1. CompileInv => KeysHaveOneSource
    BY FilesSay DEF CompileInv, KeysHaveOneSource
<1> QED  BY <1>1, CompileHolds, PTL

\* Every host that resolve_in_string hands to a container of an env is real: in
\* a compose file a container of the service meant, on a network both are on, and
\* in a main.tf a name that Service Connect knows or the attribute of a resource
\* which the same file declares.
THEOREM ReferencesLand ==
    ASSUME SoundSources
    PROVE  Spec => []RefsLand
<1>1. CompileInv => RefsLand
    BY FilesSay DEF CompileInv, RefsLand
<1> QED  BY <1>1, CompileHolds, PTL

-----------------------------------------------------------------------------
\* The rounded CPU is a size, and enough.
LEMMA RoundCpuIsEnough ==
    ASSUME NEW units \in Nat
    PROVE  RoundCpu(units) \in Cpus /\ (units <= 16384 => units <= RoundCpu(units))
BY DEF RoundCpu, Cpus

\* It is the least.
LEMMA RoundCpuIsLeast ==
    ASSUME NEW units \in Nat, NEW c \in Cpus, units <= c \/ c = 16384
    PROVE  RoundCpu(units) <= c
BY DEF RoundCpu, Cpus

\* The CPU that a memory asks for is a size whose memory is enough.
LEMMA CpuForIsEnough ==
    ASSUME NEW cpu \in Cpus, NEW m \in Nat, m <= 122880
    PROVE  CpuFor(cpu, m) \in Cpus /\ cpu <= CpuFor(cpu, m) /\ m <= Ceiling(CpuFor(cpu, m))
BY DEF CpuFor, Ceiling, Cpus

\* It is the least.
LEMMA CpuForIsLeast ==
    ASSUME NEW cpu \in Cpus, NEW m \in Nat, NEW c \in Cpus, cpu <= c, m <= Ceiling(c)
    PROVE  CpuFor(cpu, m) <= c
BY DEF CpuFor, Ceiling, Cpus

\* FitMemory is the least memory of a CPU that is enough.
LEMMA FitIsLeast ==
    ASSUME NEW cpu \in Cpus, NEW m \in Nat, m <= Ceiling(cpu)
    PROVE  /\ FitMemory(cpu, m) \in Nat
           /\ IsMemory(cpu, FitMemory(cpu, m)) /\ m <= FitMemory(cpu, m)
           /\ \A k \in Nat : IsMemory(cpu, k) /\ m <= k => FitMemory(cpu, m) <= k
<1>1. CASE cpu = 256
    BY <1>1 DEF FitMemory, IsMemory, Ceiling, Floor
<1>2. CASE cpu \in {512, 1024, 2048, 4096}
    BY <1>2 DEF FitMemory, IsMemory, Ceiling, Floor, Step
<1>3. CASE cpu = 8192
    BY <1>3 DEF FitMemory, IsMemory, Ceiling, Floor, Step
<1>4. CASE cpu = 16384
    BY <1>4 DEF FitMemory, IsMemory, Ceiling, Floor, Step
<1> QED  BY <1>1, <1>2, <1>3, <1>4 DEF Cpus

\* A memory size lies under its ceiling.
LEMMA MemoryWithinCeiling ==
    ASSUME NEW cpu \in Cpus, NEW k \in Nat, IsMemory(cpu, k)
    PROVE  k <= Ceiling(cpu) /\ Ceiling(cpu) <= 122880
BY DEF IsMemory, Ceiling, Floor, Cpus

\* fargate_pair_from_units finds a pair that AWS sells and that is enough, as
\* long as there is one; more CPU than the most is taken for the most.
THEOREM PairIsEnough ==
    ASSUME NEW units \in Nat, NEW m \in Nat, m <= 122880
    PROVE  LET pair == fargate_pair_from_units(units, m)
           IN  IsTier(pair) /\ m <= pair[2] /\ (units <= 16384 => units <= pair[1])
<1> DEFINE least == RoundCpu(units)
           cpu == CpuFor(least, m)
<1>1. least \in Cpus /\ (units <= 16384 => units <= least)  BY RoundCpuIsEnough
<1>2. cpu \in Cpus /\ least <= cpu /\ m <= Ceiling(cpu)  BY <1>1, CpuForIsEnough
<1>3. IsMemory(cpu, FitMemory(cpu, m)) /\ m <= FitMemory(cpu, m)  BY <1>2, FitIsLeast
<1>4. fargate_pair_from_units(units, m) = <<cpu, FitMemory(cpu, m)>>
    BY DEF fargate_pair_from_units
<1>5. units <= 16384 => units <= cpu
    BY <1>1, <1>2 DEF Cpus
<1> QED  BY <1>2, <1>3, <1>4, <1>5 DEF IsTier

\* It refuses exactly what no pair has the memory for.
THEOREM RefusedOnlyAbove ==
    ASSUME NEW units \in Nat, NEW m \in Nat
    PROVE  fargate_pair_from_units(units, m) = NoPair <=> m > 122880
<1>1. CASE m > 122880  BY <1>1 DEF fargate_pair_from_units
<1>2. CASE m <= 122880
    <2>1. fargate_pair_from_units(units, m)[1] \in Cpus  BY <1>2, PairIsEnough DEF IsTier
    <2> QED  BY <1>2, <2>1 DEF Cpus, NoPair
<1> QED  BY <1>1, <1>2

\* No pair that is enough has less CPU, and none of its CPU has less memory.
THEOREM PairIsLeast ==
    ASSUME NEW units \in Nat, NEW m \in Nat, NEW c \in Cpus, NEW k \in Nat,
           IsMemory(c, k), m <= k, units <= c \/ c = 16384
    PROVE  LET pair == fargate_pair_from_units(units, m)
           IN  pair[1] <= c /\ (pair[1] = c => pair[2] <= k)
<1> DEFINE least == RoundCpu(units)
           cpu == CpuFor(least, m)
<1>1. least \in Cpus /\ least <= c  BY RoundCpuIsEnough, RoundCpuIsLeast
<1>2. k <= Ceiling(c) /\ Ceiling(c) <= 122880 /\ Ceiling(c) \in Nat
    BY MemoryWithinCeiling DEF Ceiling
<1>3. m <= Ceiling(c) /\ m <= 122880  BY <1>2
<1>4. cpu <= c  BY <1>1, <1>3, CpuForIsLeast
<1>5. cpu \in Cpus /\ m <= Ceiling(cpu)  BY <1>1, <1>3, CpuForIsEnough
<1>6. cpu = c => FitMemory(cpu, m) <= k  BY <1>5, FitIsLeast
<1>7. fargate_pair_from_units(units, m) = <<cpu, FitMemory(cpu, m)>>
    BY <1>3 DEF fargate_pair_from_units
<1> QED  BY <1>4, <1>6, <1>7

-----------------------------------------------------------------------------
\* Two tiers need not have a largest CPU and a largest memory that go together.
THEOREM LargestIsNoTier ==
    IsTier(<<4096, 17408>>) /\ IsTier(<<8192, 16384>>) /\ ~IsTier(<<8192, 17408>>)
BY DEF IsTier, IsMemory, Cpus, Floor, Ceiling, Step

\* The size of a migration task is a tier all the same, and covers every service
\* of its codebase.
THEOREM MigrationCovers ==
    ASSUME NEW c \in Cpus, NEW k \in Nat, IsMemory(c, k),
           NEW d \in Cpus, NEW l \in Nat, IsMemory(d, l)
    PROVE  LET pair == MigrationPair(<<c, k>>, <<d, l>>)
           IN  IsTier(pair) /\ c <= pair[1] /\ d <= pair[1] /\ k <= pair[2] /\ l <= pair[2]
<1> DEFINE units == IF c >= d THEN c ELSE d
           m == IF k >= l THEN k ELSE l
<1>1. k <= 122880 /\ l <= 122880
    BY MemoryWithinCeiling DEF Ceiling, Cpus
<1>2. units \in Nat /\ units <= 16384 /\ m \in Nat /\ m <= 122880
    BY <1>1 DEF Cpus
<1>3. MigrationPair(<<c, k>>, <<d, l>>) = fargate_pair_from_units(units, m)
    BY DEF MigrationPair
<1> HIDE DEF units, m
<1>4. LET pair == fargate_pair_from_units(units, m)
      IN  IsTier(pair) /\ m <= pair[2] /\ units <= pair[1]
    BY <1>2, PairIsEnough
<1>5. fargate_pair_from_units(units, m)[1] \in Nat /\ fargate_pair_from_units(units, m)[2] \in Nat
    BY <1>4 DEF IsTier, IsMemory, Cpus, Floor, Ceiling
<1>6. c <= units /\ d <= units /\ k <= m /\ l <= m
    BY DEF units, m, Cpus
<1> QED  BY <1>2, <1>3, <1>4, <1>5, <1>6 DEF Cpus

-----------------------------------------------------------------------------
\* The units of a service and its sidecar hold both.
LEMMA CpuUnitsGrow ==
    ASSUME NEW cpu \in Nat, cpu > 0
    PROVE  /\ CpuUnits(cpu) \in Nat /\ CpuUnits(cpu + SIDECAR_CPU) \in Nat
           /\ CpuUnits(cpu) + SIDECAR_CPU_UNITS <= CpuUnits(cpu + SIDECAR_CPU)
BY DEF CpuUnits, Rounded, AtLeastOne, SIDECAR_CPU, SIDECAR_CPU_UNITS

\* A memory in MiB is a natural number.
LEMMA MemoryIsNat ==
    ASSUME NEW mb \in Nat
    PROVE  MemoryMib(mb) \in Nat
BY DEF MemoryMib, Rounded, WholeMib, PartMib

\* The task of a core service has room for what it asked for and for the
\* collector beside it, unless it asks for more CPU than there is.
THEOREM TaskHoldsBoth ==
    ASSUME NEW cpu \in Nat, cpu > 0, NEW mb \in Nat,
           ElasticPair(cpu, mb, TRUE) # NoPair, CpuUnits(cpu + SIDECAR_CPU) <= 16384
    PROVE  /\ CpuUnits(cpu) + SIDECAR_CPU_UNITS <= ElasticPair(cpu, mb, TRUE)[1]
           /\ MemoryMib(mb) + SIDECAR_MIB <= ElasticPair(cpu, mb, TRUE)[2]
<1> DEFINE units == CpuUnits(cpu + SIDECAR_CPU)
           m == MemoryMib(mb) + SIDECAR_MIB
<1>1. units \in Nat /\ CpuUnits(cpu) \in Nat /\ CpuUnits(cpu) + SIDECAR_CPU_UNITS <= units
    BY CpuUnitsGrow
<1>2. m \in Nat  BY MemoryIsNat DEF SIDECAR_MIB
<1> DEFINE pair == fargate_pair_from_units(units, m)
<1>3. ElasticPair(cpu, mb, TRUE) = pair /\ pair # NoPair
    BY DEF ElasticPair
<1>4. m <= 122880
    <2> HIDE DEF units, m
    <2> QED  BY <1>1, <1>2, <1>3, RefusedOnlyAbove
<1>5. IsTier(pair) /\ m <= pair[2] /\ units <= pair[1]
    <2>1. units <= 16384  OBVIOUS
    <2> HIDE DEF units, m
    <2> QED  BY <1>1, <1>2, <1>4, <2>1, PairIsEnough
<1>6. CpuUnits(cpu) + SIDECAR_CPU_UNITS <= pair[1]
    <2> HIDE DEF units, pair
    <2> QED  BY <1>1, <1>5 DEF IsTier, Cpus, SIDECAR_CPU_UNITS
<1>7. MemoryMib(mb) + SIDECAR_MIB <= pair[2]
    <2> HIDE DEF pair
    <2> QED  BY <1>5
<1> QED  BY <1>6, <1>7 DEF ElasticPair
=============================================================================
