------------------------------- MODULE DevHost -------------------------------
(***************************************************************************)
(* One project checkout on a developer's machine: the three files of       *)
(* configurable values (minted credentials, secrets, config), the          *)
(* aggregate that compose reads, the dev stack with the data volumes of    *)
(* its engines, and a codebase's `dist/`; and the commands that share      *)
(* them: `envinfra up|down dev`, `build`, `migrate dev`, and `scaffold`,   *)
(* `set` and `copy` of secrets and config.                                 *)
(*                                                                         *)
(* No command takes a lock.  A file is written by truncating it and then   *)
(* writing all of it (Path.write_text), so one step is one read, one       *)
(* truncation, one write, or one call of docker.  Names, comments and      *)
(* formatting of the files are left out; a value is a number, so that two  *)
(* values are the same only if one was copied from the other.              *)
(***************************************************************************)
EXTENDS Naturals, FiniteSets

CONSTANTS
    Commands,      \* the terminals commands are run from
    Keys,          \* source keys
    Documents,     \* what infra.yml may declare: functions from Keys to categories
    SchemaKeys,    \* keys of the engines whose schema a codebase owns
    MaxValues,     \* bound: values minted or typed
    MaxStarts,     \* bound: commands started
    MaxFaults,     \* bound: kills and failures of docker or of a script
    MaxEdits       \* bound: edits of infra.yml

Categories == {"tte", "secret", "config"}
Values == 1..MaxValues
Absent == 0            \* the file has no line for the key
Blank == MaxValues + 1 \* `KEY=`: declared by scaffold, not set
Contents == [Keys -> Values \cup {Absent, Blank}]
Empty == [k \in Keys |-> Absent]

ASSUME DocumentsAssumption ==
    /\ Documents \subseteq [Keys -> Categories \cup {"none"}]
    /\ Keys # {} /\ SchemaKeys \subseteq Keys
ASSUME BoundsAssumption == {MaxValues, MaxStarts, MaxFaults, MaxEdits} \subseteq Nat

VARIABLES
    infra,    \* infra.yml: key -> its category (rule 20: one) or "none"
    output,   \* the document the compose file was last compiled from
    file,     \* category -> the contents of its dev.env
    agg,      \* contents of .docex/agg/dev.env
    volume,   \* key -> the credential its engine's data volume was made with
    stack,    \* "down", "half" (bring-up failed) or "up"
    loaded,   \* the environment the stack's containers were started with
    dist,     \* the codebase's dist/: "empty", "part" or "full"
    proc,     \* command -> where it is and what it has read
    given,    \* history: category -> key -> value an operator gave it, or Absent
    damaged,  \* history: files, or "dist", left to chance by a race or a kill
    count     \* values, starts, faults and edits so far

files == <<infra, output, file, agg>>
host == <<volume, stack, loaded, dist>>
vars == <<infra, output, file, agg, volume, stack, loaded, dist, proc, given, damaged, count>>

Bringers == {"up", "build", "migrate"}   \* the commands that aggregate

Idle == [cmd |-> "none", pc |-> "idle", cat |-> "tte", key |-> CHOOSE k \in Keys : TRUE,
         doc |-> CHOOSE d \in Documents : TRUE, next |-> Empty]

Init ==
    /\ infra \in Documents
    /\ output = infra
    /\ file = [c \in Categories |-> Empty]
    /\ agg = Empty
    /\ volume = Empty
    /\ stack = "down"
    /\ loaded = Empty
    /\ dist = "empty"
    /\ proc = [c \in Commands |-> Idle]
    /\ given = [c \in Categories |-> Empty]
    /\ damaged = {}
    /\ count = [values |-> 0, starts |-> 0, faults |-> 0, edits |-> 0]

Minted(doc) == {k \in Keys : doc[k] = "tte"}
At(c, pc) == proc[c].pc = pc
Goto(c, pc) == proc' = [proc EXCEPT ![c].pc = pc]
Ends(c) == proc' = [proc EXCEPT ![c] = Idle]
Counted(field) == count' = [count EXCEPT ![field] = @ + 1]

\* A value no one has used: what generate(policy) returns, or what is typed.
Fresh == count.values + 1

-----------------------------------------------------------------------------
(* Starting a command: the context is loaded once, and every command on the *)
(* stack compiles first.                                                    *)

\* A bring-up under way would run the newly compiled stack on the environment
\* it aggregated for the old one.
Undercut(c) ==
    {x \in {"tte"} : \E d \in Commands \ {c} : proc[d].cmd \in Bringers /\ proc[d].doc # infra}

StartStackCommand(c, cmd) ==
    /\ At(c, "idle") /\ count.starts < MaxStarts
    /\ proc' = [proc EXCEPT ![c] = [Idle EXCEPT !.cmd = cmd, !.doc = infra,
                                    !.pc = IF cmd = "down" THEN "down" ELSE "read"]]
    /\ output' = infra
    /\ damaged' = damaged \cup Undercut(c)
    /\ Counted("starts")
    /\ UNCHANGED <<infra, file, agg, host, given>>

\* Which keys scaffold, set and copy accept.  copy asks only that the key is
\* not minted; the value it copies is another env's, whose file has the key if
\* it ever was of that category.
Accepts(cmd, cat, k) ==
    CASE cmd = "scaffold" -> k = Idle.key   \* it takes none
      [] cmd = "set"  -> infra[k] = cat
      [] cmd = "copy" -> infra[k] # "tte" /\ \E doc \in Documents : doc[k] = cat

StartFileCommand(c, cmd, cat, k) ==
    /\ At(c, "idle") /\ count.starts < MaxStarts
    /\ cmd # "scaffold" => count.values < MaxValues
    /\ Accepts(cmd, cat, k)
    /\ proc' = [proc EXCEPT ![c] = [Idle EXCEPT !.cmd = cmd, !.cat = cat, !.key = k,
                                    !.doc = infra, !.pc = "read"]]
    /\ Counted("starts")
    /\ UNCHANGED <<files, host, given, damaged>>

-----------------------------------------------------------------------------
(* Read, change, rewrite: ensure_tte, scaffold, set_env_key.                *)

\* d is between its read of a file it is going to rewrite and that write.
Rewriting(d, cat) == proc[d].cat = cat /\ proc[d].pc \in {"trunc", "write"}
Races(c, cat) == {x \in {cat} : \E d \in Commands \ {c} : Rewriting(d, cat)}

MintAnew(doc, old) ==   \* mutant: generate, whether or not the store has a value
    [k \in Keys |-> IF doc[k] = "tte" THEN Fresh ELSE old[k]]

MintDeclaredOnly(doc, old) ==   \* mutant: the store is rewritten from the policies
    [k \in Keys |-> IF doc[k] # "tte" THEN Absent ELSE IF old[k] = Absent THEN Fresh ELSE old[k]]

\* ensure_tte: what is there is kept, what is declared and missing is minted.
Mint(doc, old) == [k \in Keys |-> IF doc[k] = "tte" /\ old[k] = Absent THEN Fresh ELSE old[k]]

ReconcileResets(doc, cat, old) ==   \* mutant: existing values are not carried over
    [k \in Keys |-> IF doc[k] # cat THEN Absent ELSE Blank]

\* scaffold: missing keys are added blank, stale ones dropped, values preserved.
Reconcile(doc, cat, old) ==
    [k \in Keys |-> IF doc[k] # cat THEN Absent ELSE IF old[k] = Absent THEN Blank ELSE old[k]]

ReadStore(c) ==
    /\ At(c, "read") /\ proc[c].cmd \in Bringers
    /\ LET old == file["tte"]
           new == Mint(proc[c].doc, old)
       IN /\ new # old => count.values < MaxValues
          /\ proc' = [proc EXCEPT ![c].next = new,
                                  ![c].pc = IF new = old THEN "aggregate" ELSE "trunc"]
          /\ count' = [count EXCEPT !.values = IF new = old THEN @ ELSE @ + 1]
    /\ damaged' = damaged \cup Races(c, "tte")
    /\ UNCHANGED <<files, host, given>>

ReadForEdit(c) ==
    /\ At(c, "read") /\ proc[c].cmd \notin Bringers
    /\ LET p == proc[c]
           old == file[p.cat]
       IN IF p.cmd = "scaffold"
          THEN /\ proc' = [proc EXCEPT ![c].pc = "trunc", ![c].next = Reconcile(p.doc, p.cat, old)]
               /\ UNCHANGED count
          ELSE /\ count.values < MaxValues
               /\ proc' = [proc EXCEPT ![c].pc = "trunc", ![c].next = [old EXCEPT ![p.key] = Fresh]]
               /\ Counted("values")
    /\ damaged' = damaged \cup Races(c, proc[c].cat)
    /\ UNCHANGED <<files, host, given>>

Truncate(c) ==
    /\ At(c, "trunc")
    /\ file' = [file EXCEPT ![proc[c].cat] = Empty]
    /\ Goto(c, "write")
    /\ UNCHANGED <<infra, output, agg, host, given, damaged, count>>

\* The operator has been told of the value: set and copy print it.
Acknowledged(p) ==
    CASE p.cmd \in {"set", "copy"} -> [given EXCEPT ![p.cat][p.key] = p.next[p.key]]
      [] p.cmd = "scaffold" ->
            [given EXCEPT ![p.cat] = [k \in Keys |-> IF p.doc[k] = p.cat THEN @[k] ELSE Absent]]
      [] OTHER -> given

Write(c) ==
    /\ At(c, "write")
    /\ LET p == proc[c]
       IN /\ file' = [file EXCEPT ![p.cat] = p.next]
          /\ given' = Acknowledged(p)
          /\ IF p.cmd \in Bringers THEN Goto(c, "aggregate") ELSE Ends(c)
    /\ UNCHANGED <<infra, output, agg, host, damaged, count>>

-----------------------------------------------------------------------------
(* aggregate: TTE, secrets and config, refused when they share a key.       *)

Sources(p) ==
    <<[k \in Keys |-> IF p.doc[k] = "tte" THEN p.next[k] ELSE Absent], file["secret"], file["config"]>>

Collides(s) == \E k \in Keys : \E i, j \in 1..3 : i # j /\ s[i][k] # Absent /\ s[j][k] # Absent

Union(s) ==
    [k \in Keys |-> IF s[1][k] # Absent THEN s[1][k] ELSE IF s[2][k] # Absent THEN s[2][k] ELSE s[3][k]]

\* The two operator files are read one after the other; one step, since no
\* property tells their order apart.
Merge(c) ==
    /\ At(c, "aggregate")
    /\ IF Collides(Sources(proc[c]))
       THEN /\ Ends(c)
            /\ UNCHANGED agg
       ELSE /\ proc' = [proc EXCEPT ![c].next = Union(Sources(proc[c])), ![c].pc = "publish"]
            /\ agg' = Empty
    /\ UNCHANGED <<infra, output, file, host, given, damaged, count>>

AfterAggregateUnbuilt(p) ==   \* mutant: up goes on without the initial build
    CASE p.cmd = "up"    -> "compose"
      [] p.cmd = "build" -> "ps"
      [] OTHER           -> "migrate"

AfterAggregate(p) ==
    CASE p.cmd = "up"    -> "initial"
      [] p.cmd = "build" -> "ps"
      [] OTHER           -> "migrate"

Publish(c) ==
    /\ At(c, "publish")
    /\ agg' = proc[c].next
    /\ proc' = [proc EXCEPT ![c].next = Empty, ![c].pc = AfterAggregate(proc[c])]
    /\ UNCHANGED <<infra, output, file, host, given, damaged, count>>

-----------------------------------------------------------------------------
(* up: the initial build, compose up, migrations.                           *)

\* A dist/ that holds anything is respected; an empty one is filled from a
\* throwaway image, by a copy that is not atomic.  Where there is no Dockerfile
\* none is made, and compose, which builds by it too, fails.
BeginInitialBuild(c) ==
    /\ At(c, "initial")
    /\ \/ dist # "empty" /\ Goto(c, "compose") /\ UNCHANGED dist
       \/ dist = "empty" /\ Goto(c, "copy") /\ dist' = "part"
       \/ dist = "empty" /\ Ends(c) /\ UNCHANGED dist
    /\ UNCHANGED <<files, volume, stack, loaded, given, damaged, count>>

FinishInitialBuild(c) ==
    /\ At(c, "copy")
    /\ dist' = "full"
    /\ Goto(c, "compose")
    /\ UNCHANGED <<files, volume, stack, loaded, given, damaged, count>>

\* An engine makes its data volume with the credential it is first started
\* with, and keeps that credential whatever it is started with later.
Started(doc, env) ==
    [k \in Keys |-> IF doc[k] = "tte" /\ volume[k] = Absent THEN env[k] ELSE volume[k]]

\* Without a credential an engine does not become healthy, and what depends
\* on it is not started.
Startable(doc, env) == \A k \in Minted(doc) : volume[k] # Absent \/ env[k] # Absent

ComposeUp(c) ==
    /\ At(c, "compose")
    /\ loaded' = agg
    /\ volume' = Started(output, agg)
    /\ IF Startable(output, agg)
       THEN Goto(c, "migrate") /\ stack' = "up"
       ELSE Ends(c) /\ stack' = "half"
    /\ UNCHANGED <<files, dist, given, damaged, count>>

\* migrate.sh logs in with the aggregate's credential; compose run starts the
\* engines it depends on.  What it exits with is the command's exit code.
Migrate(c) ==
    /\ At(c, "migrate")
    /\ volume' = Started(output, agg)
    /\ Ends(c)
    /\ UNCHANGED <<files, stack, loaded, dist, given, damaged, count>>

-----------------------------------------------------------------------------
(* build and down.                                                          *)

CheckRunning(c) ==
    /\ At(c, "ps")
    /\ IF stack = "down" THEN Ends(c) ELSE Goto(c, "clear")
    /\ UNCHANGED <<files, host, given, damaged, count>>

\* The container clears dist/ and runs build.sh; an up that has already looked
\* at dist/ starts its containers on whatever is there.
Clear(c) ==
    /\ At(c, "clear")
    /\ dist' = "empty"
    /\ damaged' = damaged \cup {x \in {"dist"} : \E d \in Commands \ {c} : proc[d].pc \in {"copy", "compose", "fill"}}
    /\ Goto(c, "fill")
    /\ UNCHANGED <<files, volume, stack, loaded, given, count>>

Fill(c) ==
    /\ At(c, "fill")
    /\ dist' = "full"
    /\ Ends(c)
    /\ UNCHANGED <<files, volume, stack, loaded, given, damaged, count>>

\* Volumes are preserved.
Down(c) ==
    /\ At(c, "down")
    /\ stack' = "down"
    /\ loaded' = Empty
    /\ Ends(c)
    /\ UNCHANGED <<files, volume, dist, given, damaged, count>>

-----------------------------------------------------------------------------
(* Faults and edits.                                                        *)

\* What is left to chance when c stops where it is.
LeftBy(c) ==
    CASE At(c, "write")             -> {proc[c].cat}
      [] proc[c].pc \in {"copy", "fill"} -> {"dist"}
      [] OTHER                      -> {}

Kill(c) ==
    /\ ~At(c, "idle") /\ count.faults < MaxFaults
    /\ Ends(c)
    /\ damaged' = damaged \cup LeftBy(c)
    /\ Counted("faults")
    /\ UNCHANGED <<files, host, given>>

\* A docker call, build.sh or migrate.sh fails: the command says so and stops.
\* build.sh may have written some of dist/ or none of it.
Fail(c) ==
    /\ proc[c].pc \in {"initial", "copy", "compose", "migrate", "fill", "down"}
    /\ count.faults < MaxFaults
    /\ Ends(c)
    /\ dist' \in IF At(c, "fill") THEN {"empty", "part"} ELSE {dist}
    /\ stack' = IF At(c, "compose") THEN "half" ELSE stack
    /\ volume' \in IF At(c, "compose") THEN {volume, Started(output, agg)} ELSE {volume}
    /\ damaged' = damaged \cup LeftBy(c)
    /\ Counted("faults")
    /\ UNCHANGED <<files, loaded, given>>

\* The developer declares, moves or removes keys.
Edit(doc) ==
    /\ doc # infra /\ count.edits < MaxEdits
    /\ infra' = doc
    /\ Counted("edits")
    /\ UNCHANGED <<output, file, agg, host, proc, given, damaged>>

-----------------------------------------------------------------------------
Step(c) ==
    \/ ReadStore(c) \/ ReadForEdit(c) \/ Truncate(c) \/ Write(c)
    \/ Merge(c) \/ Publish(c)
    \/ BeginInitialBuild(c) \/ FinishInitialBuild(c) \/ ComposeUp(c) \/ Migrate(c)
    \/ CheckRunning(c) \/ Clear(c) \/ Fill(c) \/ Down(c)

Next ==
    \/ \E c \in Commands :
        \/ \E cmd \in Bringers \cup {"down"} : StartStackCommand(c, cmd)
        \/ \E cmd \in {"scaffold", "set", "copy"}, cat \in {"secret", "config"}, k \in Keys :
                StartFileCommand(c, cmd, cat, k)
        \/ Step(c)
        \/ Kill(c)
        \/ Fail(c)
    \/ \E doc \in Documents : Edit(doc)

Spec == Init /\ [][Next]_vars

-----------------------------------------------------------------------------
Phases == {"idle", "read", "trunc", "write", "aggregate", "publish", "initial", "copy",
           "compose", "migrate", "ps", "clear", "fill", "down"}

\* Types.  The files and volumes hold values, a line without one, or no line.
TypeOK ==
    /\ infra \in Documents /\ output \in Documents
    /\ file \in [Categories -> Contents] /\ given \in [Categories -> Contents]
    /\ {agg, volume, loaded} \subseteq Contents
    /\ stack \in {"down", "half", "up"} /\ dist \in {"empty", "part", "full"}
    /\ proc \in [Commands -> [cmd : Bringers \cup {"down", "scaffold", "set", "copy", "none"},
                              pc : Phases, cat : Categories, key : Keys, doc : Documents,
                              next : Contents]]
    /\ damaged \subseteq Categories \cup {"dist"}
    /\ count \in [{"values", "starts", "faults", "edits"} -> Nat]

\* The store is authoritative (aggregate.py:71): as long as no two commands
\* rewrite it at once and none is killed between truncating and writing it, the
\* credential that a data volume was made with stays in the store, through
\* downs, failed bring-ups, and engines removed from infra.yml and put back.
CredentialSurvives ==
    "tte" \notin damaged =>
        \A k \in Keys : volume[k] \in Values =>
            \/ file["tte"][k] = volume[k]
            \/ \E c \in Commands : At(c, "write") /\ proc[c].cat = "tte" /\ proc[c].next[k] = volume[k]

\* So no migration is refused its login, but on an aggregate that another
\* command has truncated (aggregate.py:95, migrate.py:94).
NeverLockedOut ==
    [][\A c \in Commands :
        Migrate(c) /\ "tte" \notin damaged /\ agg # Empty =>
            \A k \in SchemaKeys \cap Minted(output) : agg[k] = volume'[k]]_vars

\* A value that set or copy has acknowledged is in its file until the key is
\* set again or scaffold finds it undeclared, unless the file was damaged
\* (engine.py:106, envfile.py:60).
GivenValueKept ==
    \A cat \in {"secret", "config"} \ damaged, k \in Keys : given[cat][k] # Absent =>
        \/ file[cat][k] = given[cat][k]
        \/ \E c \in Commands : At(c, "write") /\ proc[c].cat = cat
                               /\ \/ proc[c].next[k] = given[cat][k]
                                  \/ proc[c].cmd # "scaffold" /\ proc[c].key = k
                                  \/ proc[c].cmd = "scaffold" /\ proc[c].doc[k] # cat

\* A bring-up never starts a dev container on an incomplete dist/, unless a
\* build or the initial copy was broken off or ran beside it (up.py:31): the
\* bind mount shadows what the image holds.
DevServesArtifacts ==
    [][\A c \in Commands : ComposeUp(c) /\ "dist" \notin damaged =>
            \/ dist = "full"
            \/ \E d \in Commands \ {c} : proc[d].pc \in {"copy", "fill"}]_vars
=============================================================================
