------------------------------- MODULE Names --------------------------------
\* How an authored name becomes the identity of a container, a task family, a
\* host (src/docex/naming.py and the naming part of cicl/compile.py). A name is
\* a sequence of tokens, its separators among them: <<"api", "-", "web">>.
EXTENDS Naturals, Sequences, Functions, TLC

CONSTANTS
    Project,        \* the name in project.yml, a sequence of tokens
    ApexDomain,     \* the labels of a bare apex domain
    Chars           \* the length of each token that occurs, in characters

ASSUME CharsAssumption == \A t \in DOMAIN Chars : Chars[t] \in Nat \ {0}
ASSUME ProjectAssumption == Project \in Seq(STRING) /\ ApexDomain \in Seq(STRING)

\* The same function, as a table that is made once.
Tabled(f) == CHOOSE table \in {f} : table = f

Length(n) == SumFunction([i \in DOMAIN n |-> Chars[n[i]]])

\* The tokens written in capitals that occur, and what lower() makes of them.
LowerOf == [t \in {"API"} |-> "api"]

Lower(n) == [i \in DOMAIN n |-> IF n[i] \in DOMAIN LowerOf THEN LowerOf[n[i]] ELSE n[i]]
Hyphens(n) == [i \in DOMAIN n |-> IF n[i] = "_" THEN "-" ELSE n[i]]
Underscores(n) == [i \in DOMAIN n |-> IF n[i] = "-" THEN "_" ELSE n[i]]

dns_label(n) == Lower(Hyphens(n))

\* A name that does not fit.
TooLong == <<"!">>

\* The policies that name what the emitters write (naming_policies.yml).
Policies ==
    [rds       |-> [separator |-> "hyphen", case |-> "lower", max_len |-> 63, overflow |-> "error"],
     docker    |-> [separator |-> "hyphen", case |-> "any", max_len |-> 0, overflow |-> "error"],
     ecs       |-> [separator |-> "hyphen", case |-> "any", max_len |-> 255, overflow |-> "error"],
     s3        |-> [separator |-> "hyphen", case |-> "lower", max_len |-> 63, overflow |-> "error"],
     alb       |-> [separator |-> "hyphen", case |-> "any", max_len |-> 32, overflow |-> "hash_truncate"],
     http_host |-> [separator |-> "hyphen", case |-> "lower", max_len |-> 63, overflow |-> "error"]]

\* The hash of a truncated name is taken for collision-free: six hex digits of
\* the whole internal name stand for that name.
apply_policy(n, policy) ==
    LET p == Policies[policy]
        separated == IF p.separator = "hyphen" THEN Hyphens(n) ELSE Underscores(n)
        out == IF p.case = "lower" THEN Lower(separated) ELSE separated
    IN  IF p.max_len = 0 \/ Length(out) <= p.max_len THEN out
        ELSE IF p.overflow = "hash_truncate" THEN <<"#">> \o n
        ELSE TooLong

\* A service as it is written in `uses`, and the key it is compiled under.
Compiled(cb, svc) == cb \o <<"-">> \o svc

SlotSegment(slot) == IF slot = 1 THEN <<>> ELSE <<"_", "s", ToString(slot)>>
ScopeName(env, slot) == Project \o <<"_", env>> \o SlotSegment(slot)

\* _global_service_name of a backing service or a codebase, and of a core service.
GlobalName(env, slot, name, policy) ==
    apply_policy(ScopeName(env, slot) \o <<"_">> \o name, policy)
GlobalServiceName(env, slot, cb, svc, policy) ==
    GlobalName(env, slot, cb \o <<"_">> \o svc, policy)
codebase_global_name(env, slot, cb, policy) == GlobalName(env, slot, cb, policy)

\* Where the env is served: `<env>.<project>.<apex>`, and the project's own.
Subdomain(env) == <<env, ".">> \o dns_label(Project) \o <<".">> \o ApexDomain
BareProject == dns_label(Project) \o <<".">> \o ApexDomain

\* The hosts of one service. The slot is not part of a host.
WebHosts(name, networks, default, env) ==
    LET own == apply_policy(name, "http_host") \o <<".">> \o Subdomain(env)
    IN  IF "web" \notin networks THEN {}
        ELSE {own} \cup (IF name # default THEN {}
                         ELSE {Subdomain(env)} \cup (IF env = "prod" THEN {BareProject} ELSE {}))

\* Two authored names that no policy keeps apart.
NormalizedIdentityExact(n) == n     \* mutant: compared as they are written
NormalizedIdentity(n) == dns_label(n)
=============================================================================
