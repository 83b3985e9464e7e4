---------------------------- MODULE DevHostProofs ----------------------------
(***************************************************************************)
(* Theorems about DevHost, for any number of terminals, keys, documents,   *)
(* commands, faults and edits: what the store and the data volumes hold    *)
(* agrees, so the engines can be logged in to.                             *)
(***************************************************************************)
EXTENDS DevHost, TLAPS

Procs == [cmd : Bringers \cup {"down", "scaffold", "set", "copy", "none"},
          pc : Phases, cat : Categories, key : Keys, doc : Documents, next : Contents]
Counts == [{"values", "starts", "faults", "edits"} -> Nat]

LEMMA IdleType ==
    ASSUME Documents # {}
    PROVE  /\ Idle \in Procs /\ Idle.cmd = "none" /\ Idle.pc = "idle" /\ Idle.cat = "tte"
           /\ Empty \in Contents
<1>1. (CHOOSE k \in Keys : TRUE) \in Keys
    BY DocumentsAssumption
<1>2. (CHOOSE d \in Documents : TRUE) \in Documents
    OBVIOUS
<1>3. Empty \in Contents
    BY DEF Empty, Contents
<1> QED  BY <1>1, <1>2, <1>3 DEF Idle, Procs, Phases, Categories

LEMMA TypeParts ==
    ASSUME TypeOK
    PROVE  /\ proc \in [Commands -> Procs] /\ count \in Counts
           /\ Idle \in Procs /\ Idle.cmd = "none" /\ Idle.pc = "idle" /\ Idle.cat = "tte"
           /\ Empty \in Contents
           /\ infra \in [Keys -> Categories \cup {"none"}]
           /\ output \in [Keys -> Categories \cup {"none"}]
           /\ \A c \in Commands : proc[c].doc \in [Keys -> Categories \cup {"none"}]
<1>1. proc \in [Commands -> Procs] /\ count \in Counts
    BY DEF TypeOK, Procs, Counts
<1>2. Documents # {}
    BY DEF TypeOK
<1> QED  BY <1>1, <1>2, IdleType, DocumentsAssumption DEF TypeOK, Procs

LEMMA TypeInit == Init => TypeOK
<1> SUFFICES ASSUME Init PROVE TypeOK  OBVIOUS
<1>1. Idle \in Procs /\ Empty \in Contents
    BY IdleType DEF Init
<1>2. proc \in [Commands -> Procs]
    BY <1>1 DEF Init
<1>3. count \in Counts
    BY DEF Init, Counts
<1> QED  BY <1>1, <1>2, <1>3 DEF Init, TypeOK, Procs, Counts

\* What is new to a store is one value, not yet used.
LEMMA MintType ==
    ASSUME NEW doc \in [Keys -> Categories \cup {"none"}], NEW old \in Contents, count \in Counts,
           Mint(doc, old) # old => count.values < MaxValues
    PROVE  /\ Mint(doc, old) \in Contents
           /\ \A k \in Keys : /\ old[k] # Absent => Mint(doc, old)[k] = old[k]
                              /\ doc[k] = "tte" => Mint(doc, old)[k] # Absent
<1>1. CASE Mint(doc, old) = old
    <2>1. \A k \in Keys : doc[k] = "tte" => old[k] # Absent
        <3> SUFFICES ASSUME NEW k \in Keys, doc[k] = "tte", old[k] = Absent PROVE FALSE
            OBVIOUS
        <3>1. Mint(doc, old)[k] = count.values + 1
            BY DEF Mint, Fresh
        <3> QED  BY <1>1, <3>1 DEF Absent, Counts
    <2> QED  BY <1>1, <2>1
<1>2. CASE Mint(doc, old) # old
    <2>1. count.values + 1 \in Values
        BY <1>2, BoundsAssumption DEF Counts, Values
    <2> QED  BY <2>1 DEF Mint, Fresh, Contents, Absent, Values, Counts
<1> QED  BY <1>1, <1>2

LEMMA ReconcileType ==
    ASSUME NEW doc, NEW cat, NEW old \in Contents
    PROVE  Reconcile(doc, cat, old) \in Contents
BY DEF Reconcile, Contents, Absent, Blank

LEMMA UnionType ==
    ASSUME NEW p \in Procs, TypeOK
    PROVE  /\ Union(Sources(p)) \in Contents
           /\ \A k \in Keys : p.doc[k] = "tte" /\ p.next[k] # Absent =>
                                  Union(Sources(p))[k] = p.next[k]
<1> DEFINE own == [k \in Keys |-> IF p.doc[k] = "tte" THEN p.next[k] ELSE Absent]
<1>1. own \in Contents /\ file["secret"] \in Contents /\ file["config"] \in Contents
    BY DEF TypeOK, Procs, Contents, Absent, Categories
<1>2. Sources(p)[1] = own /\ Sources(p)[2] = file["secret"] /\ Sources(p)[3] = file["config"]
    BY DEF Sources
<1> HIDE DEF own
<1>3. Union(Sources(p)) = [k \in Keys |-> IF own[k] # Absent THEN own[k]
                                         ELSE IF file["secret"][k] # Absent THEN file["secret"][k]
                                         ELSE file["config"][k]]
    BY <1>2 DEF Union
<1>4. \A k \in Keys : p.doc[k] = "tte" => own[k] = p.next[k]
    BY DEF own
<1> QED  BY <1>1, <1>3, <1>4 DEF Contents

LEMMA StartedType ==
    ASSUME TypeOK
    PROVE  Started(output, agg) \in Contents
BY DEF TypeOK, Started, Contents

\* What a step of one command leaves of the others.
Alone(c) == \A d \in Commands \ {c} : proc'[d] = proc[d]

LEMMA MoveType ==
    ASSUME TypeOK, NEW c \in Commands
    PROVE  /\ \A pc \in Phases : Goto(c, pc) =>
                  /\ proc' \in [Commands -> Procs] /\ Alone(c)
                  /\ proc'[c].pc = pc /\ proc'[c].cmd = proc[c].cmd /\ proc'[c].cat = proc[c].cat
                  /\ proc'[c].doc = proc[c].doc /\ proc'[c].next = proc[c].next
                  /\ proc'[c].key = proc[c].key
           /\ Ends(c) => proc' \in [Commands -> Procs] /\ Alone(c) /\ proc'[c] = Idle
<1>1. /\ proc \in [Commands -> Procs] /\ Idle \in Procs
    BY TypeParts
<1>2. ASSUME NEW pc \in Phases, Goto(c, pc)
      PROVE  /\ proc' \in [Commands -> Procs] /\ Alone(c)
             /\ proc'[c].pc = pc /\ proc'[c].cmd = proc[c].cmd /\ proc'[c].cat = proc[c].cat
             /\ proc'[c].doc = proc[c].doc /\ proc'[c].next = proc[c].next
             /\ proc'[c].key = proc[c].key
    <2>1. proc' = [proc EXCEPT ![c] = [proc[c] EXCEPT !.pc = pc]]
        BY <1>2 DEF Goto
    <2>2. [proc[c] EXCEPT !.pc = pc] \in Procs
        BY <1>1 DEF Procs
    <2> QED  BY <1>1, <2>1, <2>2 DEF Procs, Alone
<1>3. ASSUME Ends(c) PROVE proc' \in [Commands -> Procs] /\ Alone(c) /\ proc'[c] = Idle
    BY <1>1, <1>3 DEF Ends, Alone
<1> QED  BY <1>2, <1>3

LEMMA CountedType ==
    ASSUME TypeOK, NEW field \in {"values", "starts", "faults", "edits"}, Counted(field)
    PROVE  count' \in Counts
BY TypeParts DEF Counted, Counts

\* What each step does to its own command.
LEMMA ReadStoreMoves ==
    ASSUME TypeOK, NEW c \in Commands, ReadStore(c)
    PROVE  LET new == Mint(proc[c].doc, file["tte"])
           IN  /\ proc' \in [Commands -> Procs] /\ Alone(c) /\ count' \in Counts
               /\ new \in Contents
               /\ proc'[c].cmd = proc[c].cmd /\ proc'[c].cat = proc[c].cat
               /\ proc'[c].doc = proc[c].doc /\ proc'[c].next = new
               /\ proc'[c].pc = IF new = file["tte"] THEN "aggregate" ELSE "trunc"
               /\ \A k \in Keys : /\ file["tte"][k] # Absent => new[k] = file["tte"][k]
                                  /\ proc[c].doc[k] = "tte" => new[k] # Absent
<1> DEFINE new == Mint(proc[c].doc, file["tte"])
           pc == IF new = file["tte"] THEN "aggregate" ELSE "trunc"
<1>1. /\ new # file["tte"] => count.values < MaxValues
      /\ proc' = [proc EXCEPT ![c] = [proc[c] EXCEPT !.next = new, !.pc = pc]]
      /\ count' = [count EXCEPT !.values = IF new = file["tte"] THEN @ ELSE @ + 1]
    BY DEF ReadStore
<1>2. file["tte"] \in Contents
    BY DEF TypeOK, Categories
<1>3. /\ new \in Contents
      /\ \A k \in Keys : /\ file["tte"][k] # Absent => new[k] = file["tte"][k]
                         /\ proc[c].doc[k] = "tte" => new[k] # Absent
    BY <1>1, <1>2, TypeParts, MintType
<1> HIDE DEF new
<1>4. count' \in Counts
    BY <1>1, TypeParts DEF Counts
<1>5. pc \in Phases
    BY DEF Phases
<1> HIDE DEF pc
<1>6. [proc[c] EXCEPT !.next = new, !.pc = pc] \in Procs
    BY <1>3, <1>5, TypeParts DEF Procs
<1>7. /\ proc' \in [Commands -> Procs] /\ Alone(c)
      /\ proc'[c] = [proc[c] EXCEPT !.next = new, !.pc = pc]
    BY <1>1, <1>6, TypeParts DEF Alone
<1>8. /\ proc'[c].cmd = proc[c].cmd /\ proc'[c].cat = proc[c].cat
      /\ proc'[c].doc = proc[c].doc /\ proc'[c].next = new /\ proc'[c].pc = pc
    BY <1>7, TypeParts DEF Procs
<1> QED  BY <1>3, <1>4, <1>7, <1>8 DEF new, pc

LEMMA ReadForEditMoves ==
    ASSUME TypeOK, NEW c \in Commands, ReadForEdit(c)
    PROVE  /\ proc' \in [Commands -> Procs] /\ Alone(c) /\ count' \in Counts
           /\ proc'[c].cmd = proc[c].cmd /\ proc'[c].cat = proc[c].cat
           /\ proc'[c].doc = proc[c].doc /\ proc'[c].key = proc[c].key /\ proc'[c].pc = "trunc"
           /\ proc'[c].next = IF proc[c].cmd = "scaffold"
                              THEN Reconcile(proc[c].doc, proc[c].cat, file[proc[c].cat])
                              ELSE [file[proc[c].cat] EXCEPT ![proc[c].key] = Fresh]
<1> DEFINE p == proc[c]
           new == IF p.cmd = "scaffold" THEN Reconcile(p.doc, p.cat, file[p.cat])
                  ELSE [file[p.cat] EXCEPT ![p.key] = Fresh]
<1>1. p \in Procs /\ file[p.cat] \in Contents
    BY TypeParts DEF TypeOK, Procs
<1>2. /\ proc' = [proc EXCEPT ![c] = [p EXCEPT !.pc = "trunc", !.next = new]]
      /\ p.cmd = "scaffold" => UNCHANGED count
      /\ p.cmd # "scaffold" => count.values < MaxValues /\ Counted("values")
    BY DEF ReadForEdit
<1>3. new \in Contents
    <2>1. CASE p.cmd = "scaffold"
        BY <1>1, <2>1, ReconcileType
    <2>2. CASE p.cmd # "scaffold"
        <3>1. Fresh \in Values
            BY <1>2, <2>2, TypeParts, BoundsAssumption DEF Fresh, Values, Counts
        <3> QED  BY <1>1, <2>2, <3>1 DEF Contents
    <2> QED  BY <2>1, <2>2
<1>4. count' \in Counts
    BY <1>2, TypeParts, CountedType
<1> HIDE DEF new
<1>5. [p EXCEPT !.pc = "trunc", !.next = new] \in Procs
    BY <1>1, <1>3 DEF Procs, Phases
<1>6. /\ proc' \in [Commands -> Procs] /\ Alone(c)
      /\ proc'[c] = [p EXCEPT !.pc = "trunc", !.next = new]
    BY <1>2, <1>5, TypeParts DEF Alone
<1>7. /\ proc'[c].cmd = p.cmd /\ proc'[c].cat = p.cat /\ proc'[c].doc = p.doc /\ proc'[c].pc = "trunc"
      /\ proc'[c].key = p.key /\ proc'[c].next = new
    BY <1>1, <1>6 DEF Procs
<1> QED  BY <1>4, <1>6, <1>7 DEF new

LEMMA MergeMoves ==
    ASSUME TypeOK, NEW c \in Commands, Merge(c)
    PROVE  /\ proc' \in [Commands -> Procs] /\ Alone(c) /\ agg' \in Contents
           /\ \/ Ends(c) /\ agg' = agg
              \/ /\ proc'[c].cmd = proc[c].cmd /\ proc'[c].cat = proc[c].cat
                 /\ proc'[c].doc = proc[c].doc /\ proc'[c].pc = "publish" /\ agg' = Empty
                 /\ \A k \in Keys : proc[c].doc[k] = "tte" /\ proc[c].next[k] # Absent =>
                                        proc'[c].next[k] = proc[c].next[k]
<1> DEFINE new == Union(Sources(proc[c]))
<1>1. /\ proc[c] \in Procs /\ Empty \in Contents /\ agg \in Contents
    BY TypeParts DEF TypeOK
<1>2. CASE Collides(Sources(proc[c]))
    BY <1>1, <1>2, MoveType DEF Merge
<1>3. CASE ~Collides(Sources(proc[c]))
    <2>1. /\ proc' = [proc EXCEPT ![c] = [proc[c] EXCEPT !.next = new, !.pc = "publish"]] /\ agg' = Empty
        BY <1>3 DEF Merge
    <2>2. /\ new \in Contents
          /\ \A k \in Keys : proc[c].doc[k] = "tte" /\ proc[c].next[k] # Absent => new[k] = proc[c].next[k]
        BY <1>1, UnionType
    <2> HIDE DEF new
    <2>3. [proc[c] EXCEPT !.next = new, !.pc = "publish"] \in Procs
        BY <1>1, <2>2 DEF Procs, Phases
    <2>4. /\ proc' \in [Commands -> Procs] /\ Alone(c)
          /\ proc'[c] = [proc[c] EXCEPT !.next = new, !.pc = "publish"]
        BY <2>1, <2>3, TypeParts DEF Alone
    <2>5. /\ proc'[c].cmd = proc[c].cmd /\ proc'[c].cat = proc[c].cat
          /\ proc'[c].doc = proc[c].doc /\ proc'[c].pc = "publish" /\ proc'[c].next = new
        BY <1>1, <2>4 DEF Procs
    <2> QED  BY <1>1, <2>1, <2>2, <2>4, <2>5
<1> QED  BY <1>2, <1>3

LEMMA PublishMoves ==
    ASSUME TypeOK, NEW c \in Commands, Publish(c)
    PROVE  /\ proc' \in [Commands -> Procs] /\ Alone(c) /\ agg' \in Contents /\ agg' = proc[c].next
           /\ proc'[c].cmd = proc[c].cmd /\ proc'[c].cat = proc[c].cat
           /\ proc'[c].doc = proc[c].doc /\ proc'[c].pc \in {"initial", "ps", "migrate"}
<1>1. proc[c] \in Procs /\ Empty \in Contents
    BY TypeParts
<1>2. AfterAggregate(proc[c]) \in {"initial", "ps", "migrate"}
    BY DEF AfterAggregate
<1>3. proc' = [proc EXCEPT ![c] = [proc[c] EXCEPT !.next = Empty, !.pc = AfterAggregate(proc[c])]]
    BY DEF Publish
<1>4. [proc[c] EXCEPT !.next = Empty, !.pc = AfterAggregate(proc[c])] \in Procs
    BY <1>1, <1>2 DEF Procs, Phases
<1>5. /\ proc' \in [Commands -> Procs] /\ Alone(c)
      /\ proc'[c] = [proc[c] EXCEPT !.next = Empty, !.pc = AfterAggregate(proc[c])]
    BY <1>3, <1>4, TypeParts DEF Alone
<1>6. agg' = proc[c].next /\ proc[c].next \in Contents
    BY <1>1 DEF Publish, Procs
<1> QED  BY <1>1, <1>2, <1>5, <1>6 DEF Procs

\* A command that begins with what the context says now.
Begun(c, cmd, cat, key, pc) ==
    proc' = [proc EXCEPT ![c] = [Idle EXCEPT !.cmd = cmd, !.cat = cat, !.key = key, !.doc = infra, !.pc = pc]]

LEMMA BegunType ==
    ASSUME TypeOK, NEW c \in Commands, NEW cmd \in Bringers \cup {"down", "scaffold", "set", "copy"},
           NEW cat \in Categories, NEW key \in Keys, NEW pc \in Phases, Begun(c, cmd, cat, key, pc)
    PROVE  /\ proc' \in [Commands -> Procs] /\ Alone(c)
           /\ proc'[c].cmd = cmd /\ proc'[c].cat = cat /\ proc'[c].doc = infra /\ proc'[c].pc = pc
<1> DEFINE p == [Idle EXCEPT !.cmd = cmd, !.cat = cat, !.key = key, !.doc = infra, !.pc = pc]
<1>1. infra \in Documents
    BY DEF TypeOK
<1>2. p \in Procs /\ p.cmd = cmd /\ p.cat = cat /\ p.doc = infra /\ p.pc = pc
    BY <1>1, TypeParts DEF Procs
<1> HIDE DEF p
<1>3. proc' = [proc EXCEPT ![c] = p]
    BY DEF Begun, p
<1> QED  BY <1>2, <1>3, TypeParts DEF Alone

LEMMA StackStarts ==
    ASSUME TypeOK, NEW c \in Commands, NEW cmd \in Bringers \cup {"down"}, StartStackCommand(c, cmd)
    PROVE  /\ proc' \in [Commands -> Procs] /\ Alone(c) /\ count' \in Counts
           /\ proc[c].pc = "idle"
           /\ proc'[c].cmd = cmd /\ proc'[c].cat = "tte" /\ proc'[c].doc = infra
           /\ proc'[c].pc = IF cmd = "down" THEN "down" ELSE "read"
<1> DEFINE pc == IF cmd = "down" THEN "down" ELSE "read"
<1>1. "tte" \in Categories /\ Idle.key \in Keys /\ pc \in Phases
    BY TypeParts DEF Categories, Procs, Phases
<1>2. Begun(c, cmd, "tte", Idle.key, pc)
    <2>1. Idle \in Procs /\ Idle.cat = "tte"
        BY TypeParts
    <2>2. [Idle EXCEPT !.cmd = cmd, !.doc = infra, !.pc = pc]
          = [Idle EXCEPT !.cmd = cmd, !.cat = "tte", !.key = Idle.key, !.doc = infra, !.pc = pc]
        BY <2>1 DEF Procs
    <2> QED  BY <2>2 DEF StartStackCommand, Begun
<1>3. count' \in Counts /\ proc[c].pc = "idle"
    BY CountedType DEF StartStackCommand, At
<1> QED  BY <1>1, <1>2, <1>3, BegunType

LEMMA FileStarts ==
    ASSUME TypeOK, NEW c \in Commands, NEW cmd \in {"scaffold", "set", "copy"},
           NEW cat \in {"secret", "config"}, NEW k \in Keys, StartFileCommand(c, cmd, cat, k)
    PROVE  /\ proc' \in [Commands -> Procs] /\ Alone(c) /\ count' \in Counts
           /\ proc[c].pc = "idle"
           /\ proc'[c].cmd = cmd /\ proc'[c].cat = cat /\ proc'[c].pc = "read"
<1>1. cat \in Categories /\ "read" \in Phases
    BY DEF Categories, Phases
<1>2. Begun(c, cmd, cat, k, "read")
    BY DEF StartFileCommand, Begun
<1>3. count' \in Counts /\ proc[c].pc = "idle"
    BY CountedType DEF StartFileCommand, At
<1> QED  BY <1>1, <1>2, <1>3, BegunType

LEMMA WriteMoves ==
    ASSUME TypeOK, NEW c \in Commands, Write(c)
    PROVE  /\ proc' \in [Commands -> Procs] /\ Alone(c)
           /\ file' = [file EXCEPT ![proc[c].cat] = proc[c].next]
           /\ file' \in [Categories -> Contents] /\ given' \in [Categories -> Contents]
           /\ IF proc[c].cmd \in Bringers
              THEN /\ proc'[c].cmd = proc[c].cmd /\ proc'[c].cat = proc[c].cat
                   /\ proc'[c].doc = proc[c].doc /\ proc'[c].next = proc[c].next
                   /\ proc'[c].pc = "aggregate"
              ELSE proc'[c] = Idle
<1>1. proc[c] \in Procs
    BY TypeParts
<1>2. file' = [file EXCEPT ![proc[c].cat] = proc[c].next] /\ given' = Acknowledged(proc[c])
    BY DEF Write
<1>3. Acknowledged(proc[c]) \in [Categories -> Contents]
    <2> DEFINE p == proc[c]
               pruned == [k \in Keys |-> IF p.doc[k] = p.cat THEN given[p.cat][k] ELSE Absent]
    <2>1. given \in [Categories -> Contents] /\ p.cat \in Categories
          /\ p.key \in Keys /\ p.next \in Contents
        BY <1>1 DEF TypeOK, Procs
    <2>2. pruned \in Contents
        BY <2>1 DEF Contents, Absent
    <2>3. [given[p.cat] EXCEPT ![p.key] = p.next[p.key]] \in Contents
        BY <2>1 DEF Contents
    <2>4. CASE p.cmd \in {"set", "copy"}
        <3>1. Acknowledged(p) = [given EXCEPT ![p.cat] = [given[p.cat] EXCEPT ![p.key] = p.next[p.key]]]
            BY <2>4 DEF Acknowledged
        <3> QED  BY <2>1, <2>3, <3>1
    <2>5. CASE p.cmd = "scaffold"
        <3>1. Acknowledged(p) = [given EXCEPT ![p.cat] = pruned]
            BY <2>5 DEF Acknowledged
        <3> QED  BY <2>1, <2>2, <3>1
    <2>6. CASE p.cmd \notin {"set", "copy", "scaffold"}
        BY <2>1, <2>6 DEF Acknowledged
    <2> QED  BY <2>4, <2>5, <2>6
<1>4. file' \in [Categories -> Contents]
    BY <1>1, <1>2 DEF TypeOK, Procs
<1>5. IF proc[c].cmd \in Bringers THEN Goto(c, "aggregate") ELSE Ends(c)
    BY DEF Write
<1> QED  BY <1>2, <1>3, <1>4, <1>5, MoveType DEF Phases

LEMMA TypeStep == TypeOK /\ [Next]_vars => TypeOK'
<1> SUFFICES ASSUME TypeOK, [Next]_vars PROVE TypeOK'  OBVIOUS
<1>1. /\ infra \in Documents /\ output \in Documents
      /\ file \in [Categories -> Contents] /\ given \in [Categories -> Contents]
      /\ agg \in Contents /\ volume \in Contents /\ loaded \in Contents /\ Empty \in Contents
      /\ stack \in {"down", "half", "up"} /\ dist \in {"empty", "part", "full"}
      /\ proc \in [Commands -> Procs] /\ count \in Counts
      /\ damaged \subseteq Categories \cup {"dist"}
    BY TypeParts DEF TypeOK
<1>2. ASSUME infra' \in Documents, output' \in Documents,
             file' \in [Categories -> Contents], given' \in [Categories -> Contents],
             agg' \in Contents, volume' \in Contents, loaded' \in Contents,
             stack' \in {"down", "half", "up"}, dist' \in {"empty", "part", "full"},
             proc' \in [Commands -> Procs], count' \in Counts,
             damaged' \subseteq Categories \cup {"dist"}
      PROVE  TypeOK'
    BY <1>2 DEF TypeOK, Procs, Counts
<1>3. \A c \in Commands : proc[c].cat \in Categories
    BY <1>1 DEF Procs
<1>4. CASE UNCHANGED vars
    BY <1>1, <1>2, <1>4 DEF vars, files, host
<1>5. ASSUME NEW c \in Commands, NEW cmd \in Bringers \cup {"down"}, StartStackCommand(c, cmd)
      PROVE  TypeOK'
    <2>1. proc' \in [Commands -> Procs] /\ count' \in Counts
        BY <1>5, StackStarts
    <2> QED  BY <1>1, <1>2, <1>5, <2>1 DEF StartStackCommand, Undercut, host, Categories
<1>6. ASSUME NEW c \in Commands, NEW cmd \in {"scaffold", "set", "copy"}, NEW cat \in {"secret", "config"},
             NEW k \in Keys, StartFileCommand(c, cmd, cat, k)
      PROVE  TypeOK'
    <2>1. proc' \in [Commands -> Procs] /\ count' \in Counts
        BY <1>6, FileStarts
    <2> QED  BY <1>1, <1>2, <1>6, <2>1 DEF StartFileCommand, files, host
<1>7. ASSUME NEW c \in Commands, ReadStore(c) PROVE TypeOK'
    <2>1. proc' \in [Commands -> Procs] /\ count' \in Counts
        BY <1>7, ReadStoreMoves
    <2> QED  BY <1>1, <1>2, <1>7, <2>1 DEF ReadStore, Races, files, host, Categories
<1>8. ASSUME NEW c \in Commands, ReadForEdit(c) PROVE TypeOK'
    <2>1. proc' \in [Commands -> Procs] /\ count' \in Counts
        BY <1>8, ReadForEditMoves
    <2> QED  BY <1>1, <1>2, <1>3, <1>8, <2>1 DEF ReadForEdit, Races, files, host
<1>9. ASSUME NEW c \in Commands, Truncate(c) PROVE TypeOK'
    <2>1. proc' \in [Commands -> Procs]
        BY <1>9, MoveType DEF Truncate, Phases
    <2>2. file' \in [Categories -> Contents]
        BY <1>1, <1>9 DEF Truncate
    <2> QED  BY <1>1, <1>2, <1>9, <2>1, <2>2 DEF Truncate, host
<1>10. ASSUME NEW c \in Commands, Write(c) PROVE TypeOK'
    BY <1>1, <1>2, <1>10, WriteMoves DEF Write, host
<1>11. ASSUME NEW c \in Commands, Merge(c) PROVE TypeOK'
    BY <1>1, <1>2, <1>11, MergeMoves DEF Merge, host
<1>12. ASSUME NEW c \in Commands, Publish(c) PROVE TypeOK'
    BY <1>1, <1>2, <1>12, PublishMoves DEF Publish, host
<1>13. ASSUME NEW c \in Commands,
              \/ BeginInitialBuild(c) \/ FinishInitialBuild(c) \/ ComposeUp(c) \/ Migrate(c)
              \/ CheckRunning(c) \/ Clear(c) \/ Fill(c) \/ Down(c)
       PROVE  TypeOK'
    <2>1. \/ \E pc \in Phases : Goto(c, pc)
          \/ Ends(c)
        BY <1>13 DEF BeginInitialBuild, FinishInitialBuild, ComposeUp, Migrate, CheckRunning, Clear,
                     Fill, Down, Phases
    <2>2. proc' \in [Commands -> Procs]
        BY <2>1, MoveType
    <2>3. volume' \in Contents
        BY <1>1, <1>13, StartedType
        DEF BeginInitialBuild, FinishInitialBuild, ComposeUp, Migrate, CheckRunning, Clear, Fill, Down, host
    <2>4. loaded' \in Contents /\ stack' \in {"down", "half", "up"} /\ dist' \in {"empty", "part", "full"}
        BY <1>1, <1>13
        DEF BeginInitialBuild, FinishInitialBuild, ComposeUp, Migrate, CheckRunning, Clear, Fill, Down, host
    <2>5. UNCHANGED <<infra, output, file, agg, given, count>> /\ damaged' \subseteq Categories \cup {"dist"}
        BY <1>1, <1>13
        DEF BeginInitialBuild, FinishInitialBuild, ComposeUp, Migrate, CheckRunning, Clear, Fill, Down, files
    <2> QED  BY <1>1, <1>2, <2>2, <2>3, <2>4, <2>5
<1>14. ASSUME NEW c \in Commands, Kill(c) \/ Fail(c) PROVE TypeOK'
    <2>1. proc' \in [Commands -> Procs] /\ count' \in Counts
        BY <1>14, MoveType, CountedType DEF Kill, Fail
    <2>2. damaged' \subseteq Categories \cup {"dist"}
        BY <1>1, <1>3, <1>14 DEF Kill, Fail, LeftBy
    <2>3. volume' \in Contents /\ loaded' \in Contents /\ stack' \in {"down", "half", "up"}
          /\ dist' \in {"empty", "part", "full"}
        BY <1>1, <1>14, StartedType DEF Kill, Fail, host
    <2>4. UNCHANGED <<infra, output, file, agg, given>>
        BY <1>14 DEF Kill, Fail, files
    <2> QED  BY <1>1, <1>2, <2>1, <2>2, <2>3, <2>4
<1>15. ASSUME NEW doc \in Documents, Edit(doc) PROVE TypeOK'
    <2>1. count' \in Counts
        BY <1>15, CountedType DEF Edit
    <2> QED  BY <1>1, <1>2, <1>15, <2>1 DEF Edit, host
<1> QED
    BY <1>4, <1>5, <1>6, <1>7, <1>8, <1>9, <1>10, <1>11, <1>12, <1>13, <1>14, <1>15 DEF Next, Step

\* The files, volumes and containers of a host hold values, blanks or nothing,
\* and each command is in one of its phases.
THEOREM TypeCorrect == Spec => []TypeOK
<1> QED  BY TypeInit, TypeStep, PTL DEF Spec

-----------------------------------------------------------------------------
(* What keeps the credentials: while the store is not damaged at most one   *)
(* command rewrites it, and what it will write holds all that is there.     *)

Holding == {"initial", "copy", "compose", "migrate"}   \* an up or a migrate runs on the aggregate

\* Only those that aggregate touch the store of minted values.
Shape(p) ==
    /\ p.cmd \in Bringers => p.cat = "tte"
    /\ p.pc \in {"aggregate", "publish", "ps", "clear", "fill"} \cup Holding => p.cmd \in Bringers
    /\ p.pc \in {"read", "trunc", "write"} /\ p.cat = "tte" => p.cmd \in Bringers
Shapes == \A c \in Commands : Shape(proc[c])

\* The store has this value, or the command that rewrites it does.
Writer(p) == p.pc = "write" /\ p.cat = "tte"
Writes(c) == Writer(proc[c])
HeldIn(store, ps, k, v) == store[k] = v \/ \E c \in Commands : Writer(ps[c]) /\ ps[c].next[k] = v
Holds(k, v) == HeldIn(file["tte"], proc, k, v)

\* All bring-ups under way are of the document compiled last.
OneDocument == \A c \in Commands : proc[c].cmd \in Bringers => proc[c].doc = output

OneRewriter == \A c, d \in Commands : Rewriting(c, "tte") /\ Rewriting(d, "tte") => c = d

\* What is going to be written keeps what is there and leaves no key without.
RewritersCover ==
    \A c \in Commands : Rewriting(c, "tte") =>
        \A k \in Keys :
            /\ file["tte"][k] # Absent => proc[c].next[k] = file["tte"][k]
            /\ Writes(c) => file["tte"][k] = Absent
            /\ k \in Minted(output) => proc[c].next[k] # Absent

MergersHold ==
    \A c \in Commands : proc[c].pc \in {"aggregate", "publish"} =>
        \A k \in Minted(output) : proc[c].next[k] # Absent /\ Holds(k, proc[c].next[k])

AggregateHolds ==
    (\E c \in Commands : proc[c].pc \in Holding) =>
        agg = Empty \/ \A k \in Minted(output) : agg[k] # Absent /\ Holds(k, agg[k])

VolumesHold == \A k \in Keys : volume[k] # Absent => Holds(k, volume[k])

Safe == /\ OneDocument /\ OneRewriter /\ RewritersCover
        /\ MergersHold /\ AggregateHolds /\ VolumesHold

\* A step of c that leaves the store alone.
Calm(c) ==
    /\ Alone(c) /\ file'["tte"] = file["tte"] /\ output' = output
    /\ damaged \subseteq damaged' /\ ("tte" \notin damaged' => ~Writes(c))
    /\ Shape(proc'[c])
    /\ proc'[c].cat = "tte" => proc'[c].pc \notin {"trunc", "write"}
    /\ proc'[c].cmd \in Bringers => proc[c].cmd \in Bringers /\ proc'[c].doc = proc[c].doc
    /\ proc'[c].pc \in {"aggregate", "publish"} =>
          /\ proc[c].pc = "aggregate"
          /\ \A k \in Keys : proc[c].doc[k] = "tte" /\ proc[c].next[k] # Absent =>
                                 proc'[c].next[k] = proc[c].next[k]
    /\ \/ agg' = agg /\ (proc'[c].pc \in Holding => proc[c].pc \in Holding)
       \/ agg' = Empty
       \/ proc[c].pc = "publish" /\ agg' = proc[c].next
    /\ \/ volume' = volume
       \/ proc[c].pc \in {"compose", "migrate"} /\ volume' = Started(output, agg)

\* What an engine's volume is made with is in the aggregate it is started on.
LEMMA StartedHolds ==
    ASSUME TypeOK, Safe, NEW c \in Commands, proc[c].pc \in Holding
    PROVE  \A k \in Keys : Started(output, agg)[k] # Absent => Holds(k, Started(output, agg)[k])
<1> SUFFICES ASSUME NEW k \in Keys, Started(output, agg)[k] # Absent
             PROVE  Holds(k, Started(output, agg)[k])
    OBVIOUS
<1>1. CASE output[k] = "tte" /\ volume[k] = Absent
    <2>1. Started(output, agg)[k] = agg[k] /\ k \in Minted(output)
        BY <1>1 DEF Started, Minted
    <2>2. agg # Empty
        BY <2>1 DEF Empty
    <2> QED  BY <2>1, <2>2 DEF Safe, AggregateHolds
<1>2. CASE ~(output[k] = "tte" /\ volume[k] = Absent)
    <2>1. Started(output, agg)[k] = volume[k]
        BY <1>2 DEF Started
    <2> QED  BY <2>1 DEF Safe, VolumesHold
<1> QED  BY <1>1, <1>2

LEMMA CalmSafe ==
    ASSUME TypeOK, Shapes, "tte" \notin damaged => Safe, NEW c \in Commands, Calm(c)
    PROVE  Shapes' /\ ("tte" \notin damaged' => Safe')
<1>1. Shapes'
    BY DEF Shapes, Calm, Alone
<1> SUFFICES ASSUME "tte" \notin damaged' PROVE Safe'
    BY <1>1
<1>2. Safe /\ "tte" \notin damaged
    BY DEF Calm
<1>3. /\ \A d \in Commands \ {c} : proc'[d] = proc[d]
      /\ file'["tte"] = file["tte"] /\ Minted(output') = Minted(output) /\ output' = output
      /\ ~Writes(c)
    BY DEF Calm, Alone
<1>4. \A k \in Keys : \A v : Holds(k, v) => HeldIn(file'["tte"], proc', k, v)
    BY <1>3 DEF Holds, HeldIn, Writes
<1>5. OneDocument'
    BY <1>2, <1>3 DEF Safe, OneDocument, Calm
<1>6. \A d \in Commands : Rewriting(d, "tte")' => d # c /\ Rewriting(d, "tte")
    BY <1>3 DEF Rewriting, Calm
<1>7. OneRewriter'
    BY <1>2, <1>6 DEF Safe, OneRewriter
<1>8. RewritersCover'
    <2> SUFFICES ASSUME NEW d \in Commands, Rewriting(d, "tte")', NEW k \in Keys
                 PROVE  /\ file'["tte"][k] # Absent => proc'[d].next[k] = file'["tte"][k]
                        /\ Writes(d)' => file'["tte"][k] = Absent
                        /\ k \in Minted(output') => proc'[d].next[k] # Absent
        BY DEF RewritersCover
    <2>1. d # c /\ Rewriting(d, "tte") /\ proc'[d] = proc[d]
        BY <1>3, <1>6
    <2> QED  BY <1>2, <1>3, <2>1 DEF Safe, RewritersCover, Writes, Writer
<1>9. MergersHold'
    <2> SUFFICES ASSUME NEW d \in Commands, proc'[d].pc \in {"aggregate", "publish"}, NEW k \in Minted(output')
                 PROVE  proc'[d].next[k] # Absent /\ HeldIn(file'["tte"], proc', k, proc'[d].next[k])
        BY DEF MergersHold, Holds
    <2>1. proc[d].pc \in {"aggregate", "publish"} /\ k \in Keys /\ k \in Minted(output)
        BY <1>3 DEF Calm, Minted
    <2>2. proc[d].next[k] # Absent /\ Holds(k, proc[d].next[k])
        BY <1>2, <2>1 DEF Safe, MergersHold
    <2>3. proc'[d].next[k] = proc[d].next[k]
        <3>1. CASE d = c
            <4>1. proc[c].cmd \in Bringers
                BY <2>1, <3>1 DEF Shapes, Shape
            <4>2. proc[c].doc[k] = "tte"
                BY <1>2, <2>1, <4>1 DEF Safe, OneDocument, Minted
            <4> QED  BY <2>1, <2>2, <3>1, <4>2 DEF Calm
        <3> QED  BY <1>3, <3>1
    <2> QED  BY <1>4, <2>1, <2>2, <2>3
<1>10. AggregateHolds'
    <2> SUFFICES ASSUME NEW d \in Commands, proc'[d].pc \in Holding, agg' # Empty, NEW k \in Minted(output')
                 PROVE  agg'[k] # Absent /\ HeldIn(file'["tte"], proc', k, agg'[k])
        BY DEF AggregateHolds, Empty, Holding, Holds
    <2>1. k \in Keys /\ k \in Minted(output)
        BY <1>3 DEF Minted
    <2>2. agg'[k] # Absent /\ Holds(k, agg'[k])
        <3>1. CASE agg' = agg /\ (proc'[c].pc \in Holding => proc[c].pc \in Holding)
            <4>1. proc[d].pc \in Holding
                BY <1>3, <3>1
            <4> QED  BY <1>2, <2>1, <3>1, <4>1 DEF Safe, AggregateHolds
        <3>2. CASE proc[c].pc = "publish" /\ agg' = proc[c].next
            BY <1>2, <2>1, <3>2 DEF Safe, MergersHold
        <3> QED  BY <3>1, <3>2 DEF Calm
    <2> QED  BY <1>4, <2>1, <2>2
<1>11. VolumesHold'
    <2> SUFFICES ASSUME NEW k \in Keys, volume'[k] # Absent PROVE HeldIn(file'["tte"], proc', k, volume'[k])
        BY DEF VolumesHold, Holds
    <2>1. Holds(k, volume'[k])
        <3>1. CASE volume' = volume
            BY <1>2, <3>1 DEF Safe, VolumesHold
        <3>2. CASE proc[c].pc \in {"compose", "migrate"} /\ volume' = Started(output, agg)
            BY <1>2, <3>2, StartedHolds DEF Holding
        <3> QED  BY <3>1, <3>2 DEF Calm
    <2> QED  BY <1>4, <2>1
<1> QED  BY <1>5, <1>7, <1>8, <1>9, <1>10, <1>11 DEF Safe

\* A command that ends or goes on, without a change of its own, leaves the
\* store alone unless it was writing it.
LEMMA MoveCalm ==
    ASSUME TypeOK, Shapes, NEW c \in Commands,
           \/ Ends(c)
           \/ \E pc \in {"compose", "copy", "migrate"} : Goto(c, pc) /\ proc[c].pc \in Holding
           \/ \E pc \in {"clear", "fill"} : Goto(c, pc) /\ proc[c].pc \in {"ps", "clear"}
           \/ Goto(c, "write") /\ proc[c].pc = "trunc" /\ proc[c].cat # "tte",
           "tte" \notin damaged' => ~Writes(c),
           file'["tte"] = file["tte"], output' = output, agg' = agg, damaged \subseteq damaged',
           \/ volume' = volume
           \/ proc[c].pc \in {"compose", "migrate"} /\ volume' = Started(output, agg)
    PROVE  Calm(c)
<1>1. Shape(proc[c]) /\ proc[c] \in Procs
    BY TypeParts DEF Shapes
<1>2. CASE Ends(c)
    <2>1. Alone(c) /\ proc'[c].cmd = "none" /\ proc'[c].pc = "idle" /\ proc'[c].cat = "tte"
        BY <1>2, MoveType, TypeParts
    <2> QED  BY <2>1 DEF Calm, Shape, Bringers, Holding
<1>3. ASSUME NEW pc \in {"compose", "copy", "migrate", "clear", "fill"}, Goto(c, pc),
             pc \in {"compose", "copy", "migrate"} => proc[c].pc \in Holding,
             pc \in {"clear", "fill"} => proc[c].pc \in {"ps", "clear"}
      PROVE  Calm(c)
    <2>1. /\ Alone(c) /\ proc'[c].pc = pc /\ proc'[c].cmd = proc[c].cmd
          /\ proc'[c].cat = proc[c].cat /\ proc'[c].doc = proc[c].doc
        BY <1>3, MoveType DEF Phases
    <2> QED  BY <1>1, <1>3, <2>1 DEF Calm, Shape, Holding
<1>4. CASE Goto(c, "write") /\ proc[c].pc = "trunc" /\ proc[c].cat # "tte"
    <2>1. /\ Alone(c) /\ proc'[c].pc = "write" /\ proc'[c].cmd = proc[c].cmd
          /\ proc'[c].cat = proc[c].cat /\ proc'[c].doc = proc[c].doc
        BY <1>4, MoveType DEF Phases
    <2> QED  BY <1>1, <1>4, <2>1 DEF Calm, Shape, Holding
<1> QED  BY <1>2, <1>3, <1>4

LEMMA CalmActions ==
    ASSUME TypeOK, Shapes, NEW c \in Commands
    PROVE  /\ \A cmd \in {"scaffold", "set", "copy"}, cat \in {"secret", "config"}, k \in Keys :
                  StartFileCommand(c, cmd, cat, k) => Calm(c)
           /\ ReadForEdit(c) \/ Merge(c) \/ Publish(c) => Calm(c)
           /\ Truncate(c) /\ proc[c].cat # "tte" => Calm(c)
           /\ Write(c) /\ proc[c].cat # "tte" => Calm(c)
           /\ BeginInitialBuild(c) \/ FinishInitialBuild(c) \/ ComposeUp(c) \/ Migrate(c) => Calm(c)
           /\ CheckRunning(c) \/ Clear(c) \/ Fill(c) \/ Down(c) => Calm(c)
           /\ Kill(c) \/ Fail(c) => Calm(c)
<1>1. Shape(proc[c]) /\ proc[c] \in Procs
    BY TypeParts DEF Shapes
<1>2. ASSUME NEW cmd \in {"scaffold", "set", "copy"}, NEW cat \in {"secret", "config"}, NEW k \in Keys,
             StartFileCommand(c, cmd, cat, k)
      PROVE  Calm(c)
    <2>1. /\ Alone(c) /\ proc[c].pc = "idle" /\ proc'[c].cmd = cmd /\ proc'[c].cat = cat
          /\ proc'[c].pc = "read"
        BY <1>2, FileStarts
    <2>2. UNCHANGED <<file, output, agg, volume, damaged>>
        BY <1>2 DEF StartFileCommand, files, host
    <2> QED  BY <2>1, <2>2 DEF Calm, Shape, Writes, Writer, Bringers, Holding
<1>3. ASSUME ReadForEdit(c) PROVE Calm(c)
    <2>1. /\ Alone(c) /\ proc'[c].cmd = proc[c].cmd /\ proc'[c].cat = proc[c].cat
          /\ proc'[c].doc = proc[c].doc /\ proc'[c].pc = "trunc"
        BY <1>3, ReadForEditMoves
    <2>2. proc[c].cmd \notin Bringers /\ proc[c].cat # "tte" /\ proc[c].pc = "read"
        BY <1>1, <1>3 DEF ReadForEdit, At, Shape
    <2>3. UNCHANGED <<file, output, agg, volume>> /\ damaged \subseteq damaged'
        BY <1>3 DEF ReadForEdit, files, host
    <2> QED  BY <2>1, <2>2, <2>3 DEF Calm, Shape, Writes, Writer, Holding
<1>4. ASSUME Merge(c) PROVE Calm(c)
    <2>1. proc[c].pc = "aggregate" /\ UNCHANGED <<file, output, volume, damaged>>
        BY <1>4 DEF Merge, host, At
    <2>2. CASE Ends(c) /\ agg' = agg
        BY <2>1, <2>2, MoveCalm DEF Writes, Writer
    <2>3. CASE ~(Ends(c) /\ agg' = agg)
        BY <1>1, <1>4, <2>1, <2>3, MergeMoves DEF Calm, Shape, Writes, Writer, Holding
    <2> QED  BY <2>2, <2>3
<1>5. ASSUME Publish(c) PROVE Calm(c)
    <2>1. proc[c].pc = "publish" /\ UNCHANGED <<file, output, volume, damaged>>
        BY <1>5 DEF Publish, host, At
    <2> QED  BY <1>1, <1>5, <2>1, PublishMoves DEF Calm, Shape, Writes, Writer, Holding
<1>6. ASSUME Truncate(c), proc[c].cat # "tte" PROVE Calm(c)
    <2>1. /\ proc[c].pc = "trunc" /\ Goto(c, "write") /\ file'["tte"] = file["tte"]
          /\ UNCHANGED <<output, agg, volume, damaged>>
        BY <1>1, <1>6 DEF Truncate, host, At, Procs, TypeOK, Categories
    <2> QED  BY <1>6, <2>1, MoveCalm DEF Writes, Writer
<1>7. ASSUME Write(c), proc[c].cat # "tte" PROVE Calm(c)
    <2>1. /\ proc[c].cmd \notin Bringers /\ Ends(c)
          /\ UNCHANGED <<output, agg, volume, damaged>>
        BY <1>1, <1>7 DEF Write, host, Shape
    <2>2. file'["tte"] = file["tte"]
        BY <1>1, <1>7, WriteMoves DEF Procs, TypeOK, Categories
    <2> QED  BY <1>7, <2>1, <2>2, MoveCalm DEF Writes, Writer
<1>8. ASSUME BeginInitialBuild(c) \/ FinishInitialBuild(c) \/ ComposeUp(c) \/ Migrate(c) PROVE Calm(c)
    <2>1. /\ proc[c].pc \in Holding /\ UNCHANGED <<file, output, agg, damaged>>
          /\ Ends(c) \/ \E pc \in {"compose", "copy", "migrate"} : Goto(c, pc)
          /\ \/ volume' = volume
             \/ proc[c].pc \in {"compose", "migrate"} /\ volume' = Started(output, agg)
        BY <1>8 DEF BeginInitialBuild, FinishInitialBuild, ComposeUp, Migrate, files, At, Holding
    <2> QED  BY <2>1, MoveCalm DEF Writes, Writer, Holding
<1>9. ASSUME CheckRunning(c) \/ Clear(c) \/ Fill(c) \/ Down(c) PROVE Calm(c)
    <2>1. /\ proc[c].pc \in {"ps", "clear", "fill", "down"}
          /\ UNCHANGED <<file, output, agg, volume>> /\ damaged \subseteq damaged'
          /\ Ends(c) \/ (proc[c].pc \in {"ps", "clear"} /\ \E pc \in {"clear", "fill"} : Goto(c, pc))
        BY <1>9 DEF CheckRunning, Clear, Fill, Down, files, host, At
    <2> QED  BY <2>1, MoveCalm DEF Writes, Writer
<1>10. ASSUME Kill(c) \/ Fail(c) PROVE Calm(c)
    <2>1. /\ Ends(c) /\ damaged' = damaged \cup LeftBy(c) /\ UNCHANGED <<file, output, agg>>
        BY <1>10 DEF Kill, Fail, files
    <2>2. \/ volume' = volume
          \/ proc[c].pc \in {"compose", "migrate"} /\ volume' = Started(output, agg)
        BY <1>10 DEF Kill, Fail, host, At
    <2>3. "tte" \notin damaged' => ~Writes(c)
        BY <2>1 DEF LeftBy, Writes, Writer, At
    <2> QED  BY <2>1, <2>2, <2>3, MoveCalm
<1> QED  BY <1>2, <1>3, <1>4, <1>5, <1>6, <1>7, <1>8, <1>9, <1>10

\* The stack is compiled anew: a bring-up under way is of the same document,
\* or the store is given up for damaged.
LEMMA StackSafe ==
    ASSUME TypeOK, Shapes, "tte" \notin damaged => Safe, NEW c \in Commands,
           NEW cmd \in Bringers \cup {"down"}, StartStackCommand(c, cmd)
    PROVE  Shapes' /\ ("tte" \notin damaged' => Safe')
<1>1. /\ Alone(c) /\ proc[c].pc = "idle"
      /\ proc'[c].cmd = cmd /\ proc'[c].cat = "tte" /\ proc'[c].doc = infra
      /\ proc'[c].pc = IF cmd = "down" THEN "down" ELSE "read"
    BY StackStarts
<1>2. Shapes'
    <2>1. Shape(proc'[c])
        BY <1>1 DEF Shape, Holding
    <2> QED  BY <1>1, <2>1 DEF Shapes, Alone
<1> SUFFICES ASSUME "tte" \notin damaged' PROVE Safe'
    BY <1>2
<1>3. /\ output' = infra /\ damaged' = damaged \cup Undercut(c) /\ UNCHANGED <<file, agg, volume>>
    BY DEF StartStackCommand, host
<1>4. Safe
    BY <1>3
<1>5. \A d \in Commands \ {c} : proc[d].cmd \in Bringers => proc[d].doc = infra /\ proc[d].doc = output
    <2>1. ~\E d \in Commands \ {c} : proc[d].cmd \in Bringers /\ proc[d].doc # infra
        BY <1>3 DEF Undercut
    <2> QED  BY <1>4, <2>1 DEF Safe, OneDocument
<1>6. \A d \in Commands :
         proc'[d].pc \in {"trunc", "write", "aggregate", "publish"} \cup Holding =>
            d # c /\ proc'[d] = proc[d]
    BY <1>1 DEF Alone, Holding
<1>7. \A d \in Commands : Rewriting(d, "tte")' => d # c /\ Rewriting(d, "tte") /\ proc'[d] = proc[d]
    BY <1>6 DEF Rewriting
<1>8. \A d \in Commands :
         \/ proc'[d].pc \in {"aggregate", "publish"} \cup Holding
         \/ Rewriting(d, "tte")'
         => Minted(output') = Minted(output)
    <2> SUFFICES ASSUME NEW d \in Commands, d # c, proc[d].cmd \in Bringers
                 PROVE  output' = output
        BY <1>6, <1>7 DEF Shapes, Shape, Rewriting, Minted
    <2> QED  BY <1>3, <1>5
<1>9. \A k \in Keys : \A v : Holds(k, v) => HeldIn(file'["tte"], proc', k, v)
    BY <1>1, <1>3 DEF Holds, HeldIn, Writer, Alone
<1>10. OneDocument'
    BY <1>1, <1>3, <1>5 DEF OneDocument, Alone
<1>11. OneRewriter'
    BY <1>4, <1>7 DEF Safe, OneRewriter
<1>12. RewritersCover'
    <2> SUFFICES ASSUME NEW d \in Commands, Rewriting(d, "tte")', NEW k \in Keys
                 PROVE  /\ file'["tte"][k] # Absent => proc'[d].next[k] = file'["tte"][k]
                        /\ Writes(d)' => file'["tte"][k] = Absent
                        /\ k \in Minted(output') => proc'[d].next[k] # Absent
        BY DEF RewritersCover
    <2>1. Rewriting(d, "tte") /\ proc'[d] = proc[d] /\ Minted(output') = Minted(output)
        BY <1>7, <1>8
    <2> QED  BY <1>3, <1>4, <2>1 DEF Safe, RewritersCover, Writes, Writer
<1>13. MergersHold'
    <2> SUFFICES ASSUME NEW d \in Commands, proc'[d].pc \in {"aggregate", "publish"}, NEW k \in Minted(output')
                 PROVE  proc'[d].next[k] # Absent /\ HeldIn(file'["tte"], proc', k, proc'[d].next[k])
        BY DEF MergersHold, Holds
    <2>1. proc'[d] = proc[d] /\ k \in Minted(output) /\ k \in Keys
        BY <1>6, <1>8 DEF Minted
    <2> QED  BY <1>4, <1>9, <2>1 DEF Safe, MergersHold
<1>14. AggregateHolds'
    <2> SUFFICES ASSUME NEW d \in Commands, proc'[d].pc \in Holding, agg' # Empty, NEW k \in Minted(output')
                 PROVE  agg'[k] # Absent /\ HeldIn(file'["tte"], proc', k, agg'[k])
        BY DEF AggregateHolds, Empty, Holding, Holds
    <2>1. proc'[d] = proc[d] /\ k \in Minted(output) /\ k \in Keys
        BY <1>6, <1>8 DEF Minted
    <2> QED  BY <1>3, <1>4, <1>9, <2>1 DEF Safe, AggregateHolds
<1>15. VolumesHold'
    BY <1>3, <1>4, <1>9 DEF Safe, VolumesHold, Holds
<1> QED  BY <1>10, <1>11, <1>12, <1>13, <1>14, <1>15 DEF Safe

\* ensure_tte reads the store: what it will write has every value that is there.
LEMMA ReadStoreSafe ==
    ASSUME TypeOK, Shapes, "tte" \notin damaged => Safe, NEW c \in Commands, ReadStore(c)
    PROVE  Shapes' /\ ("tte" \notin damaged' => Safe')
<1> DEFINE new == Mint(proc[c].doc, file["tte"])
<1>1. /\ Alone(c) /\ proc'[c].cmd = proc[c].cmd /\ proc'[c].cat = proc[c].cat
      /\ proc'[c].doc = proc[c].doc /\ proc'[c].next = new
      /\ proc'[c].pc = IF new = file["tte"] THEN "aggregate" ELSE "trunc"
      /\ \A k \in Keys : /\ file["tte"][k] # Absent => new[k] = file["tte"][k]
                         /\ proc[c].doc[k] = "tte" => new[k] # Absent
    BY ReadStoreMoves
<1> HIDE DEF new
<1>2. /\ proc[c].pc = "read" /\ proc[c].cmd \in Bringers
      /\ damaged' = damaged \cup Races(c, "tte") /\ UNCHANGED <<file, output, agg, volume>>
    BY DEF ReadStore, files, host, At
<1>3. proc[c].cat = "tte"
    BY <1>2 DEF Shapes, Shape
<1>4. Shapes'
    <2>1. Shape(proc'[c])
        BY <1>1, <1>2, <1>3 DEF Shape, Holding
    <2> QED  BY <1>1, <2>1 DEF Shapes, Alone
<1> SUFFICES ASSUME "tte" \notin damaged' PROVE Safe'
    BY <1>4
<1>5. Safe
    BY <1>2
<1>6. \A d \in Commands \ {c} : ~Rewriting(d, "tte") /\ ~Rewriting(d, "tte")'
    BY <1>1, <1>2 DEF Races, Rewriting, Alone
<1>7. \A k \in Keys : \A v : Holds(k, v) => HeldIn(file'["tte"], proc', k, v)
    BY <1>1, <1>2 DEF Holds, HeldIn, Writer, Alone
<1>8. \A k \in Minted(output) : new[k] # Absent /\ k \in Keys
    BY <1>1, <1>2, <1>5 DEF Safe, OneDocument, Minted
<1>9. OneDocument'
    BY <1>1, <1>2, <1>5 DEF Safe, OneDocument, Alone
<1>10. OneRewriter'
    BY <1>6 DEF OneRewriter
<1>11. RewritersCover'
    <2> SUFFICES ASSUME NEW d \in Commands, Rewriting(d, "tte")', NEW k \in Keys
                 PROVE  /\ file'["tte"][k] # Absent => proc'[d].next[k] = file'["tte"][k]
                        /\ Writes(d)' => file'["tte"][k] = Absent
                        /\ k \in Minted(output') => proc'[d].next[k] # Absent
        BY DEF RewritersCover
    <2>1. d = c
        BY <1>6
    <2>2. ~Writes(d)'
        BY <1>1, <2>1 DEF Writes, Writer
    <2>3. k \in Minted(output') => k \in Minted(output)
        BY <1>2 DEF Minted
    <2> QED  BY <1>1, <1>2, <1>8, <2>1, <2>2, <2>3
<1>12. MergersHold'
    <2> SUFFICES ASSUME NEW d \in Commands, proc'[d].pc \in {"aggregate", "publish"}, NEW k \in Minted(output')
                 PROVE  proc'[d].next[k] # Absent /\ HeldIn(file'["tte"], proc', k, proc'[d].next[k])
        BY DEF MergersHold, Holds
    <2>1. k \in Minted(output) /\ k \in Keys
        BY <1>2 DEF Minted
    <2>2. CASE d = c
        <3>1. proc'[c].next = file["tte"]
            BY <1>1, <2>2
        <3> QED  BY <1>1, <1>2, <1>8, <2>1, <2>2, <3>1 DEF HeldIn
    <2>3. CASE d # c
        <3>1. proc'[d] = proc[d]
            BY <1>1, <2>3 DEF Alone
        <3> QED  BY <1>5, <1>7, <2>1, <3>1 DEF Safe, MergersHold
    <2> QED  BY <2>2, <2>3
<1>13. AggregateHolds'
    <2> SUFFICES ASSUME NEW d \in Commands, proc'[d].pc \in Holding, agg' # Empty, NEW k \in Minted(output')
                 PROVE  agg'[k] # Absent /\ HeldIn(file'["tte"], proc', k, agg'[k])
        BY DEF AggregateHolds, Empty, Holding, Holds
    <2>1. proc'[d] = proc[d] /\ k \in Minted(output) /\ k \in Keys
        BY <1>1, <1>2 DEF Minted, Alone, Holding
    <2> QED  BY <1>2, <1>5, <1>7, <2>1 DEF Safe, AggregateHolds
<1>14. VolumesHold'
    BY <1>2, <1>5, <1>7 DEF Safe, VolumesHold, Holds
<1> QED  BY <1>9, <1>10, <1>11, <1>12, <1>13, <1>14 DEF Safe

\* The rewrite itself: between the two steps the only copy is with the command.
LEMMA RewriteSafe ==
    ASSUME TypeOK, Shapes, "tte" \notin damaged => Safe, NEW c \in Commands,
           Truncate(c) \/ Write(c), proc[c].cat = "tte"
    PROVE  Shapes' /\ ("tte" \notin damaged' => Safe')
<1>1. /\ proc[c].pc \in {"trunc", "write"} /\ proc[c].cmd \in Bringers
      /\ UNCHANGED <<output, agg, volume, damaged>>
    BY DEF Truncate, Write, host, At, Shapes, Shape
<1>2. /\ Alone(c) /\ proc'[c].cmd = proc[c].cmd /\ proc'[c].cat = "tte"
      /\ proc'[c].doc = proc[c].doc /\ proc'[c].next = proc[c].next
      /\ \/ proc[c].pc = "trunc" /\ proc'[c].pc = "write" /\ file'["tte"] = Empty
         \/ proc[c].pc = "write" /\ proc'[c].pc = "aggregate" /\ file'["tte"] = proc[c].next
    <2>1. CASE Truncate(c)
        <3>1. /\ proc[c].pc = "trunc" /\ file'["tte"] = Empty /\ Goto(c, "write")
            BY <2>1 DEF Truncate, At, TypeOK, Categories
        <3> QED  BY <3>1, MoveType DEF Phases
    <2>2. CASE Write(c)
        <3>1. proc[c].pc = "write" /\ file'["tte"] = proc[c].next
            BY <2>2, WriteMoves DEF Write, At, TypeOK, Categories
        <3> QED  BY <1>1, <2>2, <3>1, WriteMoves
    <2> QED  BY <2>1, <2>2
<1>3. Shapes'
    <2>1. Shape(proc'[c])
        BY <1>1, <1>2 DEF Shape, Holding
    <2> QED  BY <1>2, <2>1 DEF Shapes, Alone
<1> SUFFICES ASSUME "tte" \notin damaged' PROVE Safe'
    BY <1>3
<1>4. Safe
    BY <1>1
<1>5. Rewriting(c, "tte") /\ \A d \in Commands \ {c} : ~Rewriting(d, "tte") /\ proc'[d] = proc[d]
    BY <1>1, <1>2, <1>4 DEF Safe, OneRewriter, Rewriting, Alone
<1>6. \A k \in Keys : /\ file["tte"][k] # Absent => proc[c].next[k] = file["tte"][k]
                      /\ proc[c].pc = "write" => file["tte"][k] = Absent
                      /\ k \in Minted(output) => proc[c].next[k] # Absent
    BY <1>4, <1>5 DEF Safe, RewritersCover, Writes, Writer
<1>7. \A k \in Keys : \A v : v # Absent /\ Holds(k, v) => HeldIn(file'["tte"], proc', k, v)
    <2> SUFFICES ASSUME NEW k \in Keys, NEW v, v # Absent, Holds(k, v)
                 PROVE  HeldIn(file'["tte"], proc', k, v)
        OBVIOUS
    <2>1. proc[c].next[k] = v
        BY <1>5, <1>6 DEF Holds, HeldIn, Writer, Rewriting
    <2> QED  BY <1>2, <2>1 DEF HeldIn, Writer
<1>8. \A d \in Commands : Rewriting(d, "tte")' => d = c /\ proc'[c].pc = "write"
    BY <1>2, <1>5 DEF Rewriting
<1>9. OneDocument'
    BY <1>1, <1>2, <1>4 DEF Safe, OneDocument, Alone
<1>10. OneRewriter'
    BY <1>8 DEF OneRewriter
<1>11. RewritersCover'
    <2> SUFFICES ASSUME NEW d \in Commands, Rewriting(d, "tte")', NEW k \in Keys
                 PROVE  /\ file'["tte"][k] # Absent => proc'[d].next[k] = file'["tte"][k]
                        /\ Writes(d)' => file'["tte"][k] = Absent
                        /\ k \in Minted(output') => proc'[d].next[k] # Absent
        BY DEF RewritersCover
    <2>1. d = c /\ file'["tte"][k] = Absent
        BY <1>2, <1>8 DEF Empty
    <2> QED  BY <1>1, <1>2, <1>6, <2>1 DEF Minted
<1>12. MergersHold'
    <2> SUFFICES ASSUME NEW d \in Commands, proc'[d].pc \in {"aggregate", "publish"}, NEW k \in Minted(output')
                 PROVE  proc'[d].next[k] # Absent /\ HeldIn(file'["tte"], proc', k, proc'[d].next[k])
        BY DEF MergersHold, Holds
    <2>1. k \in Minted(output) /\ k \in Keys
        BY <1>1 DEF Minted
    <2>2. CASE d = c
        BY <1>2, <1>6, <2>1, <2>2 DEF HeldIn
    <2>3. CASE d # c
        BY <1>4, <1>5, <1>7, <2>1, <2>3 DEF Safe, MergersHold
    <2> QED  BY <2>2, <2>3
<1>13. AggregateHolds'
    <2> SUFFICES ASSUME NEW d \in Commands, proc'[d].pc \in Holding, agg' # Empty, NEW k \in Minted(output')
                 PROVE  agg'[k] # Absent /\ HeldIn(file'["tte"], proc', k, agg'[k])
        BY DEF AggregateHolds, Empty, Holding, Holds
    <2>1. proc'[d] = proc[d] /\ k \in Minted(output) /\ k \in Keys
        BY <1>1, <1>2, <1>5 DEF Minted, Holding
    <2> QED  BY <1>1, <1>4, <1>7, <2>1 DEF Safe, AggregateHolds
<1>14. VolumesHold'
    BY <1>1, <1>4, <1>7 DEF Safe, VolumesHold, Holds
<1> QED  BY <1>9, <1>10, <1>11, <1>12, <1>13, <1>14 DEF Safe

SafeInv == TypeOK /\ Shapes /\ ("tte" \notin damaged => Safe)

LEMMA SafeInit == Init => SafeInv
<1> SUFFICES ASSUME Init PROVE SafeInv  OBVIOUS
<1>1. TypeOK
    BY TypeInit
<1>2. \A c \in Commands : proc[c].cmd = "none" /\ proc[c].pc = "idle"
    BY <1>1, TypeParts DEF Init
<1>3. Shapes
    BY <1>2 DEF Shapes, Shape, Bringers, Holding
<1>4. OneDocument /\ OneRewriter /\ RewritersCover /\ MergersHold /\ AggregateHolds
    BY <1>2 DEF OneDocument, OneRewriter, RewritersCover, MergersHold, AggregateHolds, Rewriting,
                Bringers, Holding
<1>5. VolumesHold
    BY DEF VolumesHold, Init, Empty
<1> QED  BY <1>1, <1>3, <1>4, <1>5 DEF SafeInv, Safe

LEMMA SafeStep == SafeInv /\ [Next]_vars => SafeInv'
<1> SUFFICES ASSUME SafeInv, [Next]_vars PROVE SafeInv'  OBVIOUS
<1>1. TypeOK /\ Shapes /\ ("tte" \notin damaged => Safe)
    BY DEF SafeInv
<1>2. TypeOK'
    BY <1>1, TypeStep
<1>3. ASSUME UNCHANGED <<output, file, agg, volume, proc, damaged>> PROVE SafeInv'
    <2>1. Shapes'
        BY <1>1, <1>3 DEF Shapes
    <2>2. ASSUME Safe PROVE Safe'
        BY <1>3, <2>2
        DEF Safe, OneDocument, OneRewriter, RewritersCover, MergersHold, AggregateHolds, VolumesHold,
            Holds, HeldIn, Rewriting, Writes, Minted
    <2> QED  BY <1>1, <1>2, <1>3, <2>1, <2>2 DEF SafeInv
<1>4. CASE UNCHANGED vars
    BY <1>3, <1>4 DEF vars, files, host
<1>5. ASSUME NEW c \in Commands, Calm(c) PROVE SafeInv'
    BY <1>1, <1>2, <1>5, CalmSafe DEF SafeInv
<1>6. ASSUME NEW c \in Commands, NEW cmd \in Bringers \cup {"down"}, StartStackCommand(c, cmd)
      PROVE  SafeInv'
    BY <1>1, <1>2, <1>6, StackSafe DEF SafeInv
<1>7. ASSUME NEW c \in Commands, NEW cmd \in {"scaffold", "set", "copy"}, NEW cat \in {"secret", "config"},
             NEW k \in Keys, StartFileCommand(c, cmd, cat, k)
      PROVE  SafeInv'
    BY <1>1, <1>5, <1>7, CalmActions
<1>8. ASSUME NEW c \in Commands, Step(c) PROVE SafeInv'
    <2>1. CASE ReadStore(c)
        BY <1>1, <1>2, <2>1, ReadStoreSafe DEF SafeInv
    <2>2. CASE (Truncate(c) \/ Write(c)) /\ proc[c].cat = "tte"
        BY <1>1, <1>2, <2>2, RewriteSafe DEF SafeInv
    <2>3. CASE ~ReadStore(c) /\ ~((Truncate(c) \/ Write(c)) /\ proc[c].cat = "tte")
        BY <1>1, <1>5, <1>8, <2>3, CalmActions DEF Step
    <2> QED  BY <2>1, <2>2, <2>3
<1>9. ASSUME NEW c \in Commands, Kill(c) \/ Fail(c) PROVE SafeInv'
    BY <1>1, <1>5, <1>9, CalmActions
<1>10. ASSUME NEW doc \in Documents, Edit(doc) PROVE SafeInv'
    BY <1>3, <1>10 DEF Edit, host
<1> QED  BY <1>4, <1>6, <1>7, <1>8, <1>9, <1>10 DEF Next

\* Two values of one key cannot both be the one that the store holds.
LEMMA HeldOnce ==
    ASSUME TypeOK, Safe, NEW k \in Keys, NEW v, NEW w, v # Absent, w # Absent, Holds(k, v), Holds(k, w)
    PROVE  v = w
<1>1. \A c, d \in Commands : Writes(c) /\ Writes(d) => c = d
    BY DEF Safe, OneRewriter, Rewriting, Writes, Writer
<1>2. \A c \in Commands : Writes(c) => file["tte"][k] = Absent
    BY DEF Safe, RewritersCover, Rewriting, Writes, Writer
<1> QED  BY <1>1, <1>2 DEF Holds, HeldIn, Writes

\* While no two commands rewrite the store at once and none is killed between
\* the truncation and the write (tte/engine.py, envfile.py), the credential that
\* an engine's data volume was made with stays in the store.
THEOREM CredentialsSurvive == Spec => []CredentialSurvives
<1>1. SafeInv => CredentialSurvives
    <2> SUFFICES ASSUME SafeInv, "tte" \notin damaged, NEW k \in Keys, volume[k] \in Values
                 PROVE  \/ file["tte"][k] = volume[k]
                        \/ \E c \in Commands : At(c, "write") /\ proc[c].cat = "tte" /\ proc[c].next[k] = volume[k]
        BY DEF CredentialSurvives
    <2>1. volume[k] # Absent
        BY DEF Values, Absent
    <2>2. Holds(k, volume[k])
        BY <2>1 DEF SafeInv, Safe, VolumesHold
    <2> QED  BY <2>2 DEF Holds, HeldIn, Writer, At
<1> QED  BY <1>1, SafeInit, SafeStep, PTL DEF Spec

\* A migration logs in with the credential the engine was made with, as long as
\* the aggregate is not one that another command has just truncated.
THEOREM LoginsWork == Spec => NeverLockedOut
<1> DEFINE A == \A c \in Commands :
                   Migrate(c) /\ "tte" \notin damaged /\ agg # Empty =>
                       \A k \in SchemaKeys \cap Minted(output) : agg[k] = volume'[k]
<1>1. SafeInv => A
    <2> SUFFICES ASSUME SafeInv, NEW c \in Commands, Migrate(c), "tte" \notin damaged, agg # Empty,
                        NEW k \in SchemaKeys \cap Minted(output)
                 PROVE  agg[k] = volume'[k]
        OBVIOUS
    <2>1. TypeOK /\ Safe /\ proc[c].pc = "migrate" /\ volume' = Started(output, agg)
          /\ k \in Keys /\ k \in Minted(output)
        BY DEF SafeInv, Migrate, At, Minted
    <2>2. agg[k] # Absent /\ Holds(k, agg[k])
        BY <2>1 DEF Safe, AggregateHolds, Holding
    <2>3. CASE volume[k] = Absent
        BY <2>1, <2>3 DEF Started, Minted
    <2>4. CASE volume[k] # Absent
        <3>1. Holds(k, volume[k])
            BY <2>1, <2>4 DEF Safe, VolumesHold
        <3>2. volume[k] = agg[k]
            BY <2>1, <2>2, <2>4, <3>1, HeldOnce
        <3> QED  BY <2>1, <2>4, <3>2 DEF Started
    <2> QED  BY <2>3, <2>4
<1>2. SafeInv => [A]_vars
    BY <1>1
<1>3. Spec => [][A]_vars
    BY <1>2, SafeInit, SafeStep, PTL DEF Spec
<1> QED  BY <1>3 DEF NeverLockedOut

-----------------------------------------------------------------------------
(* What keeps the values an operator gave: while a file of theirs is not    *)
(* damaged at most one command rewrites it, and what that command will      *)
(* write has every value it has been told to keep.                          *)

OperatorFiles == {"secret", "config"}
Editors == {"scaffold", "set", "copy"}

\* Only an editor works on a file of the operator's.
Edits(p) == p.cat # "tte" => p.cmd \in Editors
WritesTo(c, cat) == At(c, "write") /\ proc[c].cat = cat

\* What p will write for k is what the operator was told, or p changes just
\* that key, or drops it.
Respects(p, k) ==
    \/ p.next[k] = given[p.cat][k]
    \/ p.cmd # "scaffold" /\ p.key = k
    \/ p.cmd = "scaffold" /\ p.doc[k] # p.cat

FileKept(cat) ==
    /\ \A c, d \in Commands : Rewriting(c, cat) /\ Rewriting(d, cat) => c = d
    /\ \A c \in Commands : Rewriting(c, cat) =>
            \A k \in Keys : given[cat][k] # Absent => Respects(proc[c], k)
    /\ (\A c \in Commands : ~WritesTo(c, cat)) =>
            \A k \in Keys : given[cat][k] # Absent => file[cat][k] = given[cat][k]

GivenInv ==
    /\ TypeOK /\ Shapes
    /\ \A c \in Commands : Edits(proc[c])
    /\ \A cat \in OperatorFiles \ damaged : FileKept(cat)

\* A step of c that leaves the file, and what is said to be in it, alone.
LEMMA AsideKeeps ==
    ASSUME NEW cat \in OperatorFiles, FileKept(cat), NEW c \in Commands, Alone(c),
           ~WritesTo(c, cat), ~Rewriting(c, cat)', file'[cat] = file[cat], given'[cat] = given[cat]
    PROVE  FileKept(cat)'
<1>1. \A d \in Commands : Rewriting(d, cat)' => d # c /\ Rewriting(d, cat) /\ proc'[d] = proc[d]
    BY DEF Alone, Rewriting
<1>2. \A d \in Commands, e \in Commands : Rewriting(d, cat)' /\ Rewriting(e, cat)' => d = e
    BY <1>1 DEF FileKept
<1>3. ASSUME NEW d \in Commands, Rewriting(d, cat)', NEW k \in Keys, given'[cat][k] # Absent
      PROVE  Respects(proc[d], k)'
    <2>1. Respects(proc[d], k) /\ proc[d].cat = cat /\ proc'[d] = proc[d]
        BY <1>1, <1>3 DEF FileKept, Rewriting
    <2> QED  BY <2>1 DEF Respects
<1>4. (\A d \in Commands : ~WritesTo(d, cat)') => (\A d \in Commands : ~WritesTo(d, cat))
    BY DEF Alone, WritesTo, At
<1> QED  BY <1>2, <1>3, <1>4 DEF FileKept

\* A command that begins to rewrite a file nobody else is rewriting.
LEMMA EditReads ==
    ASSUME TypeOK, NEW cat \in OperatorFiles, FileKept(cat), NEW c \in Commands, ReadForEdit(c),
           proc[c].cat = cat, cat \notin damaged'
    PROVE  FileKept(cat)'
<1>1. /\ Alone(c) /\ proc'[c].cmd = proc[c].cmd /\ proc'[c].cat = cat
      /\ proc'[c].doc = proc[c].doc /\ proc'[c].key = proc[c].key /\ proc'[c].pc = "trunc"
      /\ proc'[c].next = IF proc[c].cmd = "scaffold" THEN Reconcile(proc[c].doc, cat, file[cat])
                         ELSE [file[cat] EXCEPT ![proc[c].key] = Fresh]
    BY ReadForEditMoves
<1>2. /\ UNCHANGED <<file, given>> /\ proc[c].pc = "read"
      /\ \A d \in Commands \ {c} : ~Rewriting(d, cat) /\ proc'[d] = proc[d]
    BY <1>1 DEF ReadForEdit, files, Races, At, Alone
<1>3. \A d \in Commands : ~WritesTo(d, cat)
    BY <1>2 DEF WritesTo, At, Rewriting
<1>4. \A k \in Keys : given[cat][k] # Absent => file[cat][k] = given[cat][k]
    BY <1>3 DEF FileKept
<1>5. file[cat] \in Contents
    BY DEF TypeOK, OperatorFiles, Categories
<1>6. ASSUME NEW k \in Keys, given'[cat][k] # Absent PROVE Respects(proc[c], k)'
    <2>1. file[cat][k] = given[cat][k] /\ given[cat][k] # Absent
        BY <1>2, <1>4, <1>6
    <2>2. CASE proc[c].cmd = "scaffold"
        <3>1. proc[c].doc[k] = cat => proc'[c].next[k] = file[cat][k]
            BY <1>1, <2>1, <2>2 DEF Reconcile
        <3> QED  BY <1>1, <1>2, <2>1, <2>2, <3>1 DEF Respects
    <2>3. CASE proc[c].cmd # "scaffold"
        <3>1. proc[c].key # k => proc'[c].next[k] = file[cat][k]
            BY <1>1, <1>5, <2>3 DEF Contents
        <3> QED  BY <1>1, <1>2, <2>1, <2>3, <3>1 DEF Respects
    <2> QED  BY <2>2, <2>3
<1>7. \A d \in Commands : Rewriting(d, cat)' => d = c
    BY <1>2 DEF Rewriting
<1> QED  BY <1>2, <1>4, <1>6, <1>7 DEF FileKept

LEMMA EditTruncates ==
    ASSUME TypeOK, NEW cat \in OperatorFiles, FileKept(cat), NEW c \in Commands, Truncate(c),
           proc[c].cat = cat
    PROVE  FileKept(cat)'
<1>1. /\ Alone(c) /\ proc'[c].cmd = proc[c].cmd /\ proc'[c].cat = cat
      /\ proc'[c].doc = proc[c].doc /\ proc'[c].key = proc[c].key /\ proc'[c].pc = "write"
      /\ proc'[c].next = proc[c].next
    BY MoveType DEF Truncate, Phases
<1>2. UNCHANGED given /\ Rewriting(c, cat)
    BY DEF Truncate, Rewriting, At
<1>3. \A d \in Commands : Rewriting(d, cat)' => Rewriting(d, cat)
    BY <1>1, <1>2 DEF Rewriting, Alone
<1>4. \A d \in Commands : Rewriting(d, cat)' => d = c
    BY <1>2, <1>3 DEF FileKept
<1>5. ASSUME NEW k \in Keys, given'[cat][k] # Absent PROVE Respects(proc[c], k)'
    <2>1. Respects(proc[c], k)
        BY <1>2, <1>5 DEF FileKept
    <2> QED  BY <1>1, <1>2, <2>1 DEF Respects
<1>6. WritesTo(c, cat)'
    BY <1>1 DEF WritesTo, At
<1> QED  BY <1>4, <1>5, <1>6 DEF FileKept

\* The file has what the operator was told before, but for the key the command
\* was about, and what it tells now.
LEMMA EditWrites ==
    ASSUME TypeOK, NEW cat \in OperatorFiles, FileKept(cat), NEW c \in Commands, Write(c),
           proc[c].cat = cat, proc[c].cmd \in Editors
    PROVE  FileKept(cat)'
<1>1. /\ Alone(c) /\ proc'[c] = Idle /\ file'[cat] = proc[c].next
      /\ given' = Acknowledged(proc[c]) /\ Rewriting(c, cat)
    <2>1. /\ Alone(c) /\ proc'[c] = Idle /\ file' = [file EXCEPT ![cat] = proc[c].next]
        BY WriteMoves DEF Editors, Bringers, Write
    <2>2. Alone(c)
        BY WriteMoves DEF Alone, Write, Ends, Editors, Bringers
    <2>3. file'[cat] = proc[c].next
        BY <2>1 DEF TypeOK, OperatorFiles, Categories
    <2> QED  BY <2>1, <2>3 DEF Write, Rewriting, At
<1>2. \A d \in Commands : ~Rewriting(d, cat)'
    <2>1. Idle.pc = "idle"
        BY TypeParts
    <2>2. \A d \in Commands \ {c} : ~Rewriting(d, cat) /\ proc'[d] = proc[d]
        BY <1>1 DEF FileKept, Alone
    <2> QED  BY <1>1, <2>1, <2>2 DEF Rewriting
<1>3. ASSUME NEW k \in Keys, given'[cat][k] # Absent PROVE file'[cat][k] = given'[cat][k]
    <2>1. given \in [Categories -> Contents] /\ cat \in Categories /\ proc[c].key \in Keys
        BY TypeParts DEF TypeOK, OperatorFiles, Categories, Procs
    <2>2. given[cat][k] # Absent => Respects(proc[c], k)
        BY <1>1 DEF FileKept
    <2>3. CASE proc[c].cmd \in {"set", "copy"}
        <3>1. given' = [given EXCEPT ![cat] = [given[cat] EXCEPT ![proc[c].key] = proc[c].next[proc[c].key]]]
            BY <1>1, <2>3 DEF Acknowledged
        <3>2. given'[cat][k] = IF k = proc[c].key THEN proc[c].next[k] ELSE given[cat][k]
            BY <2>1, <3>1 DEF Contents
        <3> QED  BY <1>1, <1>3, <2>2, <2>3, <3>2 DEF Respects
    <2>4. CASE proc[c].cmd = "scaffold"
        <3>1. given'[cat][k] = IF proc[c].doc[k] = cat THEN given[cat][k] ELSE Absent
            BY <1>1, <2>1, <2>4 DEF Acknowledged
        <3> QED  BY <1>1, <1>3, <2>2, <2>4, <3>1 DEF Respects
    <2> QED  BY <2>3, <2>4 DEF Editors
<1> QED  BY <1>2, <1>3 DEF FileKept

LEMMA GivenInit == Init => GivenInv
<1> SUFFICES ASSUME Init PROVE GivenInv  OBVIOUS
<1>1. SafeInv
    BY SafeInit
<1>2. \A c \in Commands : proc[c].cat = "tte" /\ proc[c].pc = "idle"
    BY <1>1, TypeParts DEF Init, SafeInv
<1>3. \A cat \in OperatorFiles, k \in Keys : given[cat][k] = Absent
    BY DEF Init, Empty, OperatorFiles, Categories
<1> QED  BY <1>1, <1>2, <1>3 DEF GivenInv, SafeInv, Edits, FileKept, Rewriting

LEMMA GivenStep == GivenInv /\ SafeInv' /\ [Next]_vars => GivenInv'
<1> SUFFICES ASSUME GivenInv, SafeInv', [Next]_vars PROVE GivenInv'  OBVIOUS
<1>1. /\ TypeOK /\ Shapes /\ TypeOK' /\ Shapes' /\ \A c \in Commands : Edits(proc[c])
      /\ \A cat \in OperatorFiles \ damaged : FileKept(cat)
    BY DEF GivenInv, SafeInv
<1>2. Idle.pc = "idle" /\ Idle.cat = "tte"
    BY <1>1, TypeParts
<1>3. ASSUME UNCHANGED <<proc, file, given>>, damaged \subseteq damaged' PROVE GivenInv'
    BY <1>1, <1>3 DEF GivenInv, FileKept, Edits, Respects, WritesTo, Rewriting, At
<1>4. ASSUME NEW c \in Commands, Alone(c), Edits(proc'[c]), damaged \subseteq damaged',
             \A cat \in OperatorFiles \ damaged' :
                 \/ FileKept(cat)'
                 \/ /\ ~WritesTo(c, cat) /\ ~Rewriting(c, cat)'
                    /\ file'[cat] = file[cat] /\ given'[cat] = given[cat]
      PROVE  GivenInv'
    <2>1. \A d \in Commands : Edits(proc'[d])
        BY <1>1, <1>4 DEF Alone
    <2>2. \A cat \in OperatorFiles \ damaged' : FileKept(cat)'
        BY <1>1, <1>4, AsideKeeps
    <2> QED  BY <1>1, <2>1, <2>2 DEF GivenInv
<1>5. ASSUME NEW c \in Commands, NEW cmd \in Bringers \cup {"down"}, StartStackCommand(c, cmd)
      PROVE  GivenInv'
    <2>1. Alone(c) /\ proc[c].pc = "idle" /\ proc'[c].cat = "tte"
        BY <1>1, <1>5, StackStarts
    <2>2. UNCHANGED <<file, given>> /\ damaged \subseteq damaged'
        BY <1>5 DEF StartStackCommand
    <2> QED  BY <1>4, <2>1, <2>2 DEF Edits, WritesTo, At, Rewriting, OperatorFiles
<1>6. ASSUME NEW c \in Commands, NEW cmd \in {"scaffold", "set", "copy"}, NEW cat \in {"secret", "config"},
             NEW k \in Keys, StartFileCommand(c, cmd, cat, k)
      PROVE  GivenInv'
    <2>1. Alone(c) /\ proc[c].pc = "idle" /\ proc'[c].pc = "read" /\ proc'[c].cmd = cmd
        BY <1>1, <1>6, FileStarts
    <2>2. UNCHANGED <<file, given, damaged>>
        BY <1>6 DEF StartFileCommand, files
    <2> QED  BY <1>4, <2>1, <2>2 DEF Edits, WritesTo, At, Rewriting, Editors
<1>7. ASSUME NEW c \in Commands, ReadStore(c) PROVE GivenInv'
    <2>1. Alone(c) /\ proc'[c].cat = proc[c].cat
        BY <1>1, <1>7, ReadStoreMoves
    <2>2. /\ UNCHANGED <<file, given>> /\ damaged \subseteq damaged'
          /\ proc[c].pc = "read" /\ proc[c].cmd \in Bringers
        BY <1>7 DEF ReadStore, files, At
    <2>3. proc[c].cat = "tte"
        BY <1>1, <2>2 DEF Shapes, Shape
    <2> QED  BY <1>4, <2>1, <2>2, <2>3 DEF Edits, WritesTo, At, Rewriting, OperatorFiles
<1>8. ASSUME NEW c \in Commands, ReadForEdit(c) PROVE GivenInv'
    <2>1. Alone(c) /\ proc'[c].cat = proc[c].cat /\ proc'[c].cmd = proc[c].cmd
        BY <1>1, <1>8, ReadForEditMoves
    <2>2. UNCHANGED <<file, given>> /\ damaged \subseteq damaged' /\ proc[c].pc = "read"
        BY <1>8 DEF ReadForEdit, files, At
    <2>3. Edits(proc'[c])
        BY <1>1, <2>1 DEF Edits
    <2>4. ASSUME NEW cat \in OperatorFiles \ damaged'
          PROVE  FileKept(cat)' \/ (~WritesTo(c, cat) /\ ~Rewriting(c, cat)')
        <3>1. CASE proc[c].cat = cat
            BY <1>1, <1>8, <2>2, <2>4, <3>1, EditReads
        <3>2. CASE proc[c].cat # cat
            BY <2>1, <2>2, <3>2 DEF WritesTo, At, Rewriting
        <3> QED  BY <3>1, <3>2
    <2> QED  BY <1>4, <2>1, <2>2, <2>3, <2>4
<1>9. ASSUME NEW c \in Commands, Truncate(c) PROVE GivenInv'
    <2>1. Alone(c) /\ proc'[c].cat = proc[c].cat /\ proc'[c].cmd = proc[c].cmd
        BY <1>1, <1>9, MoveType DEF Truncate, Phases
    <2>2. UNCHANGED <<given, damaged>> /\ file' = [file EXCEPT ![proc[c].cat] = Empty]
        BY <1>9 DEF Truncate
    <2>3. Edits(proc'[c])
        BY <1>1, <2>1 DEF Edits
    <2>4. ASSUME NEW cat \in OperatorFiles \ damaged'
          PROVE  \/ FileKept(cat)'
                 \/ ~WritesTo(c, cat) /\ ~Rewriting(c, cat)' /\ file'[cat] = file[cat]
        <3>1. CASE proc[c].cat = cat
            BY <1>1, <1>9, <2>2, <2>4, <3>1, EditTruncates
        <3>2. CASE proc[c].cat # cat
            BY <1>1, <2>1, <2>2, <3>2 DEF WritesTo, Rewriting, TypeOK, OperatorFiles, Categories
        <3> QED  BY <3>1, <3>2
    <2> QED  BY <1>4, <2>1, <2>2, <2>3, <2>4
<1>10. ASSUME NEW c \in Commands, Write(c) PROVE GivenInv'
    <2>1. /\ Alone(c)
          /\ \/ proc[c].cmd \in Bringers /\ proc'[c].cat = proc[c].cat /\ proc'[c].cmd = proc[c].cmd
                /\ proc'[c].pc = "aggregate"
             \/ proc[c].cmd \notin Bringers /\ proc'[c] = Idle
          /\ file' = [file EXCEPT ![proc[c].cat] = proc[c].next] /\ damaged' = damaged
          /\ given' = Acknowledged(proc[c])
        BY <1>1, <1>10, WriteMoves DEF Write
    <2>2. Edits(proc'[c]) /\ \A cat \in Categories : ~Rewriting(c, cat)'
        BY <1>1, <1>2, <2>1 DEF Edits, Rewriting
    <2>3. ASSUME NEW cat \in OperatorFiles \ damaged'
          PROVE  \/ FileKept(cat)'
                 \/ ~WritesTo(c, cat) /\ file'[cat] = file[cat] /\ given'[cat] = given[cat]
        <3>1. CASE proc[c].cat = cat
            <4>1. proc[c].cmd \in Editors
                BY <1>1, <3>1 DEF Edits, OperatorFiles
            <4> QED  BY <1>1, <1>10, <2>1, <2>3, <3>1, <4>1, EditWrites
        <3>2. CASE proc[c].cat # cat
            <4>1. given'[cat] = given[cat]
                BY <1>1, <2>1, <3>2 DEF Acknowledged, TypeOK, OperatorFiles, Categories
            <4>2. file'[cat] = file[cat]
                BY <1>1, <2>1, <3>2 DEF TypeOK, OperatorFiles, Categories
            <4> QED  BY <3>2, <4>1, <4>2 DEF WritesTo
        <3> QED  BY <3>1, <3>2
    <2> QED  BY <1>4, <2>1, <2>2, <2>3 DEF OperatorFiles, Categories
<1>11. ASSUME NEW c \in Commands,
              Ends(c) \/ \E pc \in Phases \ {"trunc", "write"} : Goto(c, pc),
              UNCHANGED <<file, given>>, damaged \subseteq damaged',
              \A cat \in OperatorFiles \ damaged' : ~WritesTo(c, cat)
       PROVE  GivenInv'
    <2>1. /\ Alone(c)
          /\ \/ proc'[c] = Idle
             \/ /\ proc'[c].cat = proc[c].cat /\ proc'[c].cmd = proc[c].cmd
                /\ proc'[c].pc \notin {"trunc", "write"}
        BY <1>1, <1>11, MoveType
    <2>2. Edits(proc'[c]) /\ \A cat \in OperatorFiles : ~Rewriting(c, cat)'
        BY <1>1, <1>2, <2>1 DEF Edits, Rewriting
    <2> QED  BY <1>4, <1>11, <2>1, <2>2
<1>12. ASSUME NEW c \in Commands, Merge(c) \/ Publish(c) PROVE GivenInv'
    <2>1. /\ Alone(c)
          /\ \/ Ends(c)
             \/ /\ proc'[c].cat = proc[c].cat /\ proc'[c].cmd = proc[c].cmd
                /\ proc'[c].pc \in {"publish", "initial", "ps", "migrate"}
        BY <1>1, <1>12, MergeMoves, PublishMoves
    <2>2. UNCHANGED <<file, given, damaged>> /\ proc[c].pc \in {"aggregate", "publish"}
        BY <1>12 DEF Merge, Publish, At
    <2>3. CASE Ends(c)
        BY <1>11, <2>2, <2>3 DEF WritesTo, At
    <2>4. CASE ~Ends(c)
        BY <1>1, <1>4, <2>1, <2>2, <2>4 DEF Edits, WritesTo, At, Rewriting
    <2> QED  BY <2>3, <2>4
<1>13. ASSUME NEW c \in Commands,
              \/ BeginInitialBuild(c) \/ FinishInitialBuild(c) \/ ComposeUp(c) \/ Migrate(c)
              \/ CheckRunning(c) \/ Clear(c) \/ Fill(c) \/ Down(c)
       PROVE  GivenInv'
    <2>1. Ends(c) \/ \E pc \in Phases \ {"trunc", "write"} : Goto(c, pc)
        BY <1>13 DEF BeginInitialBuild, FinishInitialBuild, ComposeUp, Migrate, CheckRunning, Clear,
                     Fill, Down, Phases
    <2>2. UNCHANGED <<file, given>> /\ damaged \subseteq damaged' /\ proc[c].pc # "write"
        BY <1>13
        DEF BeginInitialBuild, FinishInitialBuild, ComposeUp, Migrate, CheckRunning, Clear, Fill,
            Down, files, At
    <2> QED  BY <1>11, <2>1, <2>2 DEF WritesTo, At
<1>14. ASSUME NEW c \in Commands, Kill(c) \/ Fail(c) PROVE GivenInv'
    <2>1. Ends(c) /\ UNCHANGED <<file, given>> /\ damaged' = damaged \cup LeftBy(c)
        BY <1>14 DEF Kill, Fail, files
    <2>2. \A cat \in OperatorFiles \ damaged' : ~WritesTo(c, cat)
        BY <2>1 DEF LeftBy, WritesTo, At
    <2> QED  BY <1>11, <2>1, <2>2
<1>15. ASSUME NEW doc \in Documents, Edit(doc) PROVE GivenInv'
    BY <1>3, <1>15 DEF Edit
<1>16. CASE UNCHANGED vars
    BY <1>3, <1>16 DEF vars
<1> QED
    BY <1>5, <1>6, <1>7, <1>8, <1>9, <1>10, <1>12, <1>13, <1>14, <1>15, <1>16 DEF Next, Step

\* A value that set or copy has acknowledged (secrets/engine.py, envfile.py) is
\* in its file until the key is set again or scaffold finds it undeclared: no
\* other command's rewrite of the file loses it.
THEOREM GivenValuesKept == Spec => []GivenValueKept
<1>1. GivenInv => GivenValueKept
    <2> SUFFICES ASSUME GivenInv, NEW cat \in {"secret", "config"} \ damaged, NEW k \in Keys,
                        given[cat][k] # Absent
                 PROVE  \/ file[cat][k] = given[cat][k]
                        \/ \E c \in Commands : At(c, "write") /\ proc[c].cat = cat
                               /\ \/ proc[c].next[k] = given[cat][k]
                                  \/ proc[c].cmd # "scaffold" /\ proc[c].key = k
                                  \/ proc[c].cmd = "scaffold" /\ proc[c].doc[k] # cat
        BY DEF GivenValueKept
    <2>1. FileKept(cat)
        BY DEF GivenInv, OperatorFiles
    <2>2. CASE \A c \in Commands : ~WritesTo(c, cat)
        BY <2>1, <2>2 DEF FileKept
    <2>3. ASSUME NEW c \in Commands, WritesTo(c, cat)
          PROVE  At(c, "write") /\ proc[c].cat = cat /\ Respects(proc[c], k)
        BY <2>1, <2>3 DEF FileKept, Rewriting, WritesTo, At
    <2> QED  BY <2>2, <2>3 DEF Respects
<1> QED  BY <1>1, GivenInit, GivenStep, SafeInit, SafeStep, PTL DEF Spec

-----------------------------------------------------------------------------
(* What is in dist/ when the dev containers start.                          *)

Filling == {"copy", "fill"}
AtWork == \E c \in Commands : proc[c].pc \in Filling

\* A half-filled dist/ is being filled, and who goes on to start the containers
\* has seen a full one or one that is.
DistInv ==
    "dist" \notin damaged =>
        /\ dist = "part" => AtWork
        /\ \A c \in Commands : At(c, "compose") => dist = "full" \/ AtWork

LEMMA DistStep == TypeOK /\ DistInv /\ [Next]_vars => DistInv'
<1> SUFFICES ASSUME TypeOK, DistInv, [Next]_vars, "dist" \notin damaged'
             PROVE  /\ dist' = "part" => AtWork'
                    /\ \A c \in Commands : At(c, "compose")' => dist' = "full" \/ AtWork'
    BY DEF DistInv
<1> DEFINE Good == /\ dist' = "part" => AtWork'
                   /\ \A c \in Commands : At(c, "compose")' => dist' = "full" \/ AtWork'
<1>1. Idle.pc = "idle" /\ dist \in {"empty", "part", "full"}
    BY TypeParts DEF TypeOK
<1>2. ASSUME dist' = "full" PROVE Good
    BY <1>2
\* A step that is not about dist/.
<1>3. ASSUME NEW c \in Commands, Alone(c), dist' = dist, damaged \subseteq damaged',
             proc[c].pc \notin Filling, proc'[c].pc # "compose"
      PROVE  Good
    <2>1. AtWork => AtWork'
        BY <1>3 DEF AtWork, Alone
    <2> QED  BY <1>3, <2>1 DEF DistInv, At, Alone
<1>4. ASSUME UNCHANGED <<dist, proc, damaged>> PROVE Good
    BY <1>4 DEF DistInv, At, AtWork
<1>5. ASSUME NEW c \in Commands, NEW cmd \in Bringers \cup {"down"}, StartStackCommand(c, cmd) PROVE Good
    <2>1. Alone(c) /\ proc[c].pc = "idle" /\ proc'[c].pc # "compose"
        BY <1>5, StackStarts
    <2> QED  BY <1>3, <1>5, <2>1 DEF StartStackCommand, host, Filling
<1>6. ASSUME NEW c \in Commands, NEW cmd \in {"scaffold", "set", "copy"}, NEW cat \in {"secret", "config"},
             NEW k \in Keys, StartFileCommand(c, cmd, cat, k)
      PROVE  Good
    <2>1. Alone(c) /\ proc[c].pc = "idle" /\ proc'[c].pc # "compose"
        BY <1>6, FileStarts
    <2> QED  BY <1>3, <1>6, <2>1 DEF StartFileCommand, host, Filling
<1>7. ASSUME NEW c \in Commands,
             ReadStore(c) \/ ReadForEdit(c) \/ Truncate(c) \/ Write(c) \/ Merge(c) \/ Publish(c)
      PROVE  Good
    <2>1. Alone(c) /\ proc'[c].pc # "compose"
        BY <1>1, <1>7, ReadStoreMoves, ReadForEditMoves, WriteMoves, MergeMoves, PublishMoves, MoveType
        DEF Truncate, Phases
    <2>2. proc[c].pc \notin Filling /\ dist' = dist /\ damaged \subseteq damaged'
        BY <1>7 DEF ReadStore, ReadForEdit, Truncate, Write, Merge, Publish, host, At, Filling
    <2> QED  BY <1>3, <2>1, <2>2
<1>8. ASSUME NEW c \in Commands, ComposeUp(c) \/ Migrate(c) \/ CheckRunning(c) \/ Down(c) PROVE Good
    <2>1. Ends(c) \/ Goto(c, "migrate") \/ Goto(c, "clear")
        BY <1>8 DEF ComposeUp, Migrate, CheckRunning, Down
    <2>2. Alone(c) /\ proc'[c].pc # "compose"
        BY <1>1, <2>1, MoveType DEF Phases
    <2>3. proc[c].pc \notin Filling /\ dist' = dist /\ damaged' = damaged
        BY <1>8 DEF ComposeUp, Migrate, CheckRunning, Down, host, At, Filling
    <2> QED  BY <1>3, <2>2, <2>3
<1>9. ASSUME NEW c \in Commands, BeginInitialBuild(c) PROVE Good
    <2>1. CASE dist # "empty"
        <3>1. Alone(c) /\ proc[c].pc = "initial" /\ UNCHANGED <<dist, damaged>>
            BY <1>9, <2>1, MoveType DEF BeginInitialBuild, Phases, At
        <3>2. AtWork => AtWork'
            BY <3>1 DEF AtWork, Alone, Filling
        <3> QED  BY <1>1, <2>1, <3>1, <3>2 DEF DistInv
    <2>2. CASE Goto(c, "copy")
        <3>1. proc'[c].pc = "copy"
            BY <2>2, MoveType DEF Phases
        <3> QED  BY <3>1 DEF AtWork, Filling
    <2>3. CASE Ends(c) /\ UNCHANGED dist
        <3>1. Alone(c) /\ proc'[c].pc # "compose"
            BY <1>1, <2>3, MoveType
        <3>2. proc[c].pc \notin Filling /\ damaged' = damaged
            BY <1>9 DEF BeginInitialBuild, At, Filling
        <3> QED  BY <1>3, <2>3, <3>1, <3>2
    <2> QED  BY <1>9, <2>1, <2>2, <2>3 DEF BeginInitialBuild
<1>10. ASSUME NEW c \in Commands, FinishInitialBuild(c) \/ Fill(c) PROVE Good
    BY <1>2, <1>10 DEF FinishInitialBuild, Fill
<1>11. ASSUME NEW c \in Commands, Clear(c) PROVE Good
    <2>1. dist' = "empty" /\ proc'[c].pc = "fill"
        BY <1>11, MoveType DEF Clear, Phases
    <2> QED  BY <2>1 DEF AtWork, Filling
<1>12. ASSUME NEW c \in Commands, Kill(c) \/ Fail(c) PROVE Good
    <2>1. Alone(c) /\ proc'[c].pc # "compose" /\ damaged \subseteq damaged'
        BY <1>1, <1>12, MoveType DEF Kill, Fail
    <2>2. proc[c].pc \notin Filling
        BY <1>12 DEF Kill, Fail, LeftBy, At, Filling
    <2>3. dist' = dist
        BY <1>12, <2>2 DEF Kill, Fail, host, At, Filling
    <2> QED  BY <1>3, <2>1, <2>2, <2>3
<1>13. ASSUME NEW doc \in Documents, Edit(doc) PROVE Good
    BY <1>4, <1>13 DEF Edit, host
<1>14. CASE UNCHANGED vars
    BY <1>4, <1>14 DEF vars, host
<1> QED
    BY <1>5, <1>6, <1>7, <1>8, <1>9, <1>10, <1>11, <1>12, <1>13, <1>14 DEF Next, Step

\* A bring-up starts its dev containers on a complete dist/ (orchestrate/up.py),
\* or beside a command that is completing it, unless a build or the initial
\* copy was broken off or a build cleared it under them.
THEOREM ArtifactsAreServed == Spec => DevServesArtifacts
<1> DEFINE A == \A c \in Commands : ComposeUp(c) /\ "dist" \notin damaged =>
                    \/ dist = "full"
                    \/ \E d \in Commands \ {c} : proc[d].pc \in {"copy", "fill"}
<1>1. Init => DistInv
    <2> SUFFICES ASSUME Init PROVE DistInv  OBVIOUS
    <2>1. \A c \in Commands : proc[c].pc = "idle"
        BY TypeInit, TypeParts DEF Init
    <2> QED  BY <2>1 DEF DistInv, Init, At
<1>2. DistInv => [A]_vars
    BY DEF DistInv, AtWork, Filling, ComposeUp, At
<1>3. Spec => [][A]_vars
    BY <1>1, <1>2, TypeInit, TypeStep, DistStep, PTL DEF Spec
<1> QED  BY <1>3 DEF DevServesArtifacts

=============================================================================
