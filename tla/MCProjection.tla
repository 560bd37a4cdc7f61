---------------------------- MODULE MCProjection ----------------------------
(***************************************************************************)
(* Small instances of the kernel on vectors, in both modes, and of the     *)
(* transcripts.  A behaviour has one focus.  Either the agents come and    *)
(* go: two under root, whose entries are inserted, removed and inserted    *)
(* again, with a grant and a crossing.  Or one agent calls tools, with     *)
(* policies whose lists are unsorted and repeat a kind, in enforce or in   *)
(* monitor mode.  Or transcripts are hashed.                               *)
(***************************************************************************)
EXTENDS StateProjection, Transcript

VARIABLE focus     \* "agents", "hashing", or the mode of the calls

CONSTANTS a1, a2, k1, k2, net, ipc, t1, t2, i1, i2, e1, e2, x1, d1, h1, digest1

ids == <<Root, a1, a2, d1, e1, e2, h1, i1, i2, t1, t2, x1>>

place(order, x) == CHOOSE i \in DOMAIN order : order[i] = x

MCutf8(x) == place(ids, x)

MCtag(x) == place(<<k1, k2, net, ipc>>, x)

MCCapOrder == SelectSeq(<<k1, k2>>, LAMBDA k : k \in CapKind)

MCAllow == [e \in {net} |-> 0]

MCInspect == [e \in {net, ipc} |-> 1]

PolicyWith(oconf, egress) ==
    [tool |-> t1, required_caps |-> <<k1, k1>>, conf_clearance |-> 2, integ_floor |-> 1,
     integ_inspect |-> 0, output_conf |-> oconf, output_integ |-> 2,
     declared_egress |-> egress, policy_digest |-> digest1]

MCPolicyN == {PolicyWith(0, <<ipc, net, ipc>>)}

MCEgressLists == {<<net>>, <<ipc, net, ipc>>}

MCInspections ==
    [id : {e1}, inv : {i1}, challenge : ChallengeId, args_hash : {h1},
     policy_digest : {digest1}, positive : {TRUE}]

MCResolutions == [id : {e1}, inv : {i1}, outcome : {"success"}]

OneProvenance == {<<1, 1>>}

Evidence ==
    [id |-> e2, output |-> h1, src |-> a1, rcv |-> a2, descriptor |-> h1,
     assignment |-> d1, positive |-> TRUE]

Request(evidence) ==
    [src |-> a1, rcv |-> a2, crossing |-> x1, output_hash |-> h1, descriptor |-> h1,
     fallback |-> "release_unendorsed", t_integ |-> 2, t_conf |-> 2, assignment |-> d1,
     evidence |-> evidence, released_conf |-> 2, released_integ |-> 2]

Requests == {Request(None), Request(Evidence)}

----------------------------------------------------------------------------
Monitor == INSTANCE StateProjection WITH Mode <- "monitor"

FocusInit == Init /\ HashInit /\ focus \in {"agents", "enforce", "monitor", "hashing"}

(* Bound on the agents' turn: no tool, one capability to pass on, and      *)
(* nothing ingested by root.                                               *)
AgentsOnly ==
    /\ tool_registered' = << >>
    /\ \A i \in DOMAIN taint_levels' : taint_levels'[i][1] # Root
    /\ \A i \in DOMAIN agent_cap' : agent_cap'[i][1] # Root => k2 \notin ToSet(agent_cap'[i][2])

(* Bound on the calls' turn: one agent, no grant, and in monitor mode one  *)
(* tool.                                                                   *)
CallsOnly ==
    /\ a2 \notin ToSet(agent_active')
    /\ focus = "monitor" => t2 \notin ToSet(tool_registered')
    /\ crossing_grants' = << >>

FocusNext ==
    /\ \/ /\ \/ focus = "agents" /\ Next /\ AgentsOnly
             \/ focus = "enforce" /\ Next /\ CallsOnly
             \/ focus = "monitor" /\ Monitor!Next /\ CallsOnly
          /\ UNCHANGED hashed
       \/ focus = "hashing" /\ HashNext /\ UNCHANGED vars
    /\ UNCHANGED focus

FocusSpec == FocusInit /\ [][FocusNext]_<<vars, hashed, focus>>

(* The code on vectors does what Kernel says: every transition, with its   *)
(* loops, rebuilt maps and converted lists, changes the sets and maps the  *)
(* vectors stand for exactly as one transition of Kernel in the same mode. *)
(* "Order is not observable", as collections.rs puts it.                   *)
ImplementsKernel ==
    /\ K!Init
    /\ [][IF focus = "monitor" THEN Monitor!K!Next ELSE K!Next]_(K!vars)

----------------------------------------------------------------------------
(* The transcripts that could be confused: for each struct the values that *)
(* differ from a first one in two neighbouring fields, with texts that are *)
(* prefixes of each other, and lists with another order or a repetition.   *)
Plain(kind) ==
    CASE kind = "string"     -> <<<<97>>, <<97, 97>>>>
      [] kind = "bool"       -> <<FALSE, TRUE>>
      [] kind = "u32"        -> <<1, 257, 65537>>
      [] kind = "cap_set"    -> <<<<"ipc">>, <<"ipc", "clipboard">>, <<"clipboard", "ipc">>>>
      [] kind = "egress_set" -> <<<<"ipc">>, << >>, <<"ipc", "network_external", "ipc">>,
                                  <<"network_external", "ipc">>>>
      [] OTHER               -> <<Enums[kind][1], Last(Enums[kind])>>

(* The values of a struct that differ from its first one in at most two    *)
(* neighbouring fields.                                                    *)
Near(fields, Values(_)) ==
    LET options(f) == Values(f.kind) \union IF f.optional THEN {Absent} ELSE {}
        base == [n \in {fields[i].name : i \in DOMAIN fields} |->
                    LET i == CHOOSE i \in DOMAIN fields : fields[i].name = n
                    IN  CHOOSE v \in Values(fields[i].kind) : TRUE]
        near(f, g) == {[base EXCEPT ![f.name] = v, ![g.name] = w] :
                            v \in options(f), w \in options(g)}
    IN  UNION {near(fields[i], fields[IF i < Len(fields) THEN i + 1 ELSE i]) :
                   i \in DOMAIN fields}

PlainValues(kind) == ToSet(Plain(kind))

StructValues(kind) ==
    IF kind \in DOMAIN Structs THEN Near(Structs[kind], PlainValues) ELSE PlainValues(kind)

FieldValues(kind) ==
    IF kind = "input" THEN Near(CrossInputN, StructValues) ELSE StructValues(kind)

Commands(op) == {[op |-> op] @@ c : c \in Near(CommandFields[op], FieldValues)}

Actions(op) == {[op |-> op] @@ a : a \in Near(ActionFields[op], PlainValues)}

(* Links that differ in the command, in the action, or before both.        *)
SomeCommand(op) == CHOOSE c \in Commands(op) : TRUE

SomeAction(op) == CHOOSE a \in Actions(op) : TRUE

Link(previous, sequence, command, action) ==
    [previous |-> [i \in 1 .. 32 |-> previous], sequence |-> sequence,
     command |-> command, action |-> action]

MCLinks ==
    UNION {{Link(0, 1, c, SomeAction(op)) : c \in Commands(op)}
           \union {Link(0, 1, SomeCommand(op), a) : a \in Actions(op)} : op \in ToSet(Operations)}
    \union {Link(p, s, SomeCommand("revoke"), SomeAction("revoke")) : p \in {0, 1}, s \in {1, 256}}

(* Ceilings with a key absent, None, or at a level, at either end.         *)
Ceilings ==
    LET keys == {Head(Enums.egress), Last(Enums.egress)}
    IN  {<< >>} \union UNION {[ks -> {Absent, "public", "restricted"}] : ks \in {{k} : k \in keys} \union {keys}}

MCBackgrounds ==
    [mode : ToSet(Enums.mode), allow_ceiling : {<< >>, [ipc |-> "public"]}, inspect_ceiling : Ceilings]
    \union [mode : {"enforce"}, allow_ceiling : Ceilings, inspect_ceiling : {<< >>}]

(* The bytes that chain.rs pins for one background, after the root.        *)
ASSUME PinnedGenesis ==
    write_background(
        [mode |-> "monitor",
         allow_ceiling |-> [network_external |-> "internal", network_internal |-> Absent,
                            filesystem_write |-> "restricted", ipc |-> "public"],
         inspect_ceiling |-> [network_external |-> "sensitive", network_internal |-> "public",
                              filesystem_write |-> Absent, ipc |-> "internal"]])
    = <<1, 1, 1, 0, 1, 3, 1, 0, 1, 2, 1, 0, 0, 1, 1>>
=============================================================================
