----------------------------- MODULE Transcript -----------------------------
(***************************************************************************)
(* The bytes a digest is computed from (chain.rs).  A genesis or a link of *)
(* the chain is written as one flat run of bytes and hashed; what keeps    *)
(* two different histories apart is that run alone, so it must say what it *)
(* covers without ambiguity, and say the same for two commands that mean   *)
(* the same to the kernel.                                                 *)
(*                                                                         *)
(* Text is the sequence of its UTF-8 bytes.  The structs are tables of     *)
(* their fields in the order in which they are written; an absent Option   *)
(* is Absent.  A digest is 32 bytes and SHA-256, which maps these bytes to   *)
(* one, is external.                                                       *)
(***************************************************************************)
EXTENDS Integers, Wire

CONSTANTS Backgrounds,    \* the BackgroundN values compared
          Links           \* records of previous, sequence, command and action

VARIABLE hashed     \* the transcript written, with what it covers, until finished

----------------------------------------------------------------------------
(* Primitive values.                                                       *)

Enums ==
    [conf |-> <<"public", "internal", "sensitive", "restricted">>,
     integ |-> <<"untrusted", "standard", "trusted", "attested">>,
     egress |-> <<"network_external", "network_internal", "filesystem_write", "ipc">>,
     cap |-> <<"filesystem_read", "filesystem_write", "filesystem_delete", "network_egress",
               "network_ingress", "execution_shell", "execution_code", "credentials",
               "system_info", "system_modify", "clipboard", "browser_navigate",
               "database_read", "database_write", "ipc">>,
     verdict |-> <<"allow", "inspection_required", "deny">>,
     disposition |-> <<"permitted", "blocked", "monitor_bypassed">>,
     mode |-> <<"enforce", "monitor">>,
     outcome |-> <<"success", "failure", "ambiguous">>,
     fallback |-> <<"fail", "release_unendorsed">>,
     branch |-> <<"endorsed", "unendorsed", "fail">>]

canonical_tag(enum, value) ==
    (CHOOSE i \in DOMAIN Enums[enum] : Enums[enum][i] = value) - 1

u8(n) == <<n>>

u32(n) == <<n \div 2^24, (n \div 2^16) % 256, (n \div 2^8) % 256, n % 256>>

(* The upper half of every sequence number that is written is zero.        *)
u64(n) == <<0, 0, 0, 0>> \o u32(n)

(* Faulty variant: the bytes without their length.                         *)
string_bare(text) == text

string(text) == u32(Len(text)) \o text

list(values, Write(_)) ==
    u32(Len(values)) \o FoldLeft(LAMBDA out, v : out \o Write(v), << >>, values)

(* Faulty variant: a set is written as it was listed.                      *)
canonical_set_as_listed(enum, values) == list(values, LAMBDA v : u8(canonical_tag(enum, v)))

(* A set is written as the list of its members in the order of their tags. *)
canonical_set(enum, values) ==
    LET tag_of(v) == canonical_tag(enum, v)
        normalized == SortSeq(SetToSeq(ToSet(values)), LAMBDA v, w : tag_of(v) < tag_of(w))
    IN  list(normalized, LAMBDA v : u8(tag_of(v)))

option(value, written) == IF value = Absent THEN u8(0) ELSE u8(1) \o written

write_plain(kind, value) ==
    CASE kind = "string"     -> string(value)
      [] kind = "bool"       -> u8(IF value THEN 1 ELSE 0)
      [] kind = "u32"        -> u32(value)
      [] kind = "cap_set"    -> canonical_set("cap", value)
      [] kind = "egress_set" -> canonical_set("egress", value)
      [] OTHER               -> u8(canonical_tag(kind, value))

----------------------------------------------------------------------------
(* Structs: the fields one after the other, with nothing between them.     *)

Field(name, kind) == [name |-> name, kind |-> kind, optional |-> FALSE]

Optional(name, kind) == [name |-> name, kind |-> kind, optional |-> TRUE]

Texts(names) == [i \in DOMAIN names |-> Field(names[i], "string")]

canonical_struct(fields, value, Write(_, _)) ==
    FoldLeft(LAMBDA out, f :
                out \o (IF f.optional
                        THEN option(value[f.name], Write(f.kind, value[f.name]))
                        ELSE Write(f.kind, value[f.name])),
             << >>, fields)

Structs ==
    [inspection  |-> Texts(<<"id", "inv", "challenge", "args_hash", "policy_digest">>)
                     \o <<Field("positive", "bool")>>,
     resolution  |-> Texts(<<"id", "inv">>) \o <<Field("outcome", "outcome")>>,
     conformance |-> Texts(<<"id", "output", "src", "rcv", "descriptor", "assignment">>)
                     \o <<Field("positive", "bool")>>,
     policy      |-> <<Field("tool", "string"), Field("required_caps", "cap_set"),
                       Field("conf_clearance", "conf"), Field("integ_floor", "integ"),
                       Field("integ_inspect", "integ"), Field("output_conf", "conf"),
                       Field("output_integ", "integ"), Field("declared_egress", "egress_set"),
                       Field("policy_digest", "string")>>]

CrossInputN ==
    Texts(<<"src", "rcv", "crossing", "output_hash", "descriptor">>)
    \o <<Field("fallback", "fallback"), Field("t_integ", "integ"), Optional("t_conf", "conf"),
         Field("assignment", "string"), Optional("evidence", "conformance"),
         Field("released_conf", "conf"), Field("released_integ", "integ")>>

write_struct(kind, value) ==
    IF kind \in DOMAIN Structs
    THEN canonical_struct(Structs[kind], value, write_plain)
    ELSE write_plain(kind, value)

write_field(kind, value) ==
    IF kind = "input"
    THEN canonical_struct(CrossInputN, value, write_struct)
    ELSE write_struct(kind, value)

Operations ==
    <<"register_tool", "unregister_tool", "delegate", "grant_capability", "grant_crossing",
      "revoke", "cascade_revoke", "ingest", "begin_invocation", "authorize_inspected",
      "settle_invocation", "cross_output">>

operation_tag(op) == (CHOOSE i \in DOMAIN Operations : Operations[i] = op) - 1

CommandFields ==
    [register_tool       |-> Texts(<<"tool">>),
     unregister_tool     |-> Texts(<<"tool">>),
     delegate            |-> Texts(<<"grantor", "grantee">>),
     grant_capability    |-> Texts(<<"parent", "child">>) \o <<Field("cap", "cap")>>,
     grant_crossing      |-> Texts(<<"grantor", "agent", "assignment">>) \o <<Field("n", "u32")>>,
     revoke              |-> Texts(<<"parent", "target">>),
     cascade_revoke      |-> Texts(<<"child", "parent">>),
     ingest              |-> <<Field("agent", "string"), Optional("src", "string"),
                               Field("pconf", "conf"), Field("pinteg", "integ")>>,
     begin_invocation    |-> Texts(<<"agent", "inv", "challenge">>)
                             \o <<Field("policy", "policy"), Field("egress", "egress_set"),
                                  Field("args_hash", "string"), Field("authorized", "bool")>>,
     authorize_inspected |-> <<Field("inv", "string"), Field("attestation", "inspection")>>,
     settle_invocation   |-> <<Field("inv", "string"), Field("outcome", "outcome"),
                               Optional("resolution", "resolution")>>,
     cross_output        |-> <<Field("input", "input")>>]

ActionFields ==
    [CommandFields EXCEPT
        !.ingest = @ \o <<Field("disposition", "disposition")>>,
        !.begin_invocation = Texts(<<"agent", "inv", "tool">>)
                             \o <<Field("verdict", "verdict"), Field("authorized", "bool")>>,
        !.authorize_inspected = Texts(<<"inv", "attestation">>) \o <<Field("admitted", "bool")>>,
        !.settle_invocation = Texts(<<"inv", "agent">>)
                              \o <<Field("disposition", "disposition"),
                                   Field("outcome", "outcome"), Field("clvl", "conf"),
                                   Field("ilvl", "integ"), Optional("resolution", "string")>>,
        !.cross_output = Texts(<<"src", "rcv", "crossing">>)
                         \o <<Field("branch", "branch"), Field("disposition", "disposition")>>]

write_command(c) ==
    u8(operation_tag(c.op)) \o canonical_struct(CommandFields[c.op], c, write_field)

write_action(a) ==
    u8(operation_tag(a.op)) \o canonical_struct(ActionFields[a.op], a, write_plain)

(* A ceiling is an Option, and a key the map does not have counts as None. *)
ceiling(ceilings, egress) ==
    IF egress \in DOMAIN ceilings THEN ceilings[egress] ELSE Absent

write_background(b) ==
    LET write(ceilings) ==
            FoldLeft(LAMBDA out, e :
                        out \o option(ceiling(ceilings, e), write_plain("conf", ceiling(ceilings, e))),
                     << >>, Enums.egress)
    IN  write_plain("mode", b.mode) \o write(b.allow_ceiling) \o write(b.inspect_ceiling)

----------------------------------------------------------------------------
(* The two transcripts.  EXARGUS\0GENESIS\0, EXARGUS\0ENVELOPE\0 and root. *)

EXARGUS == <<69, 88, 65, 82, 71, 85, 83, 0>>

GENESIS_DOMAIN == EXARGUS \o <<71, 69, 78, 69, 83, 73, 83, 0>>

ENVELOPE_DOMAIN == EXARGUS \o <<69, 78, 86, 69, 76, 79, 80, 69, 0>>

VERSION == 5

genesis_transcript(background) ==
    GENESIS_DOMAIN \o u32(VERSION) \o string(<<114, 111, 111, 116>>)
    \o write_background(background)

link_transcript(l) ==
    ENVELOPE_DOMAIN \o u32(VERSION) \o l.previous \o u64(l.sequence)
    \o write_command(l.command) \o write_action(l.action)

(* BackgroundN::into_kernel                                                *)
background_into_kernel(b) ==
    [mode |-> b.mode,
     allow |-> [e \in ToSet(Enums.egress) |-> ceiling(b.allow_ceiling, e)],
     inspect |-> [e \in ToSet(Enums.egress) |-> ceiling(b.inspect_ceiling, e)]]

----------------------------------------------------------------------------
(* A transcript and what it stands for: a genesis for a background of the  *)
(* kernel, a link for a place in a chain, the argument the kernel was      *)
(* given and the action it returned.                                       *)
GenesisOf(b) ==
    [covers |-> [background |-> background_into_kernel(b)], bytes |-> genesis_transcript(b)]

LinkOf(l) ==
    [covers |-> [l EXCEPT !.command = CommandOf(command_into_kernel(@))],
     bytes  |-> link_transcript(l)]

HashInit == hashed = Absent

(* chain::genesis, for a new instance or a new recovery.                   *)
genesis(background) == hashed' = GenesisOf(background)

(* chain::link, for a command a live instance or a recovery accepts.       *)
link(l) == hashed' = LinkOf(l)

(* Transcript::finish gives the bytes away.                                *)
finish == hashed # Absent /\ hashed' = Absent

HashNext ==
    \/ /\ hashed = Absent
       /\ \/ \E b \in Backgrounds : genesis(b)
          \/ \E l \in Links : link(l)
    \/ finish

----------------------------------------------------------------------------
Transcripts == {GenesisOf(b) : b \in Backgrounds} \union {LinkOf(l) : l \in Links}

(* What is hashed has the bytes of another transcript exactly when the two *)
(* cover the same thing: the same background of the kernel, or the same    *)
(* predecessor, place, command and action.  The bytes of neighbouring      *)
(* fields cannot be moved from one to the other, and the order and the     *)
(* repetitions of a list that is a set to the kernel make no second        *)
(* digest.                                                                 *)
TranscriptIsUnambiguous ==
    hashed # Absent =>
        \A e \in Transcripts : hashed.bytes = e.bytes <=> hashed.covers = e.covers
=============================================================================
