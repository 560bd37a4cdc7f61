-------------------------- MODULE StateProjection --------------------------
(***************************************************************************)
(* What instance_state shows of a kernel state (native state.rs): every    *)
(* vector of the state as a sorted list, ids in the byte order of their    *)
(* text and enums in the order of their tags.                              *)
(***************************************************************************)
EXTENDS VecKernel

(* slice::sort_by, with the order as the pairs that ascend.  The sort is   *)
(* stable: of two items that compare equal the earlier one stays first.    *)
sort_by(items, before) ==
    LET places == DOMAIN items
        order == CHOOSE p \in [places -> places] :
                    /\ ToSet(p) = places
                    /\ \A i, j \in places : i < j =>
                          \/ <<items[p[i]], items[p[j]]>> \in before
                          \/ <<items[p[j]], items[p[i]]>> \notin before /\ p[i] < p[j]
    IN  [i \in places |-> items[order[i]]]

ByText(S) == {p \in S \X S : utf8(p[1]) < utf8(p[2])}

ByKey(E) == {p \in E \X E : utf8(p[1][1]) < utf8(p[2][1])}

ByTag(S) == {p \in S \X S : tag(p[1]) < tag(p[2])}

(* The tag of a level is its rank.                                         *)
ByRank(S) == {p \in S \X S : p[1] < p[2]}

(* By agent, then by assignment.                                           *)
ByGrantKey(E) ==
    {p \in E \X E :
        \/ utf8(p[1][1].agent) < utf8(p[2][1].agent)
        \/ /\ p[1][1].agent = p[2][1].agent
           /\ utf8(p[1][1].assignment) < utf8(p[2][1].assignment)}

sort_strings(list) == sort_by(list, ByText(ToSet(list)))

sort_string_map(entries) == sort_by(entries, ByKey(ToSet(entries)))

sort_tags(list) == sort_by(list, ByTag(ToSet(list)))

sort_levels(list) == sort_by(list, ByRank(ToSet(list)))

sort_grants(entries) == sort_by(entries, ByGrantKey(ToSet(entries)))

(* The map over the entries of a VecMap.                                   *)
with_values(entries, New(_)) ==
    [i \in DOMAIN entries |-> <<entries[i][1], New(entries[i][2])>>]

(* Faulty variant: a policy's sets are shown as they were inserted.        *)
policy_from_kernel_unsorted(p) == p

policy_from_kernel(p) ==
    [p EXCEPT !.required_caps = sort_tags(@), !.declared_egress = sort_tags(@)]

(* pending_from_kernel and challenge_from_kernel                           *)
record_from_kernel(j) == [j EXCEPT !.policy = policy_from_kernel(@), !.egress = sort_tags(@)]

(* StateN::from_kernel                                                     *)
StateN ==
    [agent_active          |-> sort_strings(agent_active),
     agent_parent          |-> sort_string_map(agent_parent),
     agent_cap             |-> sort_string_map(with_values(agent_cap, sort_tags)),
     taint_levels          |-> sort_string_map(with_values(taint_levels, sort_levels)),
     integ_levels          |-> sort_string_map(with_values(integ_levels, sort_levels)),
     pending               |-> sort_string_map(with_values(pending, record_from_kernel)),
     challenges            |-> sort_string_map(with_values(challenges, record_from_kernel)),
     consumed_ids          |-> sort_strings(consumed_ids),
     consumed_attestations |-> sort_strings(consumed_attestations),
     consumed_crossings    |-> sort_strings(consumed_crossings),
     crossing_grants       |-> sort_grants(crossing_grants),
     tool_registered       |-> sort_strings(tool_registered)]

----------------------------------------------------------------------------
(* The list of a set that ascends, and the table of a map whose keys do.   *)
Ascending(S, before) ==
    CHOOSE s \in [1 .. Cardinality(S) -> S] :
        /\ ToSet(s) = S
        /\ \A i, j \in DOMAIN s : i < j => <<s[i], s[j]>> \in before

ListOf(S) == Ascending(S, ByText(S))

TagsOf(S) == Ascending(S, ByTag(S))

LevelsOf(S) == Ascending(S, ByRank(S))

TableOf(S, Value(_)) == [i \in 1 .. Cardinality(S) |-> <<ListOf(S)[i], Value(ListOf(S)[i])>>]

TableOfSets(f, kept, Listed(_)) ==
    TableOf(kept \cup {a \in AgentId : f[a] # {}}, LAMBDA a : Listed(f[a]))

ShownPolicy(p) == [p EXCEPT !.required_caps = TagsOf(@), !.declared_egress = TagsOf(@)]

ShownRecord(j) == [j EXCEPT !.policy = ShownPolicy(@), !.egress = TagsOf(@)]

(* The state an observer is shown is the state itself, and nothing else:   *)
(* it is a function of the sets and maps the kernel's vectors stand for,   *)
(* from which they can all be read back.  Neither the order of insertions  *)
(* and removals, nor the lists of the commands, nor a key left behind with *)
(* an empty set by an agent that came and went, can be seen, so two        *)
(* instances that show different states do differ (state.rs sorts, and     *)
(* clear_agent removes keys instead of emptying them).                     *)
ProjectionIsTheState ==
    LET records(f) == TableOf(DOMAIN f, LAMBDA i : ShownRecord(f[i]))
        grants == MapOf(crossing_grants)
        entries == {<<g, grants[g]>> : g \in DOMAIN grants}
    IN  StateN =
        [agent_active          |-> ListOf(ToSet(agent_active)),
         agent_parent          |-> TableOf(Keys(agent_parent), LAMBDA c : MapOf(agent_parent)[c]),
         agent_cap             |-> TableOfSets(SetsOf(agent_cap), {Root}, TagsOf),
         taint_levels          |-> TableOfSets(SetsOf(taint_levels), {}, LevelsOf),
         integ_levels          |-> TableOfSets(SetsOf(integ_levels), {}, LevelsOf),
         pending               |-> records(RecordsOf(pending)),
         challenges            |-> records(RecordsOf(challenges)),
         consumed_ids          |-> ListOf(ToSet(consumed_ids)),
         consumed_attestations |-> ListOf(ToSet(consumed_attestations)),
         consumed_crossings    |-> ListOf(ToSet(consumed_crossings)),
         crossing_grants       |-> Ascending(entries, ByGrantKey(entries)),
         tool_registered       |-> ListOf(ToSet(tool_registered))]

(* The vectors stay sets and maps: nothing occurs twice in a VecSet, also  *)
(* not in those of a stored policy, and no key has two entries in a        *)
(* VecMap.  collections.rs keeps its readers right without it (the last    *)
(* entry wins), but sizes, traversals and what an observer is shown count  *)
(* on it.                                                                  *)
VectorsAreSets ==
    LET policy(p) == Unique(p.required_caps) /\ Unique(p.declared_egress)
        records(entries) == UniqueKeys(entries) /\
            \A i \in DOMAIN entries : policy(entries[i][2].policy) /\ Unique(entries[i][2].egress)
        sets(entries) == UniqueKeys(entries) /\ \A i \in DOMAIN entries : Unique(entries[i][2])
    IN  /\ \A list \in {agent_active, consumed_ids, consumed_attestations,
                        consumed_crossings, tool_registered} : Unique(list)
        /\ UniqueKeys(agent_parent) /\ UniqueKeys(crossing_grants)
        /\ sets(agent_cap) /\ sets(taint_levels) /\ sets(integ_levels)
        /\ records(pending) /\ records(challenges)
============================================================================
