---------------------------- MODULE Collections ----------------------------
(***************************************************************************)
(* The vectors behind the kernel's maps and sets (argus-kernel:            *)
(* collections.rs).  A VecSet is the sequence of its items, a VecMap the   *)
(* sequence of its <<key, value>> entries, in the order of insertion.      *)
(*                                                                         *)
(* The methods the transitions call are modelled.  Those nothing calls     *)
(* (extend_into, set_nonempty, any_value_contains, remove_from) are not.   *)
(***************************************************************************)
EXTENDS Naturals, SequencesExt

CONSTANT Absent     \* the None of VecMap::get_cloned

VecSet_new == << >>

VecSet_contains(items, x) == \E i \in DOMAIN items : items[i] = x

VecSet_insert(items, x) == IF VecSet_contains(items, x) THEN items ELSE Append(items, x)

VecSet_remove(items, x) ==
    FoldLeft(LAMBDA kept, y : IF y # x THEN Append(kept, y) ELSE kept, VecSet_new, items)

(* A list collected into a VecSet: its items once each, in the order in    *)
(* which they first occur.                                                 *)
VecSet_from_iter(list) == FoldLeft(VecSet_insert, VecSet_new, list)

----------------------------------------------------------------------------
VecMap_new == << >>

(* The index every lookup computes: the last entry of the key, or one past *)
(* the end.                                                                *)
index(entries, key) ==
    LET at == {i \in DOMAIN entries : entries[i][1] = key}
    IN  IF at = {} THEN Len(entries) + 1 ELSE Max(at)

VecMap_contains_key(entries, key) == \E i \in DOMAIN entries : entries[i][1] = key

VecMap_get_cloned(entries, key) ==
    LET idx == index(entries, key)
    IN  IF idx <= Len(entries) THEN entries[idx][2] ELSE Absent

(* Faulty variant: every insert is a new entry.                            *)
VecMap_insert_pushes(entries, key, value) == Append(entries, <<key, value>>)

(* Faulty variant: a key that is there keeps its value.                    *)
VecMap_insert_keeps(entries, key, value) ==
    IF VecMap_contains_key(entries, key) THEN entries ELSE Append(entries, <<key, value>>)

VecMap_insert(entries, key, value) ==
    LET idx == index(entries, key)
    IN  IF idx <= Len(entries)
        THEN [entries EXCEPT ![idx] = <<key, value>>]
        ELSE Append(entries, <<key, value>>)

VecMap_remove(entries, key) ==
    FoldLeft(LAMBDA kept, e : IF e[1] # key THEN Append(kept, e) ELSE kept, VecMap_new, entries)

VecMap_get_set_or_empty(entries, key) ==
    IF VecMap_contains_key(entries, key) THEN VecMap_get_cloned(entries, key) ELSE VecSet_new

VecMap_insert_into(entries, key, elem) ==
    VecMap_insert(entries, key, VecSet_insert(VecMap_get_set_or_empty(entries, key), elem))

(* The loop of state.rs over key_at and get_cloned that inserts what it    *)
(* keeps, possibly changed, into a new map.                                *)
rebuild(entries, Keep(_, _), New(_)) ==
    FoldLeft(LAMBDA kept, e :
                LET value == VecMap_get_cloned(entries, e[1])
                IN  IF Keep(e[1], value) THEN VecMap_insert(kept, e[1], New(value)) ELSE kept,
             VecMap_new, entries)

----------------------------------------------------------------------------
(* What a vector stands for.                                               *)

Keys(entries) == {entries[i][1] : i \in DOMAIN entries}

MapOf(entries) == [k \in Keys(entries) |-> VecMap_get_cloned(entries, k)]

(* A vector names nothing twice.                                           *)
Unique(list) == \A i, j \in DOMAIN list : list[i] = list[j] => i = j

UniqueKeys(entries) ==
    \A i, j \in DOMAIN entries : entries[i][1] = entries[j][1] => i = j
============================================================================
