----------------------------- MODULE Containers -----------------------------
(***************************************************************************)
(* The operations of the standard containers the program keeps its state   *)
(* in: maps are functions with a finite domain, vectors are sequences.     *)
(***************************************************************************)
EXTENDS Naturals, Sequences, Functions

\* a map with no entries
EmptyMap == [x \in {} |-> x]

\* map[key] = value
Put(map, key, value) ==
    [x \in DOMAIN map \cup {key} |-> IF x = key THEN value ELSE map[x]]

\* map.erase(key)
Erase(map, key) == Restrict(map, DOMAIN map \ {key})

\* vector.erase(std::remove(begin, end, x), end): every x goes, the others
\* keep their order.  (SelectSeq, written out so that it can be reasoned about.)
EraseRemove(vector, x) ==
    LET kept[n \in 0 .. Len(vector)] ==
          IF n = 0 THEN << >>
          ELSE IF vector[n] = x THEN kept[n - 1]
          ELSE Append(kept[n - 1], vector[n])
    IN  kept[Len(vector)]

=============================================================================
