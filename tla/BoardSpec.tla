----------------------------- MODULE BoardSpec -----------------------------
(***************************************************************************)
(* What a score board promises the engine: a table of the transfers to     *)
(* consider, with a score each, in which an entry is found by its key and  *)
(* all the entries of a file list can be dropped at once.                  *)
(***************************************************************************)
CONSTANTS Key, Score, ListsOf(_)   \* ListsOf(k): the two lists k is about

VARIABLE table   \* a function from the keys on the board to their scores

TableInit == table = [k \in {} |-> 0]

Put(k, s) ==
  table' = [x \in DOMAIN table \cup {k} |-> IF x = k THEN s ELSE table[x]]
Take(k) == table' = [x \in DOMAIN table \ {k} |-> table[x]]
Wipe(l) == table' = [x \in {y \in DOMAIN table : l \notin ListsOf(y)} |-> table[x]]
WipeAll == table' = [k \in {} |-> 0]

TableNext ==
  \/ \E k \in Key, s \in Score : Put(k, s)
  \/ \E k \in Key : Take(k)
  \/ \E l \in UNION {ListsOf(k) : k \in Key} : Wipe(l)
  \/ WipeAll

TableSpec == TableInit /\ [][TableNext]_table
=============================================================================
