---------------------------- MODULE ElementBoard ----------------------------
(***************************************************************************)
(* The container ScoreBoard (src/src/scoreboard.cpp): an array of reused   *)
(* element objects of which the first showsize are in use, an index from   *)
(* (source list, destination list, name) to the object, and for every      *)
(* destination list the set of its objects.  Removing fills the gap with   *)
(* the last element; sorting is a radix sort over all scores, after which  *)
(* equal scores are shuffled.                                              *)
(***************************************************************************)
EXTENDS Integers, Sequences, FiniteSets

CONSTANTS
  Key,        \* <<name, source list, destination list>>
  MaxScore,   \* the largest score; scores are unsigned short
  RESIZE_CHUNK,
  Capacity    \* bound: element objects ever allocated

ASSUME ContainerAssumption ==
  /\ MaxScore \in Nat /\ RESIZE_CHUNK \in Nat \ {0} /\ Capacity \in Nat

VARIABLES
  elements,   \* the array: a sequence of element objects
  content,    \* what each object holds
  showsize,
  elementlocator,
  destinationlocator

ebvars == <<elements, content, showsize, elementlocator, destinationlocator>>

Score == 0..MaxScore
Object == 1..Capacity
Dst(k) == k[3]
ListsOf(k) == {k[2], k[3]}
Lists == UNION {ListsOf(k) : k \in Key}
Content == [key : Key, score : Score, attempted : BOOLEAN]

InUse == {elements[i] : i \in 1..showsize}

ContainerTypeOK ==
  /\ elements \in Seq(Object) /\ showsize \in 0..Len(elements)
  /\ content \in [{elements[i] : i \in 1..Len(elements)} -> Content]
  /\ DOMAIN elementlocator \subseteq Key
  /\ elementlocator \in [DOMAIN elementlocator -> Object]
  /\ destinationlocator \in [Lists -> SUBSET Object]

ContainerInit ==
  /\ elements = <<>> /\ content = [o \in {} |-> 0] /\ showsize = 0
  /\ elementlocator = [k \in {} |-> 0]
  /\ destinationlocator = [l \in Lists |-> {}]

(***************************************************************************)
(* update: an element that is there gets the new score and may be          *)
(* attempted again; otherwise the next free object is used, after RESIZE_  *)
(* CHUNK new ones are made if there is none.                               *)
(***************************************************************************)
UpdateKnown(k, s) ==
  /\ k \in DOMAIN elementlocator
  /\ content' = [content EXCEPT ![elementlocator[k]].score = s,
                                ![elementlocator[k]].attempted = FALSE]
  /\ UNCHANGED <<elements, showsize, elementlocator, destinationlocator>>

NewElement(k, s) == [key |-> k, score |-> s, attempted |-> FALSE]

UpdateNew(k, s) ==
  LET full == showsize = Len(elements)
      old == {elements[i] : i \in 1..Len(elements)}
      new == Len(elements) + 1..Len(elements) + RESIZE_CHUNK
      els == IF full THEN elements \o [i \in 1..RESIZE_CHUNK |-> Len(elements) + i]
             ELSE elements
      o == els[showsize + 1]
  IN /\ k \notin DOMAIN elementlocator
     /\ Len(els) <= Capacity
     /\ elements' = els
     /\ content' = IF full
                   THEN [x \in old \cup new |-> IF x \in new THEN NewElement(k, s)
                                                ELSE content[x]]
                   ELSE [content EXCEPT ![o] = NewElement(k, s)]
     /\ elementlocator' = [x \in DOMAIN elementlocator \cup {k} |->
                             IF x = k THEN o ELSE elementlocator[x]]
     /\ destinationlocator' = [destinationlocator EXCEPT ![Dst(k)] = @ \cup {o}]
     /\ showsize' = showsize + 1

setAttempted(k) ==
  /\ k \in DOMAIN elementlocator
  /\ ~content[elementlocator[k]].attempted
  /\ content' = [content EXCEPT ![elementlocator[k]].attempted = TRUE]
  /\ UNCHANGED <<elements, showsize, elementlocator, destinationlocator>>

(***************************************************************************)
(* remove, on a record of the variables because wipe removes one by one.   *)
(***************************************************************************)
Board == [els |-> elements, con |-> content, size |-> showsize,
          loc |-> elementlocator, dst |-> destinationlocator]

\* Variant: the index keeps pointing to the object the moved element left.
RemoveStaleIndex(b, k) ==
  LET o == b.loc[k]
      last == b.els[b.size]
      d1 == [b.dst EXCEPT ![Dst(k)] = @ \ {o}]
      moved == b.con[last].key
  IN IF k \notin DOMAIN b.loc THEN b
     ELSE [els |-> b.els, size |-> b.size - 1,
           loc |-> [x \in DOMAIN b.loc \ {k} |-> b.loc[x]],
           con |-> IF o = last THEN b.con
                   ELSE [b.con EXCEPT ![o] = NewElement(moved, b.con[last].score)],
           dst |-> IF o = last THEN d1
                   ELSE [d1 EXCEPT ![Dst(moved)] = (@ \ {last}) \cup {o}]]

\* Variant: the moved element gets the score of the removed one.
RemoveMixedScore(b, k) ==
  LET o == b.loc[k]
      last == b.els[b.size]
      d1 == [b.dst EXCEPT ![Dst(k)] = @ \ {o}]
      moved == b.con[last].key
  IN IF k \notin DOMAIN b.loc THEN b
     ELSE [els |-> b.els, size |-> b.size - 1,
           loc |-> [x \in DOMAIN b.loc \ {k} |->
                      IF o # last /\ x = moved THEN o ELSE b.loc[x]],
           con |-> IF o = last THEN b.con
                   ELSE [b.con EXCEPT ![o] = NewElement(moved, b.con[o].score)],
           dst |-> IF o = last THEN d1
                   ELSE [d1 EXCEPT ![Dst(moved)] = (@ \ {last}) \cup {o}]]

RemoveElement(b, k) ==
  LET o == b.loc[k]
      last == b.els[b.size]
      d1 == [b.dst EXCEPT ![Dst(k)] = @ \ {o}]
      moved == b.con[last].key
  IN IF k \notin DOMAIN b.loc THEN b
     ELSE [els |-> b.els, size |-> b.size - 1,
           loc |-> [x \in DOMAIN b.loc \ {k} |->
                      IF o # last /\ x = moved THEN o ELSE b.loc[x]],
           con |-> IF o = last THEN b.con
                   ELSE [b.con EXCEPT ![o] = NewElement(moved, b.con[last].score)],
           dst |-> IF o = last THEN d1
                   ELSE [d1 EXCEPT ![Dst(moved)] = (@ \ {last}) \cup {o}]]

SetBoard(b) ==
  /\ elements' = b.els /\ content' = b.con /\ showsize' = b.size
  /\ elementlocator' = b.loc /\ destinationlocator' = b.dst

remove(k) == k \in DOMAIN elementlocator /\ SetBoard(RemoveElement(Board, k))

\* wipe of one list: its elements are collected from both indexes and then
\* removed one after the other.
Collected(l) ==
  {k \in DOMAIN elementlocator : k[2] = l}
    \cup {content[o].key : o \in destinationlocator[l]}

RemoveAll(b, ks) ==
  LET rest[i \in 0..Len(ks)] == IF i = 0 THEN b ELSE RemoveElement(rest[i - 1], ks[i])
  IN rest[Len(ks)]

wipe(l) ==
  \E ks \in [1..Cardinality(Collected(l)) -> Collected(l)] :
    /\ {ks[i] : i \in DOMAIN ks} = Collected(l)
    /\ SetBoard(RemoveAll(Board, ks))

\* wipe of everything.
wipeAll ==
  /\ showsize' = 0
  /\ elementlocator' = [k \in {} |-> 0]
  /\ destinationlocator' = [l \in Lists |-> {}]
  /\ UNCHANGED <<elements, content>>

(***************************************************************************)
(* sort: count the scores, give every score the last position of its       *)
(* bucket, from the highest score on, and hand the positions out from the  *)
(* back.  Positions are 0, 1, ... as in the code.                          *)
(***************************************************************************)
ScoreAt(i) == content[elements[i]].score

\* Variant: the positions are handed out from the lowest score on.
BucketPositionRising(s) ==
  showsize - 1 - Cardinality({i \in 1..showsize : ScoreAt(i) > s})
BucketPosition(s) ==
  showsize - 1 - Cardinality({i \in 1..showsize : ScoreAt(i) < s})

\* Where the element at i goes: its bucket's last position, less the ones
\* handed out before.
Place(i) ==
  BucketPosition(ScoreAt(i))
    - Cardinality({j \in 1..i - 1 : ScoreAt(j) = ScoreAt(i)}) + 1

Sorted == [p \in 1..showsize |->
             elements[CHOOSE i \in 1..showsize : Place(i) = p]]

\* shuffleEquals: the elements of one score change places in any way.
Shuffles ==
  {q \in [1..showsize -> 1..showsize] :
     /\ {q[p] : p \in 1..showsize} = 1..showsize
     /\ \A p \in 1..showsize :
          content[Sorted[q[p]]].score = content[Sorted[p]].score}

sort ==
  /\ UNCHANGED <<content, showsize, elementlocator, destinationlocator>>
  /\ \E q \in Shuffles :
       elements' = [i \in 1..Len(elements) |->
                      IF i <= showsize THEN Sorted[q[i]] ELSE elements[i]]

ContainerNext ==
  \/ \E k \in Key, s \in Score : UpdateKnown(k, s) \/ UpdateNew(k, s)
  \/ \E k \in Key : setAttempted(k) \/ remove(k)
  \/ \E l \in Lists : wipe(l)
  \/ wipeAll
  \/ sort

ContainerSpec == ContainerInit /\ [][ContainerNext]_ebvars

(***************************************************************************)
(* Properties.                                                             *)
(***************************************************************************)
\* The index leads from every key on the board to the one object in use
\* that holds it, through removals that move elements between objects.
IndexExact ==
  /\ \A k \in DOMAIN elementlocator :
       elementlocator[k] \in InUse /\ content[elementlocator[k]].key = k
  /\ \A o \in InUse : elementlocator[content[o].key] = o
  /\ Cardinality(InUse) = showsize

\* The set kept for a destination holds exactly its objects in use:
\* resetSkipChecked and wipe find all of them and no others.
DestinationsExact ==
  \A l \in Lists : destinationlocator[l] = {o \in InUse : Dst(content[o].key) = l}

\* The three structures of the scoreboard hold the same elements.
ContainerInv == ContainerTypeOK /\ IndexExact /\ DestinationsExact

\* Sorting orders the elements by falling score and neither loses nor
\* doubles one.
SortSorts ==
  [][sort => /\ \A i, j \in 1..showsize : i < j =>
                  content[elements'[i]].score >= content[elements'[j]].score
             /\ {elements'[i] : i \in 1..showsize} = InUse]_ebvars

\* The container is a table from keys to scores.
Table == INSTANCE BoardSpec WITH
           table <- [k \in DOMAIN elementlocator |-> content[elementlocator[k]].score]
ImplementsTable == Table!TableSpec
=============================================================================
