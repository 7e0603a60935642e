---------------------------- MODULE ScoresProofs ----------------------------
(***************************************************************************)
(* Proofs about ElementBoard, for any keys, scores, growth and capacity:   *)
(* the three structures of the scoreboard agree, sorting sorts, and the    *)
(* container implements the table of BoardSpec.                            *)
(*                                                                         *)
(* ContainerInv is not inductive: a new object must be one that is not in  *)
(* the array yet, and moving the last element into a gap must not meet an  *)
(* object twice.  Good says so of the values of the variables, because     *)
(* wipe passes through boards that are never the value of the variables.   *)
(* What wipe computes is proved by induction over the rounds of its loop.  *)
(*                                                                         *)
(* Proofs about ScoreBoard, for any sites, files, settings and limits: the *)
(* scoreboard forgets no possible transfer, keeps no outdated one that is  *)
(* not marked, and only exhausted transfers wait on the failboard.         *)
(*                                                                         *)
(* None of the three is inductive.  OutdatedMarked must be said of each    *)
(* side by itself: an update looks only at the side that is marked, so a   *)
(* mark on the source must not excuse the destination.  Remembered needs   *)
(* that a list which has failed on the board is due to be taken off it, so *)
(* that no mark is cleared in between.  FailedExhausted needs that every   *)
(* element has a site of the job, or a reset of the attempts would miss    *)
(* it.                                                                     *)
(***************************************************************************)
EXTENDS ElementBoard, ScoreBoard, FiniteSetTheorems, SequenceTheorems, WellFoundedInduction, TLAPS

Used(e, n) == {e[i] : i \in 1..n}

\* An array without repetitions of the objects made so far.
GoodArray(e) ==
  /\ e \in Seq(Object)
  /\ \A i \in 1..Len(e) : e[i] \in 1..Len(e)
  /\ \A i, j \in 1..Len(e) : e[i] = e[j] => i = j

\* A board: the array e, the contents c, the n in use, the index l and the sets d.
Good(e, c, n, l, d) ==
  /\ GoodArray(e) /\ n \in 0..Len(e)
  /\ c \in [Used(e, Len(e)) -> Content]
  /\ DOMAIN l \subseteq Key /\ l \in [DOMAIN l -> Object]
  /\ \A k \in DOMAIN l : l[k] \in Used(e, n) /\ c[l[k]].key = k
  /\ \A o \in Used(e, n) : c[o].key \in DOMAIN l /\ l[c[o].key] = o
  /\ d \in [Lists -> SUBSET Object]
  /\ \A x \in Lists : d[x] = {o \in Used(e, n) : Dst(c[o].key) = x}

GoodBoard(b) == Good(b.els, b.con, b.size, b.loc, b.dst)

ContainerStrong == Good(elements, content, showsize, elementlocator, destinationlocator)

\* The keys of an index l2 that comes after l keep their scores.
SameScores(c, l, c2, l2) == \A x \in DOMAIN l2 : c2[l2[x]].score = c[l[x]].score

-----------------------------------------------------------------------------
(***************************************************************************)
(* Facts about the array.                                                  *)
(***************************************************************************)
\* The objects in use are objects of the array.
LEMMA UsedFacts ==
  ASSUME NEW e, GoodArray(e), NEW n \in 0..Len(e)
  PROVE  /\ Used(e, n) \subseteq Used(e, Len(e)) /\ Used(e, Len(e)) \subseteq Object
         /\ Len(e) \in Nat /\ n \in Nat
         /\ \A o \in Used(e, n) : \E i \in 1..n : e[i] = o
<1>1. Len(e) \in Nat /\ \A i \in 1..Len(e) : e[i] \in Object
  BY LenProperties, ElementOfSeq DEF GoodArray
<1> QED BY <1>1 DEF Used

\* Without the last one.
LEMMA UsedLess ==
  ASSUME NEW e, GoodArray(e), NEW n \in 1..Len(e)
  PROVE  Used(e, n - 1) = Used(e, n) \ {e[n]} /\ e[n] \in Used(e, n)
<1>1. Len(e) \in Nat
  BY LenProperties DEF GoodArray
<1>2. \A i \in 1..(n - 1) : e[i] # e[n] /\ i \in 1..n
  BY <1>1 DEF GoodArray
<1>3. \A i \in 1..n : i = n \/ i \in 1..(n - 1)
  BY <1>1
<1> QED BY <1>1, <1>2, <1>3 DEF Used

\* With one more.
LEMMA UsedMore ==
  ASSUME NEW e, GoodArray(e), NEW n \in 0..(Len(e) - 1)
  PROVE  Used(e, n + 1) = Used(e, n) \cup {e[n + 1]} /\ e[n + 1] \notin Used(e, n)
<1>1. Len(e) \in Nat
  BY LenProperties DEF GoodArray
<1>2. n + 1 \in 1..Len(e) /\ (n + 1) - 1 = n
  BY <1>1
<1>3. Used(e, n) = Used(e, n + 1) \ {e[n + 1]} /\ e[n + 1] \in Used(e, n + 1)
  BY <1>2, UsedLess
<1> QED BY <1>3

\* Every destination is a list.
LEMMA DstIsList ==
  ASSUME NEW k \in Key
  PROVE  Dst(k) \in Lists
BY DEF Dst, Lists, ListsOf

-----------------------------------------------------------------------------
(***************************************************************************)
(* ScoreBoard::remove.                                                     *)
(***************************************************************************)
\* What remove makes of the contents, the index and the sets: the object of the
\* removed key takes over what the last object holds.
MovedContent(e, c, n, l, k) ==
  IF l[k] = e[n] THEN c ELSE [c EXCEPT ![l[k]] = NewElement(c[e[n]].key, c[e[n]].score)]
MovedIndex(e, c, n, l, k) ==
  [x \in DOMAIN l \ {k} |-> IF l[k] # e[n] /\ x = c[e[n]].key THEN l[k] ELSE l[x]]
LeftSets(l, d, k) == [d EXCEPT ![Dst(k)] = @ \ {l[k]}]
MovedSets(e, c, n, l, d, k) ==
  IF l[k] = e[n] THEN LeftSets(l, d, k)
  ELSE [LeftSets(l, d, k) EXCEPT ![Dst(c[e[n]].key)] = (@ \ {e[n]}) \cup {l[k]}]

\* The board stays good, and the other keys keep their scores.
LEMMA RemoveGood ==
  ASSUME NEW e, NEW c, NEW n, NEW l, NEW d, Good(e, c, n, l, d), NEW k \in DOMAIN l
  PROVE  /\ Good(e, MovedContent(e, c, n, l, k), n - 1, MovedIndex(e, c, n, l, k), MovedSets(e, c, n, l, d, k))
         /\ DOMAIN MovedIndex(e, c, n, l, k) = DOMAIN l \ {k}
         /\ SameScores(c, l, MovedContent(e, c, n, l, k), MovedIndex(e, c, n, l, k))
<1> DEFINE o == l[k]
           last == e[n]
           moved == c[last].key
           c2 == MovedContent(e, c, n, l, k)
           l2 == MovedIndex(e, c, n, l, k)
           d1 == LeftSets(l, d, k)
           d2 == MovedSets(e, c, n, l, d, k)
<1>0. /\ o = l[k] /\ last = e[n] /\ moved = c[last].key
      /\ c2 = IF o = last THEN c ELSE [c EXCEPT ![o] = NewElement(moved, c[last].score)]
      /\ l2 = [x \in DOMAIN l \ {k} |-> IF o # last /\ x = moved THEN o ELSE l[x]]
      /\ d1 = [d EXCEPT ![Dst(k)] = @ \ {o}]
      /\ d2 = IF o = last THEN d1 ELSE [d1 EXCEPT ![Dst(moved)] = (@ \ {last}) \cup {o}]
  BY DEF MovedContent, MovedIndex, LeftSets, MovedSets
<1> HIDE DEF o, last, moved, c2, l2, d1, d2
<1> USE <1>0
<1>1. GoodArray(e) /\ n \in 0..Len(e) /\ DOMAIN l \subseteq Key /\ k \in Key
  BY DEF Good
<1>2. o \in Used(e, n) /\ c[o].key = k
  BY DEF Good
<1>3. n \in 1..Len(e) /\ n - 1 \in 0..Len(e)
  BY <1>1, <1>2, LenProperties DEF Used, GoodArray
<1>4. Used(e, n - 1) = Used(e, n) \ {last} /\ last \in Used(e, n)
  BY <1>1, <1>3, UsedLess
<1>5. /\ Used(e, n) \subseteq Used(e, Len(e)) /\ Used(e, Len(e)) \subseteq Object
      /\ o \in Object /\ last \in Object
  BY <1>1, <1>2, <1>4, UsedFacts
<1>6. moved \in DOMAIN l /\ moved \in Key /\ l[moved] = last
  BY <1>1, <1>4 DEF Good
<1>7. c \in [Used(e, Len(e)) -> Content] /\ c[last] \in Content /\ c[o] \in Content
  BY <1>2, <1>4, <1>5 DEF Good
<1>8. NewElement(moved, c[last].score) \in Content
  BY <1>6, <1>7 DEF NewElement, Content
<1>9. c2 \in [Used(e, Len(e)) -> Content]
  BY <1>7, <1>8
<1>10. DOMAIN l2 = DOMAIN l \ {k} /\ l2 \in [DOMAIN l2 -> Object]
  BY <1>5 DEF Good
<1>11. o # last => moved # k
  BY <1>6
<1>12. \A x \in DOMAIN l2 : l2[x] \in Used(e, n - 1) /\ c2[l2[x]].key = x /\ c2[l2[x]].score = c[l[x]].score
  <2> SUFFICES ASSUME NEW x \in DOMAIN l2
               PROVE  l2[x] \in Used(e, n - 1) /\ c2[l2[x]].key = x /\ c2[l2[x]].score = c[l[x]].score
    OBVIOUS
  <2>1. x \in DOMAIN l /\ x # k /\ l[x] \in Used(e, n) /\ c[l[x]].key = x /\ l[x] # o
    BY <1>2, <1>10 DEF Good
  <2>2. CASE o = last
    BY <1>4, <2>1, <2>2
  <2>3. CASE o # last /\ x = moved
    <3>1. l2[x] = o /\ o \in Used(e, n - 1) /\ l[x] = last
      BY <1>2, <1>4, <1>6, <2>3
    <3>2. c2[o] = NewElement(moved, c[last].score)
      BY <1>2, <1>5, <1>7, <2>3
    <3> QED BY <2>3, <3>1, <3>2 DEF NewElement
  <2>4. CASE o # last /\ x # moved
    <3>1. l2[x] = l[x] /\ l[x] # last
      BY <2>1, <2>4
    <3>2. c2[l[x]] = c[l[x]]
      BY <1>5, <1>7, <2>1, <2>4
    <3> QED BY <1>4, <2>1, <3>1, <3>2
  <2> QED BY <2>2, <2>3, <2>4
<1>13. \A p \in Used(e, n - 1) : c2[p].key \in DOMAIN l2 /\ l2[c2[p].key] = p
  <2> SUFFICES ASSUME NEW p \in Used(e, n - 1) PROVE c2[p].key \in DOMAIN l2 /\ l2[c2[p].key] = p
    OBVIOUS
  <2>1. p \in Used(e, n) /\ p # last /\ c[p].key \in DOMAIN l /\ l[c[p].key] = p
    BY <1>4 DEF Good
  <2>2. CASE o = last
    BY <1>10, <2>1, <2>2
  <2>3. CASE o # last /\ p = o
    <3>1. c2[p].key = moved
      BY <1>5, <1>7, <2>1, <2>3 DEF NewElement
    <3> QED BY <1>6, <1>10, <1>11, <2>3, <3>1
  <2>4. CASE o # last /\ p # o
    <3>1. c2[p] = c[p]
      BY <1>5, <1>7, <2>1, <2>4
    <3>2. c[p].key # k /\ c[p].key # moved
      BY <1>6, <2>1, <2>4
    <3> QED BY <1>10, <2>1, <2>4, <3>1, <3>2
  <2> QED BY <2>2, <2>3, <2>4
<1>14. d \in [Lists -> SUBSET Object] /\ Dst(k) \in Lists /\ Dst(moved) \in Lists
  BY <1>1, <1>6, DstIsList DEF Good
<1>15. d1 \in [Lists -> SUBSET Object] /\ \A x \in Lists : d1[x] = IF x = Dst(k) THEN d[x] \ {o} ELSE d[x]
  BY <1>14
<1>16. d2 \in [Lists -> SUBSET Object]
  BY <1>5, <1>14, <1>15
<1>17. \A x \in Lists : d2[x] = {p \in Used(e, n - 1) : Dst(c2[p].key) = x}
  <2> SUFFICES ASSUME NEW x \in Lists PROVE d2[x] = {p \in Used(e, n - 1) : Dst(c2[p].key) = x}
    OBVIOUS
  <2>1. d[x] = {p \in Used(e, n) : Dst(c[p].key) = x}
    BY DEF Good
  <2>2. d1[x] = {p \in Used(e, n) \ {o} : Dst(c[p].key) = x}
    BY <1>2, <1>15, <2>1
  <2>3. CASE o = last
    BY <1>4, <2>2, <2>3
  <2>4. CASE o # last
    <3>1. d2[x] = IF x = Dst(moved) THEN (d1[x] \ {last}) \cup {o} ELSE d1[x]
      BY <1>14, <1>15, <2>4
    <3>2. Dst(c[last].key) = Dst(moved)
      OBVIOUS
    <3>3. d2[x] = {p \in Used(e, n) \ {o, last} : Dst(c[p].key) = x} \cup (IF x = Dst(moved) THEN {o} ELSE {})
      BY <2>2, <3>1, <3>2
    <3>4. /\ \A p \in Used(e, n) \ {o, last} : c2[p] = c[p]
          /\ c2[o].key = moved
      BY <1>2, <1>5, <1>7, <2>4 DEF NewElement
    <3> QED BY <1>2, <1>4, <2>4, <3>3, <3>4
  <2> QED BY <2>3, <2>4
<1>18. Good(e, c2, n - 1, l2, d2)
  BY <1>1, <1>3, <1>9, <1>10, <1>12, <1>13, <1>16, <1>17 DEF Good
<1>19. SameScores(c, l, c2, l2)
  BY <1>12 DEF SameScores
<1> QED BY <1>10, <1>18, <1>19 DEF c2, l2, d2

-----------------------------------------------------------------------------
(***************************************************************************)
(* ScoreBoard::wipe of a list: removing one after the other.               *)
(***************************************************************************)
\* The order of the naturals as a set of pairs.
Less == {p \in Nat \X Nat : p[1] < p[2]}

\* A set with 0 and the successor of each of its naturals has them all: the
\* least natural outside would have no predecessor.  Induction is used in this
\* form, on sets, below.
LEMMA NatSetInduction ==
  ASSUME NEW S, 0 \in S, \A m \in Nat : m \in S => m + 1 \in S
  PROVE  Nat \subseteq S
<1> DEFINE T == Nat \ S
<1>1. SUFFICES ASSUME T # {} PROVE FALSE
  OBVIOUS
<1>2. IsWellFoundedOn(Less, Nat)
  BY NatLessThanWellFounded DEF Less, OpToRel
<1>3. PICK x \in T : \A y \in T : ~(<<y, x>> \in Less)
  BY <1>1, <1>2, WFMin
<1>4. \A y \in T : ~(y < x)
  BY <1>3 DEF Less
<1>5. x \in Nat /\ x # 0
  OBVIOUS
<1>6. x - 1 \in Nat /\ x - 1 \in S /\ (x - 1) + 1 = x
  BY <1>4, <1>5
<1> QED BY <1>6

\* The boards the loop of wipe passes through.
Boards(b, ks) == CHOOSE f : f = [i \in 0..Len(ks) |-> IF i = 0 THEN b ELSE RemoveElement(f[i - 1], ks[i])]

\* wipe ends with the last of them.
LEMMA RemoveAllIsLast ==
  ASSUME NEW b, NEW ks
  PROVE  RemoveAll(b, ks) = Boards(b, ks)[Len(ks)]
BY DEF RemoveAll, Boards

\* The recursion of RemoveAll defines a function.
LEMMA BoardsExist ==
  ASSUME NEW b, NEW ks, NEW n \in Nat
  PROVE  \E f : f = [i \in 0..n |-> IF i = 0 THEN b ELSE RemoveElement(f[i - 1], ks[i])]
<1> DEFINE Step(g, i) == IF i = 0 THEN b ELSE RemoveElement(g[i - 1], ks[i])
           Has(m) == \E f : f = [i \in 0..m |-> Step(f, i)]
           S == {m \in Nat : Has(m)}
<1>1. 0 \in S
  <2> DEFINE f == [i \in 0..0 |-> b]
  <2>1. f = [i \in 0..0 |-> Step(f, i)]
    OBVIOUS
  <2> QED BY <2>1
<1>2. ASSUME NEW k \in Nat, k \in S PROVE k + 1 \in S
  <2>1. PICK f : f = [i \in 0..k |-> Step(f, i)]
    BY <1>2
  <2> DEFINE m == k + 1
             g == [i \in 0..m |-> IF i < m THEN f[i] ELSE RemoveElement(f[m - 1], ks[m])]
  <2>2. m \in Nat /\ m - 1 = k /\ m # 0
    OBVIOUS
  <2> HIDE DEF m
  <2>3. \A i \in 0..m : g[i] = Step(g, i)
    <3> SUFFICES ASSUME NEW i \in 0..m PROVE g[i] = Step(g, i)
      OBVIOUS
    <3>1. CASE i = 0
      <4>1. f[0] = Step(f, 0)
        BY <2>1
      <4> QED BY <2>2, <3>1, <4>1
    <3>2. CASE i # 0 /\ i < m
      <4>1. i \in 0..k /\ i - 1 \in 0..m /\ i - 1 < m
        BY <2>2, <3>2
      <4>2. f[i] = RemoveElement(f[i - 1], ks[i])
        BY <2>1, <3>2, <4>1
      <4>3. g[i] = f[i] /\ g[i - 1] = f[i - 1]
        BY <3>2, <4>1
      <4> HIDE DEF g
      <4> QED BY <3>2, <4>2, <4>3
    <3>3. CASE i = m
      <4>1. m - 1 \in 0..m /\ m - 1 < m /\ ~(m < m)
        BY <2>2
      <4>2. g[m] = RemoveElement(f[m - 1], ks[m]) /\ g[m - 1] = f[m - 1]
        BY <2>2, <4>1
      <4> HIDE DEF g
      <4> QED BY <2>2, <3>3, <4>2
    <3> QED BY <2>2, <3>1, <3>2, <3>3
  <2>4. g = [i \in 0..m |-> Step(g, i)]
    <3>1. g = [i \in 0..m |-> g[i]]
      OBVIOUS
    <3> HIDE DEF g
    <3> QED BY <2>3, <3>1
  <2>5. Has(m)
    BY <2>4
  <2> QED BY <2>2, <2>5 DEF m
<1> HIDE DEF S
<1>3. n \in S
  BY <1>1, <1>2, NatSetInduction
<1> QED BY <1>3 DEF S

\* ... whose values obey it.
LEMMA BoardsFacts ==
  ASSUME NEW b, NEW ks, Len(ks) \in Nat
  PROVE  /\ Boards(b, ks)[0] = b
         /\ \A i \in 1..Len(ks) : Boards(b, ks)[i] = RemoveElement(Boards(b, ks)[i - 1], ks[i])
<1> DEFINE f == Boards(b, ks)
<1>1. f = [i \in 0..Len(ks) |-> IF i = 0 THEN b ELSE RemoveElement(f[i - 1], ks[i])]
  BY BoardsExist DEF Boards
<1> HIDE DEF f
<1>2. f[0] = b
  BY <1>1
<1>3. \A i \in 1..Len(ks) : f[i] = RemoveElement(f[i - 1], ks[i])
  BY <1>1
<1> QED BY <1>2, <1>3 DEF f

\* remove, of a board.
LEMMA RemoveElementGood ==
  ASSUME NEW b, GoodBoard(b), NEW k \in DOMAIN b.loc
  PROVE  /\ GoodBoard(RemoveElement(b, k)) /\ DOMAIN RemoveElement(b, k).loc = DOMAIN b.loc \ {k}
         /\ SameScores(b.con, b.loc, RemoveElement(b, k).con, RemoveElement(b, k).loc)
<1> DEFINE c2 == MovedContent(b.els, b.con, b.size, b.loc, k)
           l2 == MovedIndex(b.els, b.con, b.size, b.loc, k)
           d2 == MovedSets(b.els, b.con, b.size, b.loc, b.dst, k)
<1>1. RemoveElement(b, k) = [els |-> b.els, size |-> b.size - 1, loc |-> l2, con |-> c2, dst |-> d2]
  BY DEF RemoveElement, MovedContent, MovedIndex, MovedSets, LeftSets
<1>2. Good(b.els, b.con, b.size, b.loc, b.dst)
  BY DEF GoodBoard
<1>3. Good(b.els, c2, b.size - 1, l2, d2) /\ DOMAIN l2 = DOMAIN b.loc \ {k} /\ SameScores(b.con, b.loc, c2, l2)
  BY <1>2, RemoveGood
<1> HIDE DEF c2, l2, d2
<1> QED BY <1>1, <1>3 DEF GoodBoard

\* After i rounds of wipe the first i keys are gone and the others are as before.
After(b, ks, f, i) ==
  /\ GoodBoard(f[i]) /\ DOMAIN f[i].loc = DOMAIN b.loc \ {ks[j] : j \in 1..i}
  /\ SameScores(b.con, b.loc, f[i].con, f[i].loc)

\* What the loop of wipe ends with: an induction over its rounds.
LEMMA RemoveAllGood ==
  ASSUME NEW b, GoodBoard(b), NEW n \in Nat, NEW ks \in [1..n -> DOMAIN b.loc]
  PROVE  /\ GoodBoard(RemoveAll(b, ks))
         /\ DOMAIN RemoveAll(b, ks).loc = DOMAIN b.loc \ {ks[j] : j \in 1..n}
         /\ SameScores(b.con, b.loc, RemoveAll(b, ks).con, RemoveAll(b, ks).loc)
<1> DEFINE f == Boards(b, ks)
           S == {i \in Nat : i <= n => After(b, ks, f, i)}
<1>1. Len(ks) = n
  OBVIOUS
<1>2. f[0] = b /\ \A i \in 1..n : f[i] = RemoveElement(f[i - 1], ks[i])
  BY <1>1, BoardsFacts
<1> HIDE DEF f
<1>3. 0 \in S
  <2>1. {ks[j] : j \in 1..0} = {}
    OBVIOUS
  <2>2. SameScores(b.con, b.loc, b.con, b.loc)
    BY DEF SameScores
  <2> QED BY <1>2, <2>1, <2>2 DEF After
<1>4. ASSUME NEW m \in Nat, m \in S PROVE m + 1 \in S
  <2>1. SUFFICES ASSUME m + 1 <= n PROVE After(b, ks, f, m + 1)
    OBVIOUS
  <2>2. After(b, ks, f, m)
    BY <1>4, <2>1
  <2> DEFINE g == f[m]
             k == ks[m + 1]
             h == RemoveElement(g, k)
  <2>3. f[m + 1] = h /\ k \in DOMAIN b.loc
    <3>1. m + 1 \in 1..n /\ (m + 1) - 1 = m
      BY <2>1
    <3> QED BY <1>2, <3>1
  <2>4. {ks[j] : j \in 1..(m + 1)} = {ks[j] : j \in 1..m} \cup {k}
    <3>1. \A j \in 1..(m + 1) : j = m + 1 \/ j \in 1..m
      OBVIOUS
    <3>2. m + 1 \in 1..(m + 1) /\ \A j \in 1..m : j \in 1..(m + 1)
      OBVIOUS
    <3> QED BY <3>1, <3>2
  <2>5. GoodBoard(g) /\ DOMAIN g.loc = DOMAIN b.loc \ {ks[j] : j \in 1..m} /\ SameScores(b.con, b.loc, g.con, g.loc)
    BY <2>2 DEF After
  <2> HIDE DEF g, k
  <2>6. GoodBoard(h) /\ DOMAIN h.loc = DOMAIN g.loc \ {k} /\ SameScores(g.con, g.loc, h.con, h.loc)
    <3>1. CASE k \in DOMAIN g.loc
      BY <2>5, <3>1, RemoveElementGood
    <3>2. CASE k \notin DOMAIN g.loc
      <4>1. h = g
        BY <3>2 DEF RemoveElement
      <4>2. SameScores(g.con, g.loc, g.con, g.loc)
        BY DEF SameScores
      <4> HIDE DEF h
      <4> QED BY <2>5, <3>2, <4>1, <4>2
    <3> QED BY <3>1, <3>2
  <2> HIDE DEF h
  <2>7. SameScores(b.con, b.loc, h.con, h.loc)
    BY <2>5, <2>6 DEF SameScores
  <2>8. DOMAIN h.loc = DOMAIN b.loc \ {ks[j] : j \in 1..(m + 1)}
    BY <2>4, <2>5, <2>6
  <2> QED BY <2>3, <2>6, <2>7, <2>8 DEF After
<1> HIDE DEF S
<1>5. n \in S
  BY <1>3, <1>4, NatSetInduction
<1>6. After(b, ks, f, n)
  BY <1>5 DEF S
<1>7. RemoveAll(b, ks) = f[n]
  BY <1>1, RemoveAllIsLast DEF f
<1> QED BY <1>6, <1>7 DEF After

\* The elements of a list are those the two indexes lead to.
LEMMA CollectedFacts ==
  ASSUME ContainerStrong, NEW x \in Lists
  PROVE  /\ Collected(x) = {k \in DOMAIN elementlocator : x \in ListsOf(k)}
         /\ Cardinality(Collected(x)) \in Nat
<1> DEFINE L == DOMAIN elementlocator
<1>1. /\ \A k \in L : elementlocator[k] \in InUse /\ content[elementlocator[k]].key = k
      /\ \A o \in InUse : content[o].key \in L /\ elementlocator[content[o].key] = o
      /\ destinationlocator[x] = {o \in InUse : Dst(content[o].key) = x}
      /\ elementlocator \in [L -> Object]
  BY DEF ContainerStrong, Good, Used, InUse
<1>2. {content[o].key : o \in destinationlocator[x]} = {k \in L : k[3] = x}
  BY <1>1 DEF Dst
<1>3. Collected(x) = {k \in L : x \in ListsOf(k)}
  BY <1>2 DEF Collected, ListsOf
<1>4. IsFiniteSet(L)
  <2>1. elementlocator \in Injection(L, Object)
    <3>1. \A k, m \in L : elementlocator[k] = elementlocator[m] => k = m
      BY <1>1
    <3> QED BY <1>1, <3>1 DEF Injection, IsInjective
  <2>2. IsFiniteSet(Object)
    BY ContainerAssumption, FS_Interval DEF Object
  <2> QED BY <2>1, <2>2, FS_Injection
<1>5. Collected(x) \in SUBSET L
  BY <1>3
<1> QED BY <1>3, <1>4, <1>5, FS_Subset, FS_CardinalityType

\* wipe removes the entries of the list and no others.
LEMMA WipeGood ==
  ASSUME ContainerStrong, NEW x \in Lists, wipe(x)
  PROVE  /\ ContainerStrong'
         /\ DOMAIN elementlocator' = {k \in DOMAIN elementlocator : x \notin ListsOf(k)}
         /\ SameScores(content, elementlocator, content', elementlocator')
<1> DEFINE n == Cardinality(Collected(x))
<1>1. n \in Nat /\ Collected(x) = {k \in DOMAIN elementlocator : x \in ListsOf(k)}
  BY CollectedFacts
<1>2. PICK ks \in [1..n -> Collected(x)] :
        {ks[i] : i \in DOMAIN ks} = Collected(x) /\ SetBoard(RemoveAll(Board, ks))
  BY DEF wipe
<1> HIDE DEF n
<1>3. GoodBoard(Board) /\ Board.con = content /\ Board.loc = elementlocator
  BY DEF GoodBoard, Board, ContainerStrong
<1>4. ks \in [1..n -> DOMAIN Board.loc] /\ {ks[j] : j \in 1..n} = Collected(x)
  BY <1>1, <1>2, <1>3
<1> DEFINE r == RemoveAll(Board, ks)
<1>5. /\ GoodBoard(r) /\ DOMAIN r.loc = DOMAIN Board.loc \ {ks[j] : j \in 1..n}
      /\ SameScores(Board.con, Board.loc, r.con, r.loc)
  BY <1>1, <1>3, <1>4, RemoveAllGood
<1>6. /\ elements' = r.els /\ content' = r.con /\ showsize' = r.size
      /\ elementlocator' = r.loc /\ destinationlocator' = r.dst
  BY <1>2 DEF SetBoard
<1> HIDE DEF r
<1>7. ContainerStrong'
  BY <1>5, <1>6 DEF ContainerStrong, GoodBoard
<1>8. DOMAIN elementlocator' = {k \in DOMAIN elementlocator : x \notin ListsOf(k)}
  BY <1>1, <1>3, <1>4, <1>5, <1>6
<1>9. SameScores(content, elementlocator, content', elementlocator')
  BY <1>3, <1>5, <1>6
<1> QED BY <1>7, <1>8, <1>9

-----------------------------------------------------------------------------
(***************************************************************************)
(* update, setAttempted, remove and wipe of everything.                    *)
(***************************************************************************)
\* remove of one element.
LEMMA RemoveStepGood ==
  ASSUME ContainerStrong, NEW k \in Key, remove(k)
  PROVE  /\ ContainerStrong' /\ DOMAIN elementlocator' = DOMAIN elementlocator \ {k}
         /\ SameScores(content, elementlocator, content', elementlocator')
<1> DEFINE r == RemoveElement(Board, k)
<1>1. GoodBoard(Board) /\ Board.con = content /\ Board.loc = elementlocator /\ k \in DOMAIN Board.loc
  BY DEF GoodBoard, Board, ContainerStrong, remove
<1>2. GoodBoard(r) /\ DOMAIN r.loc = DOMAIN Board.loc \ {k} /\ SameScores(Board.con, Board.loc, r.con, r.loc)
  BY <1>1, RemoveElementGood
<1>3. /\ elements' = r.els /\ content' = r.con /\ showsize' = r.size
      /\ elementlocator' = r.loc /\ destinationlocator' = r.dst
  BY DEF SetBoard, remove
<1> HIDE DEF r
<1>4. ContainerStrong'
  BY <1>2, <1>3 DEF ContainerStrong, GoodBoard
<1> QED BY <1>1, <1>2, <1>3, <1>4

\* A change of contents that keeps every key.
LEMMA RewriteGood ==
  ASSUME NEW e, NEW c, NEW n, NEW l, NEW d, Good(e, c, n, l, d), NEW c2 \in [Used(e, Len(e)) -> Content],
         \A o \in Used(e, Len(e)) : c2[o].key = c[o].key
  PROVE  Good(e, c2, n, l, d)
<1>1. Used(e, n) \subseteq Used(e, Len(e))
  BY UsedFacts DEF Good
<1>2. \A o \in Used(e, n) : c2[o].key = c[o].key
  BY <1>1
<1>3. \A k \in DOMAIN l : c2[l[k]].key = k
  BY <1>2 DEF Good
<1>4. \A o \in Used(e, n) : c2[o].key \in DOMAIN l /\ l[c2[o].key] = o
  BY <1>2 DEF Good
<1>5. \A x \in Lists : d[x] = {o \in Used(e, n) : Dst(c2[o].key) = x}
  BY <1>2 DEF Good
<1> QED BY <1>3, <1>4, <1>5 DEF Good

\* update of an element that is there.
LEMMA UpdateKnownGood ==
  ASSUME ContainerStrong, NEW k \in Key, NEW s \in Score, UpdateKnown(k, s)
  PROVE  /\ ContainerStrong' /\ elementlocator' = elementlocator /\ k \in DOMAIN elementlocator
         /\ content'[elementlocator[k]].score = s
         /\ \A x \in DOMAIN elementlocator \ {k} : content'[elementlocator[x]] = content[elementlocator[x]]
<1> DEFINE o == elementlocator[k]
           U == Used(elements, Len(elements))
           new == [content[o] EXCEPT !.score = s, !.attempted = FALSE]
<1>1. /\ content \in [U -> Content] /\ k \in DOMAIN elementlocator
      /\ \A x \in DOMAIN elementlocator : elementlocator[x] \in U /\ content[elementlocator[x]].key = x
  BY UsedFacts DEF ContainerStrong, Good, UpdateKnown
<1>2. o \in U /\ content[o] \in Content
  BY <1>1
<1>3. new \in Content /\ new.key = content[o].key /\ new.score = s
  BY <1>2 DEF Content
<1>4. content' = [content EXCEPT ![o] = new]
  BY <1>1, <1>2 DEF UpdateKnown
<1> HIDE DEF new
<1>5. content' \in [U -> Content] /\ content'[o] = new /\ \A p \in U : p # o => content'[p] = content[p]
  BY <1>1, <1>2, <1>3, <1>4
<1>6. \A p \in U : content'[p].key = content[p].key
  BY <1>3, <1>5
<1>7. UNCHANGED <<elements, showsize, elementlocator, destinationlocator>>
  BY DEF UpdateKnown
<1>8. Good(elements, content', showsize, elementlocator, destinationlocator)
  BY <1>5, <1>6, RewriteGood DEF ContainerStrong
<1>9. ContainerStrong'
  BY <1>7, <1>8 DEF ContainerStrong
<1>10. \A x \in DOMAIN elementlocator \ {k} : elementlocator[x] # o /\ elementlocator[x] \in U
  BY <1>1
<1> QED BY <1>1, <1>3, <1>5, <1>7, <1>9, <1>10

\* An attempt changes neither the keys nor the scores.
LEMMA SetAttemptedGood ==
  ASSUME ContainerStrong, NEW k \in Key, setAttempted(k)
  PROVE  /\ ContainerStrong' /\ elementlocator' = elementlocator
         /\ SameScores(content, elementlocator, content', elementlocator')
<1> DEFINE o == elementlocator[k]
           U == Used(elements, Len(elements))
           new == [content[o] EXCEPT !.attempted = TRUE]
<1>1. /\ content \in [U -> Content] /\ k \in DOMAIN elementlocator
      /\ \A x \in DOMAIN elementlocator : elementlocator[x] \in U
  BY UsedFacts DEF ContainerStrong, Good, setAttempted
<1>2. o \in U /\ content[o] \in Content
  BY <1>1
<1>3. new \in Content /\ new.key = content[o].key /\ new.score = content[o].score
  BY <1>2 DEF Content
<1>4. content' = [content EXCEPT ![o] = new]
  BY <1>1, <1>2 DEF setAttempted
<1> HIDE DEF new
<1>5. content' \in [U -> Content] /\ content'[o] = new /\ \A p \in U : p # o => content'[p] = content[p]
  BY <1>1, <1>2, <1>3, <1>4
<1>6. \A p \in U : content'[p].key = content[p].key /\ content'[p].score = content[p].score
  BY <1>3, <1>5
<1>7. UNCHANGED <<elements, showsize, elementlocator, destinationlocator>>
  BY DEF setAttempted
<1>8. Good(elements, content', showsize, elementlocator, destinationlocator)
  BY <1>5, <1>6, RewriteGood DEF ContainerStrong
<1>9. ContainerStrong'
  BY <1>7, <1>8 DEF ContainerStrong
<1>10. SameScores(content, elementlocator, content', elementlocator')
  BY <1>1, <1>6, <1>7 DEF SameScores
<1> QED BY <1>7, <1>9, <1>10

\* wipe of everything.
LEMMA WipeAllGood ==
  ASSUME ContainerStrong, wipeAll
  PROVE  ContainerStrong' /\ DOMAIN elementlocator' = {}
<1>1. /\ showsize' = 0 /\ elements' = elements /\ content' = content
      /\ elementlocator' = [k \in {} |-> 0] /\ destinationlocator' = [x \in Lists |-> {}]
  BY DEF wipeAll
<1>2. Used(elements, 0) = {} /\ DOMAIN elementlocator' = {}
  BY <1>1 DEF Used
<1>3. GoodArray(elements) /\ Len(elements) \in Nat /\ content \in [Used(elements, Len(elements)) -> Content]
  BY LenProperties DEF ContainerStrong, Good, GoodArray
<1>4. elementlocator' \in [DOMAIN elementlocator' -> Object] /\ destinationlocator' \in [Lists -> SUBSET Object]
  BY <1>1
<1> QED BY <1>1, <1>2, <1>3, <1>4 DEF ContainerStrong, Good

\* The index and the sets with one more element.
InsertedIndex(l, k, o) == [x \in DOMAIN l \cup {k} |-> IF x = k THEN o ELSE l[x]]
InsertedSets(d, k, o) == [d EXCEPT ![Dst(k)] = @ \cup {o}]

\* An element in the next object of an array e2 that begins like e.
LEMMA InsertGood ==
  ASSUME NEW e, NEW c, NEW n, NEW l, NEW d, Good(e, c, n, l, d),
         NEW e2, GoodArray(e2), n < Len(e2), \A i \in 1..n : e2[i] = e[i],
         NEW c2 \in [Used(e2, Len(e2)) -> Content], \A p \in Used(e, n) : c2[p] = c[p],
         NEW k \in Key, k \notin DOMAIN l, c2[e2[n + 1]].key = k
  PROVE  Good(e2, c2, n + 1, InsertedIndex(l, k, e2[n + 1]), InsertedSets(d, k, e2[n + 1]))
<1> DEFINE o == e2[n + 1]
           l2 == InsertedIndex(l, k, o)
           d2 == InsertedSets(d, k, o)
<1>0. /\ l2 = [x \in DOMAIN l \cup {k} |-> IF x = k THEN o ELSE l[x]]
      /\ d2 = [d EXCEPT ![Dst(k)] = @ \cup {o}]
  BY DEF InsertedIndex, InsertedSets
<1>1. GoodArray(e) /\ n \in Nat /\ Len(e2) \in Nat /\ n \in 0..(Len(e2) - 1) /\ n + 1 \in 0..Len(e2) /\ n + 1 \in 1..Len(e2)
  BY LenProperties DEF Good, GoodArray
<1>2. Used(e2, n) = Used(e, n)
  BY DEF Used
<1>3. Used(e2, n + 1) = Used(e, n) \cup {o} /\ o \notin Used(e, n)
  BY <1>1, <1>2, UsedMore
<1>4. o \in Object
  BY <1>1, ElementOfSeq DEF GoodArray
<1> HIDE DEF o, l2, d2
<1> USE <1>0
<1>5. o = e2[n + 1]
  BY DEF o
<1>6. DOMAIN l2 = DOMAIN l \cup {k} /\ DOMAIN l2 \subseteq Key /\ l2 \in [DOMAIN l2 -> Object]
  BY <1>4, <1>5 DEF Good
<1>7. l2[k] = o /\ \A x \in DOMAIN l : l2[x] = l[x]
  BY <1>5
<1>8. \A x \in DOMAIN l2 : l2[x] \in Used(e2, n + 1) /\ c2[l2[x]].key = x
  BY <1>3, <1>5, <1>6, <1>7 DEF Good
<1>9. \A p \in Used(e2, n + 1) : c2[p].key \in DOMAIN l2 /\ l2[c2[p].key] = p
  BY <1>3, <1>5, <1>6, <1>7 DEF Good
<1>10. d \in [Lists -> SUBSET Object] /\ Dst(k) \in Lists
  BY DstIsList DEF Good
<1>11. d2 \in [Lists -> SUBSET Object] /\ \A x \in Lists : d2[x] = IF x = Dst(k) THEN d[x] \cup {o} ELSE d[x]
  BY <1>4, <1>5, <1>10
<1>12. \A x \in Lists : d2[x] = {p \in Used(e2, n + 1) : Dst(c2[p].key) = x}
  <2> SUFFICES ASSUME NEW x \in Lists PROVE d2[x] = {p \in Used(e2, n + 1) : Dst(c2[p].key) = x}
    OBVIOUS
  <2>1. d[x] = {p \in Used(e, n) : Dst(c[p].key) = x}
    BY DEF Good
  <2> QED BY <1>3, <1>5, <1>11, <2>1
<1>13. Good(e2, c2, n + 1, l2, d2)
  BY <1>1, <1>6, <1>8, <1>9, <1>11, <1>12 DEF Good
<1> QED BY <1>13 DEF l2, d2, o

\* RESIZE_CHUNK new objects.
LEMMA NewObjects ==
  ASSUME NEW e \in Seq(Nat), NEW n \in Nat, n = Len(e), NEW c \in Nat
  PROVE  /\ e \o [i \in 1..c |-> n + i] \in Seq(Nat) /\ Len(e \o [i \in 1..c |-> n + i]) = n + c
         /\ \A i \in 1..n : (e \o [j \in 1..c |-> n + j])[i] = e[i]
         /\ \A i \in 1..(n + c) : i > n => (e \o [j \in 1..c |-> n + j])[i] = i
<1> DEFINE t == [i \in 1..c |-> n + i]
<1>1. t \in Seq(Nat) /\ Len(t) = c /\ \A i \in 1..c : t[i] = n + i
  OBVIOUS
<1> HIDE DEF t
<1>2. /\ e \o t \in Seq(Nat) /\ Len(e \o t) = Len(e) + Len(t)
      /\ \A i \in 1..(Len(e) + Len(t)) : (e \o t)[i] = IF i <= Len(e) THEN e[i] ELSE t[i - Len(e)]
  BY <1>1, ConcatProperties
<1>3. \A i \in 1..(n + c) : (e \o t)[i] = IF i <= n THEN e[i] ELSE t[i - n]
  BY <1>1, <1>2
<1>4. \A i \in 1..n : (e \o t)[i] = e[i]
  BY <1>3
<1>5. \A i \in 1..(n + c) : i > n => (e \o t)[i] = i
  <2> SUFFICES ASSUME NEW i \in 1..(n + c), i > n PROVE (e \o t)[i] = i
    OBVIOUS
  <2>1. i - n \in 1..c /\ n + (i - n) = i /\ ~(i <= n)
    OBVIOUS
  <2>2. (e \o t)[i] = t[i - n] /\ t[i - n] = n + (i - n)
    BY <1>1, <1>3, <2>1
  <2> QED BY <2>1, <2>2
<1> QED BY <1>1, <1>2, <1>4, <1>5 DEF t

\* The array with RESIZE_CHUNK new objects, and these.
Grown(e) == e \o [i \in 1..RESIZE_CHUNK |-> Len(e) + i]
NewOf(e) == Len(e) + 1..Len(e) + RESIZE_CHUNK

\* update may make new objects.
LEMMA GrowArray ==
  ASSUME NEW e, GoodArray(e), Len(Grown(e)) <= Capacity
  PROVE  /\ GoodArray(Grown(e)) /\ Len(e) < Len(Grown(e)) /\ \A i \in 1..Len(e) : Grown(e)[i] = e[i]
         /\ Used(Grown(e), Len(Grown(e))) = Used(e, Len(e)) \cup NewOf(e)
         /\ Used(e, Len(e)) \cap NewOf(e) = {} /\ Grown(e)[Len(e) + 1] \in NewOf(e)
<1> DEFINE n == Len(e)
           c == RESIZE_CHUNK
           e2 == Grown(e)
<1>1. /\ n \in Nat /\ c \in Nat /\ c > 0 /\ e \in Seq(Nat)
      /\ Capacity \in Nat /\ (\A i \in 1..n : e[i] \in 1..n) /\ \A i, j \in 1..n : e[i] = e[j] => i = j
  <2>1. Object \subseteq Nat
    BY DEF Object
  <2> QED BY <2>1, ContainerAssumption, LenProperties DEF GoodArray
<1>2. n = Len(e) /\ NewOf(e) = (n + 1..n + c)
  BY DEF NewOf
<1>3. Len(e2) = n + c /\ e2 \in Seq(Nat)
  BY <1>1, NewObjects DEF Grown
<1>4. \A i \in 1..(n + c) : i > n => e2[i] = i
  BY <1>1, NewObjects DEF Grown
<1>5. \A i \in 1..n : e2[i] = e[i]
  BY <1>1, NewObjects DEF Grown
<1>6. n + c <= Capacity
  BY <1>3
<1> HIDE DEF n, c, e2
<1>7. \A i \in 1..(n + c) : e2[i] \in 1..(n + c) /\ e2[i] \in Object
  <2> SUFFICES ASSUME NEW i \in 1..(n + c) PROVE e2[i] \in 1..(n + c) /\ e2[i] \in 1..Capacity
    BY DEF Object
  <2>1. CASE i <= n
    <3>1. e2[i] \in 1..n
      BY <1>1, <1>5, <2>1
    <3> QED BY <1>1, <1>6, <3>1
  <2>2. CASE i > n
    BY <1>1, <1>4, <1>6, <2>2
  <2> QED BY <1>1, <2>1, <2>2
<1>8. \A i, j \in 1..(n + c) : e2[i] = e2[j] => i = j
  <2> SUFFICES ASSUME NEW i \in 1..(n + c), NEW j \in 1..(n + c), e2[i] = e2[j] PROVE i = j
    OBVIOUS
  <2>1. \A x, y \in 1..n : e[x] = e[y] => x = y
    BY <1>1
  <2>2. CASE i <= n /\ j <= n
    BY <1>1, <1>5, <2>1, <2>2
  <2>3. CASE i > n /\ j > n
    BY <1>4, <2>3
  <2>4. CASE i <= n /\ j > n
    <3>1. e2[i] \in 1..n /\ e2[j] = j
      BY <1>1, <1>4, <1>5, <2>4
    <3> QED BY <1>1, <2>4, <3>1
  <2>5. CASE i > n /\ j <= n
    <3>1. e2[j] \in 1..n /\ e2[i] = i
      BY <1>1, <1>4, <1>5, <2>5
    <3> QED BY <1>1, <2>5, <3>1
  <2> QED BY <1>1, <2>2, <2>3, <2>4, <2>5
<1>9. e2 \in Seq(Object)
  <2>1. e2 = [i \in 1..Len(e2) |-> e2[i]] /\ Len(e2) \in Nat
    BY <1>3, LenProperties
  <2> QED BY <1>3, <1>7, <2>1
<1>10. GoodArray(e2)
  BY <1>3, <1>7, <1>8, <1>9 DEF GoodArray
<1>11. Used(e2, n + c) = Used(e, n) \cup (n + 1..n + c)
  <2>1. \A i \in 1..(n + c) : e2[i] \in Used(e, n) \cup (n + 1..n + c)
    <3> SUFFICES ASSUME NEW i \in 1..(n + c) PROVE e2[i] \in Used(e, n) \cup (n + 1..n + c)
      OBVIOUS
    <3>1. CASE i <= n
      BY <1>1, <1>5, <3>1 DEF Used
    <3>2. CASE i > n
      BY <1>1, <1>4, <3>2
    <3> QED BY <1>1, <3>1, <3>2
  <2>2. \A i \in 1..n : i \in 1..(n + c) /\ e[i] = e2[i]
    BY <1>1, <1>5
  <2>3. \A i \in n + 1..n + c : i \in 1..(n + c) /\ e2[i] = i
    BY <1>1, <1>4
  <2> QED BY <2>1, <2>2, <2>3 DEF Used
<1>12. Used(e, n) \cap (n + 1..n + c) = {}
  BY <1>1 DEF Used
<1>13. e2[n + 1] = n + 1
  BY <1>1, <1>4
<1>14. n < n + c /\ n + 1 \in (n + 1..n + c)
  BY <1>1
<1>15. Len(e2) = n + c
  BY <1>3
<1>16. /\ GoodArray(e2) /\ n < Len(e2)
       /\ Used(e2, Len(e2)) = Used(e, n) \cup NewOf(e)
       /\ Used(e, n) \cap NewOf(e) = {} /\ e2[n + 1] \in NewOf(e)
  BY <1>2, <1>10, <1>11, <1>12, <1>13, <1>14, <1>15
<1> QED BY <1>5, <1>16 DEF n, e2

\* update of a new element.
LEMMA UpdateNewGood ==
  ASSUME ContainerStrong, NEW k \in Key, NEW s \in Score, UpdateNew(k, s)
  PROVE  /\ ContainerStrong' /\ DOMAIN elementlocator' = DOMAIN elementlocator \cup {k}
         /\ content'[elementlocator'[k]].score = s
         /\ \A x \in DOMAIN elementlocator : content'[elementlocator'[x]].score = content[elementlocator[x]].score
<1> DEFINE e == elements
           n == showsize
           e2 == elements'
           o == e2[n + 1]
           new == NewOf(e)
<1>1. GoodArray(e) /\ n \in 0..Len(e) /\ content \in [Used(e, Len(e)) -> Content] /\ Len(e) \in Nat
  BY LenProperties DEF ContainerStrong, Good, GoodArray
<1>2. NewElement(k, s) \in Content /\ NewElement(k, s).key = k /\ NewElement(k, s).score = s
  BY DEF NewElement, Content
<1>3. /\ k \notin DOMAIN elementlocator /\ showsize' = n + 1 /\ Len(e2) <= Capacity
      /\ elementlocator' = [x \in DOMAIN elementlocator \cup {k} |-> IF x = k THEN o ELSE elementlocator[x]]
      /\ destinationlocator' = [destinationlocator EXCEPT ![Dst(k)] = @ \cup {o}]
  BY DEF UpdateNew
<1>4. \A x \in DOMAIN elementlocator : elementlocator[x] \in Used(e, n)
  BY DEF ContainerStrong, Good
<1>5. Used(e, n) \subseteq Used(e, Len(e))
  BY <1>1, UsedFacts
<1>6. /\ GoodArray(e2) /\ n < Len(e2) /\ (\A i \in 1..n : e2[i] = e[i])
      /\ content' \in [Used(e2, Len(e2)) -> Content]
      /\ content'[o] = NewElement(k, s) /\ \A p \in Used(e, n) : content'[p] = content[p]
  <2>1. CASE n = Len(e)
    <3>1. e2 = Grown(e) /\ content' = [x \in Used(e, Len(e)) \cup new |-> IF x \in new THEN NewElement(k, s) ELSE content[x]]
      BY <2>1 DEF UpdateNew, Used, Grown, NewOf
    <3>2. Len(Grown(e)) <= Capacity
      BY <1>3, <3>1
    <3>3. /\ GoodArray(e2) /\ Len(e) < Len(e2) /\ (\A i \in 1..Len(e) : e2[i] = e[i])
          /\ Used(e2, Len(e2)) = Used(e, Len(e)) \cup new /\ Used(e, Len(e)) \cap new = {}
          /\ e2[Len(e) + 1] \in new
      BY <1>1, <3>1, <3>2, GrowArray
    <3> HIDE DEF e2, new
    <3>4. content' \in [Used(e2, Len(e2)) -> Content]
      BY <1>1, <1>2, <3>1, <3>3
    <3>5. o \in new
      BY <2>1, <3>3
    <3> HIDE DEF o
    <3>6. content'[o] = NewElement(k, s) /\ \A p \in Used(e, n) : content'[p] = content[p]
      BY <2>1, <3>1, <3>3, <3>5
    <3> QED BY <2>1, <3>3, <3>4, <3>6
  <2>2. CASE n # Len(e)
    <3>1. e2 = e /\ content' = [content EXCEPT ![o] = NewElement(k, s)]
      BY <2>2 DEF UpdateNew
    <3>2. n \in 0..(Len(e) - 1) /\ n < Len(e) /\ n + 1 \in 1..Len(e)
      BY <1>1, <2>2
    <3>3. o \notin Used(e, n) /\ o \in Used(e, Len(e))
      BY <1>1, <3>1, <3>2, UsedMore DEF Used
    <3> HIDE DEF o
    <3> QED BY <1>1, <1>2, <1>5, <3>1, <3>2, <3>3
  <2> QED BY <2>1, <2>2
<1>7. ContainerStrong'
  <2>1. Good(e, content, n, elementlocator, destinationlocator)
    BY DEF ContainerStrong
  <2>2. content'[e2[n + 1]].key = k
    BY <1>2, <1>6
  <2>3. Good(e2, content', n + 1, InsertedIndex(elementlocator, k, o), InsertedSets(destinationlocator, k, o))
    BY <1>3, <1>6, <2>1, <2>2, InsertGood
  <2>4. elementlocator' = InsertedIndex(elementlocator, k, o) /\ destinationlocator' = InsertedSets(destinationlocator, k, o)
    BY <1>3 DEF InsertedIndex, InsertedSets
  <2> QED BY <1>3, <2>3, <2>4 DEF ContainerStrong
<1>8. o \notin Used(e, n)
  <2>1. Len(e2) \in Nat /\ n \in 0..(Len(e2) - 1)
    BY <1>1, <1>6, LenProperties DEF GoodArray
  <2>2. Used(e2, n) = Used(e, n)
    BY <1>6 DEF Used
  <2>3. e2[n + 1] \notin Used(e2, n)
    BY <1>6, <2>1, UsedMore
  <2> QED BY <2>2, <2>3
<1> HIDE DEF o
<1>9. content'[elementlocator'[k]].score = s
  BY <1>2, <1>3, <1>6
<1>10. \A x \in DOMAIN elementlocator : elementlocator'[x] = elementlocator[x]
  BY <1>3
<1> QED BY <1>3, <1>4, <1>6, <1>7, <1>9, <1>10

-----------------------------------------------------------------------------
(***************************************************************************)
(* sort: the element at i goes to the position that as many elements come  *)
(* after as are lower, counting equal scores by their position.            *)
(***************************************************************************)
Slot == 1..showsize
Before(j, i) == ScoreAt(j) < ScoreAt(i) \/ (ScoreAt(j) = ScoreAt(i) /\ j < i)
Lower(i) == {j \in Slot : Before(j, i)}

\* The scores and positions of a good board.
LEMMA SlotFacts ==
  ASSUME ContainerStrong
  PROVE  /\ showsize \in Nat /\ Len(elements) \in Nat /\ showsize <= Len(elements)
         /\ IsFiniteSet(Slot) /\ Cardinality(Slot) = showsize
         /\ \A i \in Slot : ScoreAt(i) \in Nat
         /\ \A i, j \in Slot : elements[i] = elements[j] => i = j
<1>1. GoodArray(elements) /\ showsize \in 0..Len(elements) /\ content \in [Used(elements, Len(elements)) -> Content]
  BY DEF ContainerStrong, Good
<1>2. Len(elements) \in Nat /\ showsize \in Nat /\ showsize <= Len(elements)
  BY <1>1, LenProperties DEF GoodArray
<1>3. IsFiniteSet(Slot) /\ Cardinality(Slot) = showsize
  <2>1. 1 \in Int /\ showsize \in Int
    BY <1>2
  <2>2. IsFiniteSet(1..showsize) /\ Cardinality(1..showsize) = IF 1 > showsize THEN 0 ELSE showsize - 1 + 1
    BY <2>1, FS_Interval
  <2> QED BY <1>2, <2>2 DEF Slot
<1>4. \A i \in Slot : i \in 1..Len(elements)
  BY <1>2 DEF Slot
<1>5. \A i \in Slot : ScoreAt(i) \in Nat
  <2> SUFFICES ASSUME NEW i \in Slot PROVE ScoreAt(i) \in Nat
    OBVIOUS
  <2>1. content[elements[i]] \in Content
    BY <1>1, <1>4 DEF Used
  <2>2. content[elements[i]].score \in 0..MaxScore
    BY <2>1 DEF Content, Score
  <2> QED BY <2>2, ContainerAssumption DEF ScoreAt
<1> QED BY <1>1, <1>2, <1>3, <1>4, <1>5 DEF GoodArray

\* Place counts the elements that are lower.
LEMMA PlaceIs ==
  ASSUME ContainerStrong, NEW i \in Slot
  PROVE  /\ Place(i) = showsize - Cardinality(Lower(i))
         /\ Cardinality(Lower(i)) \in Nat /\ Cardinality(Lower(i)) < showsize
<1> DEFINE A == {j \in 1..showsize : ScoreAt(j) < ScoreAt(i)}
           B == {j \in 1..(i - 1) : ScoreAt(j) = ScoreAt(i)}
<1>1. showsize \in Nat /\ IsFiniteSet(Slot) /\ Cardinality(Slot) = showsize /\ \A j \in Slot : ScoreAt(j) \in Nat
  BY SlotFacts
<1>2. Lower(i) = A \cup B /\ A \cap B = {}
  <2>1. \A j \in 1..(i - 1) : j \in Slot /\ j < i
    BY <1>1 DEF Slot
  <2>2. \A j \in Slot : j < i => j \in 1..(i - 1)
    BY <1>1 DEF Slot
  <2>3. Lower(i) = A \cup B
    BY <2>1, <2>2 DEF Lower, Before, Slot
  <2>4. A \cap B = {}
    BY <1>1 DEF Slot
  <2> QED BY <2>3, <2>4
<1>3. Lower(i) \in SUBSET Slot /\ A \in SUBSET Slot /\ B \in SUBSET Slot
  BY <1>2 DEF Lower
<1>4. IsFiniteSet(A) /\ IsFiniteSet(B) /\ Cardinality(A) \in Nat /\ Cardinality(B) \in Nat
  BY <1>1, <1>3, FS_Subset, FS_CardinalityType
<1>5. Place(i) = showsize - 1 - Cardinality(A) - Cardinality(B) + 1
  BY DEF Place, BucketPosition
<1> HIDE DEF A, B
<1>6. Cardinality(A \cup B) = Cardinality(A) + Cardinality(B) - Cardinality(A \cap B)
  BY <1>4, FS_Union
<1>7. Cardinality(A \cap B) = 0
  BY <1>2, FS_EmptySet
<1>8. Cardinality(Lower(i)) = Cardinality(A) + Cardinality(B)
  BY <1>2, <1>4, <1>6, <1>7
<1>9. i \notin Lower(i) /\ Lower(i) # Slot
  BY <1>1 DEF Lower, Before, Slot
<1>10. Cardinality(Lower(i)) <= Cardinality(Slot) /\ Cardinality(Slot) # Cardinality(Lower(i))
  BY <1>1, <1>3, <1>9, FS_Subset
<1> QED BY <1>1, <1>4, <1>5, <1>8, <1>10

\* A lower element goes to a later position.
LEMMA PlaceFalls ==
  ASSUME ContainerStrong, NEW i \in Slot, NEW j \in Slot, Before(j, i)
  PROVE  Place(i) < Place(j)
<1>1. /\ showsize \in Nat /\ IsFiniteSet(Slot) /\ \A x \in Slot : ScoreAt(x) \in Nat
  BY SlotFacts
<1>2. Lower(j) \subseteq Lower(i)
  <2> SUFFICES ASSUME NEW x \in Slot, Before(x, j) PROVE Before(x, i)
    BY DEF Lower
  <2>1. ScoreAt(x) \in Nat /\ ScoreAt(j) \in Nat /\ ScoreAt(i) \in Nat /\ x \in Nat /\ j \in Nat /\ i \in Nat
    BY <1>1 DEF Slot
  <2> QED BY <2>1 DEF Before
<1>3. j \in Lower(i) /\ j \notin Lower(j)
  BY <1>1 DEF Lower, Before, Slot
<1>4. Lower(i) \in SUBSET Slot /\ Lower(j) \in SUBSET Lower(i)
  BY <1>2 DEF Lower
<1>5. IsFiniteSet(Lower(i))
  BY <1>1, <1>4, FS_Subset
<1>6. Cardinality(Lower(j)) <= Cardinality(Lower(i)) /\ Cardinality(Lower(i)) # Cardinality(Lower(j))
  BY <1>3, <1>4, <1>5, FS_Subset
<1>7. /\ Place(i) = showsize - Cardinality(Lower(i)) /\ Cardinality(Lower(i)) \in Nat
      /\ Place(j) = showsize - Cardinality(Lower(j)) /\ Cardinality(Lower(j)) \in Nat
  BY PlaceIs
<1> QED BY <1>1, <1>6, <1>7

\* Every position is handed out, to one element only.
LEMMA PlaceOnto ==
  ASSUME ContainerStrong
  PROVE  /\ \A i \in Slot : Place(i) \in Slot
         /\ \A i, j \in Slot : Place(i) = Place(j) => i = j
         /\ \A p \in Slot : \E i \in Slot : Place(i) = p
<1> DEFINE f == [i \in Slot |-> Place(i)]
<1>1. showsize \in Nat /\ IsFiniteSet(Slot) /\ \A x \in Slot : ScoreAt(x) \in Nat
  BY SlotFacts
<1>2. \A i \in Slot : Place(i) \in Slot
  <2> SUFFICES ASSUME NEW i \in Slot PROVE Place(i) \in Slot
    OBVIOUS
  <2> HIDE DEF f
  <2>1. /\ Place(i) = showsize - Cardinality(Lower(i))
        /\ Cardinality(Lower(i)) \in Nat /\ Cardinality(Lower(i)) < showsize
    BY PlaceIs
  <2> QED BY <1>1, <2>1 DEF Slot
<1>3. ASSUME NEW i \in Slot, NEW j \in Slot, Place(i) = Place(j) PROVE i = j
  <2>1. SUFFICES ASSUME i # j PROVE FALSE
    OBVIOUS
  <2>2. ScoreAt(i) \in Nat /\ ScoreAt(j) \in Nat /\ i \in Nat /\ j \in Nat
    BY <1>1 DEF Slot
  <2>3. Before(i, j) \/ Before(j, i)
    BY <2>1, <2>2 DEF Before
  <2>4. Place(i) < Place(j) \/ Place(j) < Place(i)
    BY <2>3, PlaceFalls
  <2>5. Place(i) \in Nat /\ Place(j) \in Nat
    BY <1>2 DEF Slot
  <2> QED BY <1>3, <2>4, <2>5
<1>4. f \in Injection(Slot, Slot)
  <2>1. f \in [Slot -> Slot] /\ \A i, j \in Slot : f[i] = f[j] => i = j
    BY <1>2, <1>3
  <2> QED BY <2>1 DEF Injection, IsInjective
<1>5. f \in Surjection(Slot, Slot)
  BY <1>1, <1>4, FS_Injection
<1>6. \A p \in Slot : \E i \in Slot : f[i] = p
  BY <1>5 DEF Surjection
<1> QED BY <1>2, <1>3, <1>6

\* The element that goes to p.
From(p) == CHOOSE i \in Slot : Place(i) = p

\* It is there, and comes from one position only.
LEMMA FromIs ==
  ASSUME ContainerStrong
  PROVE  /\ \A p \in Slot : From(p) \in Slot /\ Place(From(p)) = p /\ Sorted[p] = elements[From(p)]
         /\ \A i \in Slot : Place(i) \in Slot /\ From(Place(i)) = i
<1>1. \A p \in Slot : From(p) \in Slot /\ Place(From(p)) = p
  <2> SUFFICES ASSUME NEW p \in Slot PROVE From(p) \in Slot /\ Place(From(p)) = p
    OBVIOUS
  <2>1. \E i \in Slot : Place(i) = p
    BY PlaceOnto
  <2> QED BY <2>1, Zenon DEF From
<1>2. Sorted = [p \in Slot |-> elements[From(p)]]
  BY Zenon DEF Sorted, From, Slot
<1>3. \A p \in Slot : Sorted[p] = elements[From(p)]
  BY <1>2
<1>4. \A i \in Slot : Place(i) \in Slot /\ From(Place(i)) = i
  BY <1>1, PlaceOnto
<1> QED BY <1>1, <1>3, <1>4

\* What sort does to the array: a permutation of the first showsize objects by
\* falling score.
LEMMA SortArray ==
  ASSUME ContainerStrong, sort
  PROVE  /\ Len(elements') = Len(elements) /\ elements' \in Seq(Object)
         /\ \A i \in 1..Len(elements) : i > showsize => elements'[i] = elements[i]
         /\ \A i \in Slot : \E j \in Slot : elements'[i] = elements[j]
         /\ \A j \in Slot : \E i \in Slot : elements'[i] = elements[j]
         /\ \A i, j \in Slot : elements'[i] = elements'[j] => i = j
         /\ \A i, j \in Slot : i < j => content[elements'[i]].score >= content[elements'[j]].score
<1>1. PICK q \in Shuffles :
        elements' = [i \in 1..Len(elements) |-> IF i <= showsize THEN Sorted[q[i]] ELSE elements[i]]
  BY DEF sort
<1>2. /\ q \in [Slot -> Slot] /\ {q[p] : p \in Slot} = Slot
      /\ \A p \in Slot : content[Sorted[q[p]]].score = content[Sorted[p]].score
  BY DEF Shuffles, Slot
<1>3. /\ showsize \in Nat /\ Len(elements) \in Nat /\ showsize <= Len(elements)
      /\ IsFiniteSet(Slot) /\ (\A i \in Slot : ScoreAt(i) \in Nat)
      /\ \A i, j \in Slot : elements[i] = elements[j] => i = j
  BY SlotFacts
<1>4. /\ \A p \in Slot : From(p) \in Slot /\ Place(From(p)) = p /\ Sorted[p] = elements[From(p)]
      /\ \A i \in Slot : Place(i) \in Slot /\ From(Place(i)) = i
  BY FromIs
<1>5. \A i, j \in Slot : q[i] = q[j] => i = j
  <2>1. q \in Surjection(Slot, Slot)
    <3>1. \A x \in Slot : \E p \in Slot : q[p] = x
      BY <1>2
    <3> QED BY <1>2, <3>1 DEF Surjection
  <2>2. q \in Injection(Slot, Slot)
    BY <1>3, <2>1, FS_Surjection
  <2> QED BY <2>2 DEF Injection, IsInjective
<1>6. \A i \in Slot : elements'[i] = elements[From(q[i])] /\ q[i] \in Slot
  <2>1. \A i \in Slot : i \in 1..Len(elements) /\ i <= showsize
    BY <1>3 DEF Slot
  <2> QED BY <1>1, <1>2, <1>4, <2>1
<1>7. \A i \in 1..Len(elements) : i > showsize => elements'[i] = elements[i]
  BY <1>1, <1>3
<1>8. \A j \in Slot : \E i \in Slot : elements'[i] = elements[j]
  <2> SUFFICES ASSUME NEW j \in Slot PROVE \E i \in Slot : elements'[i] = elements[j]
    OBVIOUS
  <2>1. PICK i \in Slot : q[i] = Place(j)
    BY <1>2, <1>4
  <2> QED BY <1>4, <1>6, <2>1
<1>9. \A i, j \in Slot : elements'[i] = elements'[j] => i = j
  <2> SUFFICES ASSUME NEW i \in Slot, NEW j \in Slot, elements'[i] = elements'[j] PROVE i = j
    OBVIOUS
  <2>1. From(q[i]) = From(q[j])
    BY <1>3, <1>4, <1>6
  <2>2. q[i] = q[j]
    BY <1>4, <1>6, <2>1
  <2> QED BY <1>5, <2>2
<1>10. ASSUME NEW i \in Slot, NEW j \in Slot, i < j
       PROVE  content[elements'[i]].score >= content[elements'[j]].score
  <2>1. /\ content[elements'[i]].score = ScoreAt(From(i))
        /\ content[elements'[j]].score = ScoreAt(From(j))
    BY ZenonT(30), <1>2, <1>4, <1>6 DEF ScoreAt
  <2> DEFINE a == From(i)
             b == From(j)
  <2>2. a \in Slot /\ b \in Slot /\ Place(a) = i /\ Place(b) = j
    BY <1>4
  <2> HIDE DEF a, b
  <2>3. ~(Before(a, b))
    <3>1. Before(a, b) => Place(b) < Place(a)
      BY <2>2, PlaceFalls
    <3> QED BY <1>10, <2>2, <3>1 DEF Slot
  <2>4. ScoreAt(a) \in Nat /\ ScoreAt(b) \in Nat
    BY <1>3, <2>2
  <2>5. ScoreAt(a) >= ScoreAt(b)
    BY <2>3, <2>4 DEF Before
  <2> QED BY <2>1, <2>5 DEF a, b
<1>11. \A i \in 1..Len(elements) : elements[i] \in Object
  BY ElementOfSeq DEF ContainerStrong, Good, GoodArray
<1>12. \A i \in 1..Len(elements) : elements'[i] \in Object
  <2>1. \A i \in 1..Len(elements) : i > showsize \/ i \in Slot
    BY <1>3 DEF Slot
  <2>2. \A i \in Slot : i \in 1..Len(elements)
    BY <1>3 DEF Slot
  <2> QED BY <1>4, <1>6, <1>7, <1>11, <2>1, <2>2
<1>13. Len(elements') = Len(elements) /\ elements' \in Seq(Object)
  <2>1. elements' = [i \in 1..Len(elements) |-> elements'[i]]
    BY <1>1
  <2> QED BY <1>3, <1>12, <2>1
<1>14. \A i \in Slot : \E j \in Slot : elements'[i] = elements[j]
  BY <1>4, <1>6
<1> QED BY <1>7, <1>8, <1>9, <1>10, <1>13, <1>14

\* sort of a good board.
LEMMA SortGood ==
  ASSUME ContainerStrong, sort
  PROVE  /\ ContainerStrong' /\ UNCHANGED <<content, elementlocator>>
         /\ Used(elements', showsize) = Used(elements, showsize)
<1> DEFINE e == elements
           e2 == elements'
           n == showsize
           m == Len(elements)
<1>1. /\ Len(e2) = m /\ e2 \in Seq(Object)
      /\ \A i \in 1..m : i > n => e2[i] = e[i]
      /\ \A i \in Slot : \E j \in Slot : e2[i] = e[j]
      /\ \A j \in Slot : \E i \in Slot : e2[i] = e[j]
      /\ \A i, j \in Slot : e2[i] = e2[j] => i = j
  BY SortArray
<1>2. UNCHANGED <<content, showsize, elementlocator, destinationlocator>>
  BY DEF sort
<1>3. GoodArray(e) /\ n \in Nat /\ m \in Nat /\ n <= m /\ Good(e, content, n, elementlocator, destinationlocator)
  BY SlotFacts DEF ContainerStrong, Good
<1>4. \A i \in 1..m : e[i] \in 1..m /\ (i > n \/ i \in Slot)
  BY <1>3 DEF GoodArray, Slot
<1>5. \A i, j \in 1..m : e[i] = e[j] => i = j
  BY <1>3 DEF GoodArray
<1>6. \A i \in Slot : i \in 1..m /\ ~(i > n)
  BY <1>3 DEF Slot
<1>7. Used(e2, n) = Used(e, n)
  <2>1. Used(e2, n) = {e2[i] : i \in Slot} /\ Used(e, n) = {e[i] : i \in Slot}
    BY DEF Used, Slot
  <2>2. (\A i \in Slot : \E j \in Slot : e2[i] = e[j]) /\ \A j \in Slot : \E i \in Slot : e2[i] = e[j]
    BY <1>1
  <2> HIDE DEF e, e2, n, m
  <2>3. {e2[i] : i \in Slot} = {e[i] : i \in Slot}
    BY <2>2
  <2> QED BY <2>1, <2>3
<1> HIDE DEF e, e2, n, m
<1>8. Used(e2, m) = Used(e, m)
  <2>1. \A i \in 1..m : \E j \in 1..m : e2[i] = e[j]
    BY <1>1, <1>4, <1>6
  <2>2. \A j \in 1..m : \E i \in 1..m : e2[i] = e[j]
    BY <1>1, <1>4, <1>6
  <2> QED BY <2>1, <2>2 DEF Used
<1>9. \A i, j \in 1..m : e2[i] = e2[j] => i = j
  <2> SUFFICES ASSUME NEW i \in 1..m, NEW j \in 1..m, e2[i] = e2[j] PROVE i = j
    OBVIOUS
  <2>1. CASE i \in Slot /\ j \in Slot
    BY <1>1, <2>1
  <2>2. CASE i \in Slot /\ j > n
    <3>1. PICK x \in Slot : e2[i] = e[x]
      BY <1>1, <2>2
    <3>2. e[x] = e[j] /\ x \in 1..m
      BY <1>1, <1>6, <2>2, <3>1
    <3> QED BY <1>5, <1>6, <2>2, <3>2
  <2>3. CASE i > n /\ j \in Slot
    <3>1. PICK x \in Slot : e2[j] = e[x]
      BY <1>1, <2>3
    <3>2. e[x] = e[i] /\ x \in 1..m
      BY <1>1, <1>6, <2>3, <3>1
    <3> QED BY <1>5, <1>6, <2>3, <3>2
  <2>4. CASE i > n /\ j > n
    BY <1>1, <1>5, <2>4
  <2> QED BY <1>4, <2>1, <2>2, <2>3, <2>4
<1>10. \A i \in 1..m : e2[i] \in 1..m
  BY <1>1, <1>4, <1>6
<1>11. GoodArray(e2)
  BY <1>1, <1>9, <1>10 DEF GoodArray
<1>12. m = Len(e)
  BY DEF m, e
<1>13. Good(e2, content, n, elementlocator, destinationlocator)
  BY <1>1, <1>3, <1>7, <1>8, <1>11, <1>12 DEF Good
<1>14. ContainerStrong'
  BY <1>2, <1>13 DEF ContainerStrong, e2, n
<1> QED BY <1>2, <1>7, <1>14 DEF e, e2, n

-----------------------------------------------------------------------------
(***************************************************************************)
(* The theorems.                                                           *)
(***************************************************************************)
\* The empty board is good.
LEMMA InitGood ==
  ASSUME ContainerInit
  PROVE  ContainerStrong
<1>1. /\ elements = <<>> /\ content = [o \in {} |-> 0] /\ showsize = 0
      /\ elementlocator = [k \in {} |-> 0] /\ destinationlocator = [x \in Lists |-> {}]
  BY DEF ContainerInit
<1>2. elements \in Seq(Object) /\ Len(elements) = 0 /\ (1..0) = {}
  BY <1>1
<1>3. GoodArray(elements) /\ Used(elements, 0) = {}
  BY <1>2 DEF GoodArray, Used
<1>4. content \in [{} -> Content] /\ DOMAIN elementlocator = {} /\ elementlocator \in [{} -> Object]
  BY <1>1
<1>5. destinationlocator \in [Lists -> SUBSET Object]
  BY <1>1
<1> QED BY <1>1, <1>2, <1>3, <1>4, <1>5 DEF ContainerStrong, Good

\* Every step leads from a good board to a good board.
LEMMA StepGood ==
  ASSUME ContainerStrong, [ContainerNext]_ebvars
  PROVE  ContainerStrong'
<1>1. CASE \E k \in Key, s \in Score : UpdateKnown(k, s) \/ UpdateNew(k, s)
  BY <1>1, UpdateKnownGood, UpdateNewGood
<1>2. CASE \E k \in Key : setAttempted(k) \/ remove(k)
  BY <1>2, SetAttemptedGood, RemoveStepGood
<1>3. CASE \E x \in Lists : wipe(x)
  BY <1>3, WipeGood
<1>4. CASE wipeAll
  BY <1>4, WipeAllGood
<1>5. CASE sort
  BY <1>5, SortGood
<1>6. CASE UNCHANGED ebvars
  BY <1>6 DEF ebvars, ContainerStrong
<1> QED BY <1>1, <1>2, <1>3, <1>4, <1>5, <1>6 DEF ContainerNext

\* A good board has the agreement that the runs check.
LEMMA GoodIsExact ==
  ASSUME ContainerStrong
  PROVE  ContainerInv
<1>1. /\ GoodArray(elements) /\ showsize \in 0..Len(elements) /\ elements \in Seq(Object)
      /\ content \in [Used(elements, Len(elements)) -> Content] /\ DOMAIN elementlocator \subseteq Key
      /\ elementlocator \in [DOMAIN elementlocator -> Object]
      /\ destinationlocator \in [Lists -> SUBSET Object]
  BY DEF ContainerStrong, Good, GoodArray
<1>2. ContainerTypeOK
  BY <1>1 DEF ContainerTypeOK, Used
<1>3. Used(elements, showsize) = InUse
  BY DEF Used, InUse
<1>4. /\ \A k \in DOMAIN elementlocator : elementlocator[k] \in InUse /\ content[elementlocator[k]].key = k
      /\ \A o \in InUse : elementlocator[content[o].key] = o
      /\ DestinationsExact
  BY <1>3 DEF ContainerStrong, Good, DestinationsExact
<1>5. Cardinality(InUse) = showsize
  <2> DEFINE f == [i \in Slot |-> elements[i]]
  <2>1. /\ showsize \in Nat /\ IsFiniteSet(Slot) /\ Cardinality(Slot) = showsize
        /\ \A i, j \in Slot : elements[i] = elements[j] => i = j
    BY SlotFacts
  <2>2. InUse = {elements[i] : i \in Slot}
    BY DEF InUse, Slot
  <2>3. f \in [Slot -> InUse] /\ (\A i, j \in Slot : f[i] = f[j] => i = j) /\ \A o \in InUse : \E i \in Slot : f[i] = o
    BY <2>1, <2>2
  <2> HIDE DEF f
  <2>4. f \in Injection(Slot, InUse) /\ f \in Surjection(Slot, InUse)
    BY <2>3 DEF Injection, IsInjective, Surjection
  <2>5. Cardinality(InUse) = Cardinality(Slot)
    BY <2>1, <2>4, FS_Surjection
  <2> QED BY <2>1, <2>5
<1> QED BY <1>2, <1>4, <1>5 DEF ContainerInv, IndexExact

\* The boards of the specification are good ones.
THEOREM ContainerGood == ContainerSpec => []ContainerStrong
<1>1. ContainerInit => ContainerStrong
  BY InitGood
<1>2. ContainerStrong /\ [ContainerNext]_ebvars => ContainerStrong'
  BY StepGood
<1> QED BY <1>1, <1>2, PTL DEF ContainerSpec

\* The array, the index and the sets of the scoreboard hold the same elements
\* after any sequence of its operations.
THEOREM ContainerCorrect == ContainerSpec => []ContainerInv
<1>1. ContainerStrong => ContainerInv
  BY GoodIsExact
<1> QED BY <1>1, ContainerGood, PTL

\* The radix sort sorts by falling score, whatever the scores, and neither loses
\* nor doubles an element.
THEOREM SortCorrect == ContainerSpec => SortSorts
<1>1. ContainerStrong /\ [ContainerNext]_ebvars =>
        [sort => /\ \A i, j \in 1..showsize : i < j =>
                      content[elements'[i]].score >= content[elements'[j]].score
                 /\ {elements'[i] : i \in 1..showsize} = InUse]_ebvars
  <2> SUFFICES ASSUME ContainerStrong, sort
               PROVE  /\ \A i, j \in 1..showsize : i < j =>
                           content[elements'[i]].score >= content[elements'[j]].score
                      /\ {elements'[i] : i \in 1..showsize} = InUse
    OBVIOUS
  <2>1. \A i, j \in Slot : i < j => content[elements'[i]].score >= content[elements'[j]].score
    BY SortArray
  <2>2. Used(elements', showsize) = Used(elements, showsize)
    BY SortGood
  <2> QED BY <2>1, <2>2 DEF Slot, Used, InUse
<1> QED BY <1>1, ContainerGood, PTL DEF SortSorts, ContainerSpec

\* The table a board stands for.
Shown == [k \in DOMAIN elementlocator |-> content[elementlocator[k]].score]

\* Every step is one of the table's, or changes nothing there.
LEMMA StepIsTableStep ==
  ASSUME ContainerStrong, [ContainerNext]_ebvars
  PROVE  [Table!TableNext]_Shown
<1>0. DOMAIN Shown = DOMAIN elementlocator /\ \A k \in DOMAIN elementlocator : Shown[k] = content[elementlocator[k]].score
  BY DEF Shown
<1>1. ASSUME NEW k \in Key, NEW s \in Score, UpdateKnown(k, s) \/ UpdateNew(k, s)
      PROVE  Table!Put(k, s)
  <2>1. /\ DOMAIN elementlocator' = DOMAIN elementlocator \cup {k}
        /\ content'[elementlocator'[k]].score = s
        /\ \A x \in DOMAIN elementlocator \ {k} : content'[elementlocator'[x]].score = content[elementlocator[x]].score
    <3>1. CASE UpdateKnown(k, s)
      BY <3>1, UpdateKnownGood
    <3>2. CASE UpdateNew(k, s)
      BY <3>2, UpdateNewGood
    <3> QED BY <1>1, <3>1, <3>2
  <2>2. Shown' = [x \in DOMAIN Shown \cup {k} |-> IF x = k THEN s ELSE Shown[x]]
    BY <1>0, <2>1 DEF Shown
  <2> QED BY <2>2 DEF Table!Put, Shown
<1>2. ASSUME NEW k \in Key, setAttempted(k) PROVE UNCHANGED Shown
  BY <1>2, SetAttemptedGood DEF Shown, SameScores
<1>3. ASSUME NEW k \in Key, remove(k) PROVE Table!Take(k)
  <2>1. Shown' = [x \in DOMAIN Shown \ {k} |-> Shown[x]]
    BY <1>0, <1>3, RemoveStepGood DEF Shown, SameScores
  <2> QED BY <2>1 DEF Table!Take, Shown
<1>4. ASSUME NEW x \in Lists, wipe(x) PROVE Table!Wipe(x)
  <2>1. Shown' = [y \in {k \in DOMAIN Shown : x \notin ListsOf(k)} |-> Shown[y]]
    BY <1>0, <1>4, WipeGood DEF Shown, SameScores
  <2> QED BY <2>1 DEF Table!Wipe, Shown
<1>5. ASSUME wipeAll PROVE Table!WipeAll
  <2>1. Shown' = [k \in {} |-> 0]
    BY <1>5, WipeAllGood DEF Shown
  <2> QED BY <2>1 DEF Table!WipeAll, Shown
<1>6. ASSUME sort PROVE UNCHANGED Shown
  BY <1>6, SortGood DEF Shown
<1>7. ASSUME UNCHANGED ebvars PROVE UNCHANGED Shown
  BY <1>7 DEF ebvars, Shown
<1> QED BY <1>1, <1>2, <1>3, <1>4, <1>5, <1>6, <1>7 DEF ContainerNext, Table!TableNext, Lists

\* The container implements the table of BoardSpec: the engine may think of the
\* scoreboard as a map from keys to scores.
THEOREM BoardIsTable == ContainerSpec => ImplementsTable
<1>1. ContainerInit => Table!TableInit
  BY DEF ContainerInit, Table!TableInit
<1>2. ContainerStrong /\ [ContainerNext]_ebvars => [Table!TableNext]_Shown
  BY StepIsTableStep
<1> QED BY <1>1, <1>2, ContainerGood, PTL DEF ContainerSpec, ImplementsTable, Table!TableSpec, Shown

-----------------------------------------------------------------------------
\* ScoreBoard

Unknown(r) == r.st \in {"ABSENT", "UNKNOWN"}

\* A list that is not known to exist is blank; one that is on the board and
\* in trouble is remembered as such.
RecWell(r) ==
  /\ r \in ListRec
  /\ Unknown(r) => (\A f \in File : r.size[f] = "no") /\ r.ch = {} /\ ~r.inb
  /\ r.inb /\ r.st \in {"PRE_FAIL", "FAILED"} => r.dip
ListsWell(ls) == /\ ls = [l \in Site |-> ls[l]]
                 /\ \A l \in Site : RecWell(ls[l])

Attached(E) == \A e \in E : e[2] \in sites \/ e[3] \in sites
KnownEnds(ls, E) == \A e \in E : ~Unknown(ls[e[2]]) /\ ~Unknown(ls[e[3]])
Exhausted(E) == \A e \in E : hasFailedTransfer(attempts, e)

\* OutdatedMarked, each side by itself.
SidesMarked(ls, E) ==
  \A e \in E : e[2] \in sites /\ e[3] \in sites =>
    /\ e[1] \in ls[e[2]].ch \/ Contains(ls, e[2], e[1])
    /\ e[1] \in ls[e[3]].ch \/ ~Contains(ls, e[3], e[1])

\* Remembered, also of a source that has failed on the board.
Kept(ls, E) ==
  \A f \in File, a, b \in sites :
    /\ ls[a].inb /\ ls[b].inb /\ ~ls[b].dip /\ a \notin done /\ b \notin done
    /\ Sendable(ls, f, a, b)
    => <<f, a, b>> \in E \/ f \in ls[a].ch \/ f \in ls[b].ch

\* What holds of lists ls, a board b with the attempted elements t and a
\* failboard x, in the middle of a step too.
Tables(ls, b, t, x) ==
  /\ ListsWell(ls)
  /\ b \subseteq Element /\ t \subseteq b /\ x \subseteq Element
  /\ Attached(b \cup x) /\ KnownEnds(ls, b \cup x)
  /\ SidesMarked(ls, b \cup x) /\ Kept(ls, (b \ t) \cup x)
Held(ls, b, t, x) == Tables(ls, b, t, x) /\ Exhausted(x)

\* A list that has failed on the board is taken off by the next update.
FailedDue(ls, P) ==
  \A l \in sites \ done : ls[l].st = "FAILED" /\ ls[l].inb => l \in P

\* A file is only sent to a list that is known.
TargetsKnown(ls, X) == \A x \in X : ~Unknown(ls[x[1][3]])

Attempts == [pair : [Element -> 0..MaxPair], all : [File \X Site -> 0..MaxAll]]
JobOK == /\ done \subseteq Site /\ sites \subseteq Site /\ Site \ sites \subseteq done
         /\ attempts \in Attempts

BoardInv ==
  /\ JobOK /\ pend \subseteq Site
  /\ xfer \subseteq Element \X {"both", "complete", "error"}
  /\ Held(lists, board, tried, fail)
  /\ FailedDue(lists, pend) /\ TargetsKnown(lists, xfer)

-----------------------------------------------------------------------------
(***************************************************************************)
(* What happens to one list.                                               *)
(***************************************************************************)
\* r1 is what an event makes of list r: every change of its files is marked,
\* and the board has not taken notice yet.
Later(r, r1) ==
  /\ RecWell(r1)
  /\ \A f \in File : r1.size[f] = r.size[f] \/ f \in r1.ch
  /\ r.ch \subseteq r1.ch
  /\ r1.inb = r.inb
  /\ r.inb /\ r.dip => r1.dip
  /\ Unknown(r1) => Unknown(r)

LaterLists(ls, ls1) == /\ ls1 = [l \in Site |-> ls1[l]]
                       /\ \A l \in Site : Later(ls[l], ls1[l])

LEMMA LaterSame ==
  ASSUME NEW r, RecWell(r)
  PROVE  Later(r, r)
BY DEF Later

LEMMA LaterTrans ==
  ASSUME NEW r, NEW r1, NEW r2, Later(r, r1), Later(r1, r2)
  PROVE  Later(r, r2)
<1>1. \A f \in File : r2.size[f] = r.size[f] \/ f \in r2.ch
  BY DEF Later
<1> QED BY <1>1 DEF Later

LEMMA MarkFields ==
  ASSUME NEW r \in ListRec, NEW F \in SUBSET File
  PROVE  /\ Mark(r, F) \in ListRec
         /\ Mark(r, F).size = r.size /\ Mark(r, F).st = r.st
         /\ Mark(r, F).inb = r.inb /\ Mark(r, F).dip = r.dip
         /\ Mark(r, F).ch = r.ch \cup F /\ Mark(r, F).up = r.up
         /\ Mark(r, F).changed
<1>1. 0 \in 0..MaxFailures - 1
  BY BoardAssumption
<1> QED BY <1>1 DEF Mark, ListRec

\* Marking more leaves a known list as it should be.
LEMMA LaterMark ==
  ASSUME NEW r, RecWell(r), NEW F \in SUBSET File, ~Unknown(r)
  PROVE  Later(r, Mark(r, F))
<1>1. r \in ListRec
  BY DEF RecWell
<1>2. PICK m : m = Mark(r, F)
  OBVIOUS
<1>3. /\ m \in ListRec /\ m.size = r.size /\ m.st = r.st
      /\ m.inb = r.inb /\ m.dip = r.dip /\ m.ch = r.ch \cup F
  BY <1>1, <1>2, MarkFields
<1>4. Later(r, m)
  BY <1>3 DEF Later, RecWell, Unknown
<1> QED BY <1>2, <1>4

LEMMA BlankWell ==
  ASSUME NEW st \in States
  PROVE  /\ RecWell(BlankList(st)) /\ BlankList(st).st = st
         /\ ~BlankList(st).inb /\ BlankList(st).ch = {}
         /\ \A f \in File : BlankList(st).size[f] = "no"
<1>1. 0 \in 0..MaxFailures - 1
  BY BoardAssumption
<1>2. BlankList(st) \in ListRec
  BY <1>1 DEF BlankList, ListRec
<1> QED BY <1>2 DEF BlankList, RecWell

\* finishUpload and removeFile.
LEMMA LaterFinish ==
  ASSUME NEW r, RecWell(r), NEW f \in File, ~Unknown(r)
  PROVE  /\ Later(r, FinishUpload(r, f)) /\ FinishUpload(r, f).st = r.st
         /\ FinishUpload(r, f).size = r.size
<1>1. CASE f \notin r.up
  BY <1>1, LaterSame DEF FinishUpload
<1>2. CASE f \in r.up
  <2> DEFINE q == [r EXCEPT !.up = @ \ {f}]
  <2>1. /\ q \in ListRec /\ q.size = r.size /\ q.st = r.st
        /\ q.inb = r.inb /\ q.dip = r.dip /\ q.ch = r.ch
    BY DEF RecWell, ListRec
  <2>2. PICK m : m = Mark(q, {})
    OBVIOUS
  <2>3. /\ m \in ListRec /\ m.size = r.size /\ m.st = r.st
        /\ m.inb = r.inb /\ m.dip = r.dip /\ m.ch = r.ch \cup {}
    <3>1. {} \in SUBSET File
      OBVIOUS
    <3> HIDE DEF q
    <3>2. /\ m \in ListRec /\ m.size = q.size /\ m.st = q.st
          /\ m.inb = q.inb /\ m.dip = q.dip /\ m.ch = q.ch \cup {}
      BY <2>1, <2>2, <3>1, MarkFields
    <3> QED BY <2>1, <3>2
  <2>4. Later(r, m)
    BY <2>3 DEF Later, RecWell, Unknown
  <2> QED BY <1>2, <2>2, <2>3, <2>4 DEF FinishUpload
<1> QED BY <1>1, <1>2

LEMMA LaterRemove ==
  ASSUME NEW r, RecWell(r), NEW f \in File, ~Unknown(r)
  PROVE  Later(r, RemoveFile(r, f)) /\ RemoveFile(r, f).st = r.st
<1>1. CASE r.size[f] = "no"
  BY <1>1, LaterSame DEF RemoveFile
<1>2. CASE r.size[f] # "no"
  <2> DEFINE q == [r EXCEPT !.size[f] = "no", !.up = @ \ {f}]
  <2>1. /\ q \in ListRec /\ q.st = r.st
        /\ \A g \in File : g # f => q.size[g] = r.size[g]
        /\ q.inb = r.inb /\ q.dip = r.dip /\ q.ch = r.ch
    BY DEF RecWell, ListRec
  <2>2. PICK m : m = Mark(q, {f})
    OBVIOUS
  <2>3. /\ m \in ListRec /\ m.size = q.size /\ m.st = r.st
        /\ m.inb = r.inb /\ m.dip = r.dip /\ m.ch = r.ch \cup {f}
    <3> HIDE DEF q
    <3> QED BY <2>1, <2>2, MarkFields
  <2>4. Later(r, m)
    <3> HIDE DEF q
    <3> QED BY <2>1, <2>3 DEF Later, RecWell, Unknown
  <2> QED BY <1>2, <2>2, <2>3, <2>4 DEF RemoveFile
<1> QED BY <1>1, <1>2

\* A list whose files change, with these marked.
LEMMA LaterFiles ==
  ASSUME NEW r, RecWell(r), NEW size \in [File -> {"no", "empty", "full"}],
         NEW F \in SUBSET File, NEW st \in States,
         st \notin {"ABSENT", "UNKNOWN", "PRE_FAIL", "FAILED"} \/ st = r.st,
         st \notin {"ABSENT", "UNKNOWN"},
         \A f \in File : size[f] # r.size[f] => f \in F,
         NEW q \in ListRec, q.st = st, q.size = size,
         q.inb = r.inb, q.dip = r.dip, q.ch = r.ch
  PROVE  /\ Later(r, Mark(q, F)) /\ Mark(q, F).st = st
         /\ F = {} => Later(r, q)
<1>1. PICK m : m = Mark(q, F)
  OBVIOUS
<1>2. /\ m \in ListRec /\ m.size = size /\ m.st = st
      /\ m.inb = r.inb /\ m.dip = r.dip /\ m.ch = r.ch \cup F
  BY <1>1, MarkFields
<1>3. Later(r, m)
  BY <1>2 DEF Later, RecWell, Unknown
<1>4. F = {} => Later(r, q)
  BY DEF Later, RecWell, Unknown
<1> QED BY <1>1, <1>2, <1>3, <1>4

(***************************************************************************)
(* What happens to all of them.                                            *)
(***************************************************************************)
Put(ls, l, r) == [ls EXCEPT ![l] = r]

LEMMA LaterOne ==
  ASSUME NEW ls, ListsWell(ls), NEW l \in Site, NEW r, Later(ls[l], r)
  PROVE  /\ LaterLists(ls, Put(ls, l, r)) /\ Put(ls, l, r)[l] = r
         /\ \A k \in Site \ {l} : Put(ls, l, r)[k] = ls[k]
<1>1. PICK ls1 : ls1 = Put(ls, l, r)
  OBVIOUS
<1>2. ls1 = [k \in Site |-> IF k = l THEN r ELSE ls[k]]
  BY <1>1 DEF ListsWell, Put
<1>3. \A k \in Site : Later(ls[k], ls1[k])
  BY <1>2, LaterSame DEF ListsWell
<1> QED BY <1>1, <1>2, <1>3 DEF LaterLists

LEMMA LaterSub ==
  ASSUME NEW ls, ListsWell(ls)
  PROVE  LaterLists(ls, AddSubDirectory(ls))
<1>1. PICK ls1 : ls1 = AddSubDirectory(ls)
  OBVIOUS
<1>2. ls1 = [l \in Site |-> IF l \in sites /\ ls[l].st = "ABSENT"
                            THEN BlankList("UNKNOWN") ELSE ls[l]]
  BY <1>1 DEF AddSubDirectory
<1>3. ASSUME NEW l \in Site
      PROVE  Later(ls[l], ls1[l])
  <2>1. CASE l \in sites /\ ls[l].st = "ABSENT"
    <3>1. ls1[l] = BlankList("UNKNOWN")
      BY <1>2, <2>1
    <3>2. RecWell(ls[l])
      BY DEF ListsWell
    <3>3. "UNKNOWN" \in States
      BY DEF States
    <3>4. /\ RecWell(ls1[l]) /\ ls1[l].ch = {} /\ ~ls1[l].inb
          /\ \A f \in File : ls1[l].size[f] = "no"
      BY <3>1, <3>3, BlankWell
    <3> QED BY <2>1, <3>2, <3>4 DEF Later, RecWell, Unknown, ListRec
  <2>2. CASE ~(l \in sites /\ ls[l].st = "ABSENT")
    BY <1>2, <2>2, LaterSame DEF ListsWell
  <2> QED BY <2>1, <2>2
<1> QED BY <1>1, <1>2, <1>3 DEF LaterLists

\* What holds of the boards still holds of them with the later lists.
LEMMA HeldLater ==
  ASSUME NEW ls, NEW b, NEW t, NEW x, Held(ls, b, t, x), JobOK,
         NEW ls1, LaterLists(ls, ls1)
  PROVE  Held(ls1, b, t, x)
<1>1. ListsWell(ls1)
  BY DEF LaterLists, ListsWell, Later
<1>2. KnownEnds(ls1, b \cup x)
  <2>1. \A e \in b \cup x : e[2] \in Site /\ e[3] \in Site
    BY DEF Held, Tables, Element
  <2> QED BY <2>1 DEF Held, Tables, KnownEnds, LaterLists, Later
<1>3. SidesMarked(ls1, b \cup x)
  <2> SUFFICES ASSUME NEW e \in b \cup x, e[2] \in sites, e[3] \in sites
               PROVE  /\ e[1] \in ls1[e[2]].ch \/ Contains(ls1, e[2], e[1])
                      /\ e[1] \in ls1[e[3]].ch \/ ~Contains(ls1, e[3], e[1])
    BY DEF SidesMarked
  <2>1. e[1] \in File /\ e[2] \in Site /\ e[3] \in Site
    BY DEF Held, Tables, Element
  <2>2. Later(ls[e[2]], ls1[e[2]]) /\ Later(ls[e[3]], ls1[e[3]])
    BY <2>1 DEF LaterLists
  <2>3. /\ e[1] \in ls[e[2]].ch \/ Contains(ls, e[2], e[1])
        /\ e[1] \in ls[e[3]].ch \/ ~Contains(ls, e[3], e[1])
    BY DEF Held, Tables, SidesMarked
  <2> QED BY <2>1, <2>2, <2>3 DEF Later, Contains
<1>4. Kept(ls1, (b \ t) \cup x)
  <2> SUFFICES ASSUME NEW f \in File, NEW a \in sites, NEW c \in sites,
                      ls1[a].inb, ls1[c].inb, ~ls1[c].dip,
                      a \notin done, c \notin done, Sendable(ls1, f, a, c),
                      f \notin ls1[a].ch, f \notin ls1[c].ch
               PROVE  <<f, a, c>> \in (b \ t) \cup x
    BY DEF Kept
  <2>1. a \in Site /\ c \in Site
    BY DEF JobOK
  <2>2. Later(ls[a], ls1[a]) /\ Later(ls[c], ls1[c])
    BY <2>1 DEF LaterLists
  <2>3. /\ ls[a].inb /\ ls[c].inb /\ ~ls[c].dip
        /\ ls[a].size[f] = ls1[a].size[f] /\ ls[c].size[f] = ls1[c].size[f]
        /\ f \notin ls[a].ch /\ f \notin ls[c].ch
    BY <2>2 DEF Later
  <2>4. Sendable(ls, f, a, c)
    BY <2>3 DEF Sendable, Contains
  <2> QED BY <2>3, <2>4 DEF Held, Tables, Kept
<1> QED BY <1>1, <1>2, <1>3, <1>4 DEF Held, Tables

LEMMA SubSame ==
  ASSUME NEW ls, ListsWell(ls), NEW l \in Site
  PROVE  /\ ~Unknown(ls[l]) => AddSubDirectory(ls)[l] = ls[l]
         /\ Unknown(ls[l]) <=> Unknown(AddSubDirectory(ls)[l])
         /\ \A f \in File : AddSubDirectory(ls)[l].size[f] = ls[l].size[f]
         /\ AddSubDirectory(ls)[l].inb = ls[l].inb
<1>1. CASE l \in sites /\ ls[l].st = "ABSENT"
  <2>1. AddSubDirectory(ls)[l] = BlankList("UNKNOWN")
    BY <1>1 DEF AddSubDirectory
  <2>2. "UNKNOWN" \in States
    BY DEF States
  <2>3. RecWell(ls[l])
    BY DEF ListsWell
  <2> QED BY <1>1, <2>1, <2>2, <2>3, BlankWell DEF RecWell, Unknown, ListRec
<1>2. CASE ~(l \in sites /\ ls[l].st = "ABSENT")
  BY <1>2 DEF AddSubDirectory
<1> QED BY <1>1, <1>2

(***************************************************************************)
(* addToScoreBoard: list l comes on the board.                             *)
(***************************************************************************)
Entered(ls, l) == [AddSubDirectory(ls) EXCEPT ![l].inb = TRUE,
                                              ![l].dip = (ls[l].st = "PRE_FAIL")]

LEMMA EnterLists ==
  ASSUME NEW ls, ListsWell(ls), NEW l \in Site, ~Unknown(ls[l]),
         ls[l].st # "FAILED"
  PROVE  /\ ListsWell(Entered(ls, l))
         /\ \A k \in Site :
              /\ Unknown(Entered(ls, l)[k]) => Unknown(ls[k])
              /\ ~Unknown(ls[k]) =>
                   /\ Entered(ls, l)[k].ch = ls[k].ch
                   /\ Entered(ls, l)[k].st = ls[k].st
              /\ \A f \in File : Entered(ls, l)[k].size[f] = ls[k].size[f]
              /\ k # l => Entered(ls, l)[k] = AddSubDirectory(ls)[k]
         /\ Entered(ls, l)[l].inb
         /\ Entered(ls, l)[l].changed = ls[l].changed
<1> DEFINE sub == AddSubDirectory(ls)
<1>1. ListsWell(sub)
  BY LaterSub DEF LaterLists, Later, ListsWell
<1>2. sub[l] = ls[l] /\ sub = [k \in Site |-> sub[k]] /\ RecWell(ls[l])
  BY <1>1, SubSame DEF ListsWell
<1>3. PICK r : r = [ls[l] EXCEPT !.inb = TRUE, !.dip = (ls[l].st = "PRE_FAIL")]
  OBVIOUS
<1>4. Entered(ls, l) = [k \in Site |-> IF k = l THEN r ELSE sub[k]]
  BY <1>2, <1>3 DEF Entered
<1>5. /\ r \in ListRec /\ r.inb /\ r.dip = (ls[l].st = "PRE_FAIL") /\ r.ch = ls[l].ch
      /\ r.st = ls[l].st /\ r.size = ls[l].size /\ r.changed = ls[l].changed
  BY <1>2, <1>3 DEF ListRec, RecWell
<1>6. RecWell(r)
  BY <1>5 DEF RecWell, Unknown
<1>7. ListsWell(Entered(ls, l))
  <2> HIDE DEF sub
  <2> QED BY <1>1, <1>4, <1>6 DEF ListsWell
<1>8. ASSUME NEW k \in Site
      PROVE  /\ Unknown(Entered(ls, l)[k]) => Unknown(ls[k])
             /\ ~Unknown(ls[k]) => Entered(ls, l)[k].ch = ls[k].ch
                                   /\ Entered(ls, l)[k].st = ls[k].st
             /\ \A f \in File : Entered(ls, l)[k].size[f] = ls[k].size[f]
             /\ k # l => Entered(ls, l)[k] = sub[k]
  <2>1. CASE k = l
    BY <1>4, <1>5, <2>1 DEF Unknown
  <2>2. CASE k # l
    BY <1>4, <2>2, SubSame
  <2> QED BY <2>1, <2>2
<1> QED BY <1>4, <1>5, <1>7, <1>8

LEMMA AddedPair ==
  ASSUME NEW ls, ListsWell(ls), JobOK, NEW l \in Site,
         NEW e \in addToScoreBoard(ls, l)
  PROVE  /\ e \in Element
         /\ e[2] \in sites \/ e[3] \in sites
         /\ ~Unknown(ls[e[2]]) /\ ~Unknown(ls[e[3]])
         /\ Sendable(ls, e[1], e[2], e[3])
<1>1. PICK c \in sites : e \in ForPair(ls, c, l) \cup ForPair(ls, l, c)
  BY DEF addToScoreBoard
<1>2. c \in Site
  BY DEF JobOK
<1>3. PICK a \in {c, l}, b \in {c, l} : e \in ForPair(ls, a, b) /\ (a = c \/ b = c)
  BY <1>1
<1>4. ls[b].st \notin {"ABSENT", "UNKNOWN"}
  BY <1>3 DEF ForPair
<1>5. PICK f \in File : e = <<f, a, b>> /\ Sendable(ls, f, a, b)
  BY <1>3 DEF ForPair
<1>6. ~Unknown(ls[a])
  BY <1>2, <1>3, <1>5 DEF Sendable, ListsWell, RecWell
<1> QED BY <1>1, <1>2, <1>3, <1>4, <1>5, <1>6 DEF Element, Unknown

LEMMA HeldEnter ==
  ASSUME NEW ls, NEW b, NEW t, NEW x, Held(ls, b, t, x), JobOK,
         NEW l \in Site, ~Unknown(ls[l]), ls[l].st # "FAILED"
  PROVE  Held(Entered(ls, l), b \cup addToScoreBoard(ls, l),
              t \ addToScoreBoard(ls, l), x)
<1>1. PICK add : add = addToScoreBoard(ls, l)
  OBVIOUS
<1>2. PICK ls1 : ls1 = Entered(ls, l)
  OBVIOUS
<1>3. ListsWell(ls)
  BY DEF Held, Tables
<1>4. \A e \in add : /\ e \in Element
                     /\ e[2] \in sites \/ e[3] \in sites
                     /\ ~Unknown(ls[e[2]]) /\ ~Unknown(ls[e[3]])
                     /\ Sendable(ls, e[1], e[2], e[3])
  BY <1>1, <1>3, AddedPair
<1>5. /\ ListsWell(ls1)
      /\ \A k \in Site :
              /\ Unknown(ls1[k]) => Unknown(ls[k])
              /\ ~Unknown(ls[k]) => ls1[k].ch = ls[k].ch /\ ls1[k].st = ls[k].st
              /\ \A f \in File : ls1[k].size[f] = ls[k].size[f]
              /\ k # l => ls1[k] = AddSubDirectory(ls)[k]
  BY <1>2, <1>3, EnterLists
<1>6. \A e \in Element : e[1] \in File /\ e[2] \in Site /\ e[3] \in Site
  BY DEF Element
<1>7. b \cup add \subseteq Element /\ t \ add \subseteq b \cup add /\ x \subseteq Element
  BY <1>4 DEF Held, Tables
<1>8. Attached(b \cup add \cup x) /\ Exhausted(x)
  BY <1>4 DEF Held, Tables, Attached
<1>9. KnownEnds(ls1, b \cup add \cup x)
  BY <1>4, <1>5, <1>6, <1>7 DEF Held, Tables, KnownEnds
<1>10. SidesMarked(ls1, b \cup add \cup x)
  <2> SUFFICES ASSUME NEW e \in b \cup add \cup x, e[2] \in sites, e[3] \in sites
               PROVE  /\ e[1] \in ls1[e[2]].ch \/ Contains(ls1, e[2], e[1])
                      /\ e[1] \in ls1[e[3]].ch \/ ~Contains(ls1, e[3], e[1])
    BY DEF SidesMarked
  <2>1. e[1] \in File /\ e[2] \in Site /\ e[3] \in Site
    BY <1>6, <1>7
  <2>2. ~Unknown(ls[e[2]]) /\ ~Unknown(ls[e[3]])
    BY <1>4 DEF Held, Tables, KnownEnds
  <2>3. /\ e[1] \in ls[e[2]].ch \/ Contains(ls, e[2], e[1])
        /\ e[1] \in ls[e[3]].ch \/ ~Contains(ls, e[3], e[1])
    BY <1>4 DEF Held, Tables, SidesMarked, Sendable, Contains
  <2> QED BY <1>5, <2>1, <2>2, <2>3 DEF Contains
<1>11. Kept(ls1, ((b \cup add) \ (t \ add)) \cup x)
  <2> SUFFICES ASSUME NEW f \in File, NEW a \in sites, NEW c \in sites,
                      ls1[a].inb, ls1[c].inb, ~ls1[c].dip,
                      a \notin done, c \notin done, Sendable(ls1, f, a, c),
                      f \notin ls1[a].ch, f \notin ls1[c].ch
               PROVE  <<f, a, c>> \in add \cup (b \ t) \cup x
    BY DEF Kept
  <2>1. a \in Site /\ c \in Site
    BY DEF JobOK
  <2>2. Sendable(ls, f, a, c)
    BY <1>5, <2>1 DEF Sendable, Contains
  <2>3. ~Unknown(ls[c]) /\ ls[c].st \notin {"PRE_FAIL", "FAILED"} /\ ~Unknown(ls[a])
    <3>1. RecWell(ls1[c]) /\ RecWell(ls1[a])
      BY <1>5, <2>1 DEF ListsWell
    <3>2. ~Unknown(ls1[c]) /\ ls1[c].st \notin {"PRE_FAIL", "FAILED"} /\ ~Unknown(ls1[a])
      BY <3>1 DEF RecWell
    <3>3. ~Unknown(ls[c]) /\ ~Unknown(ls[a])
      <4>1. RecWell(ls[c]) /\ RecWell(ls[a])
        BY <1>3, <2>1 DEF ListsWell
      <4>2. CASE c = l
        BY <2>2, <4>1, <4>2 DEF RecWell, Sendable
      <4>3. CASE c # l
        <5>1. ls1[c] = AddSubDirectory(ls)[c]
          BY <1>5, <2>1, <4>3
        <5>2. ls[c].inb
          BY <1>3, <2>1, <5>1, SubSame
        <5> QED BY <2>2, <4>1, <5>2 DEF RecWell, Sendable
      <4> QED BY <4>2, <4>3
    <3> QED BY <1>5, <2>1, <3>2, <3>3
  <2>4. CASE a = l \/ c = l
    <3>1. <<f, a, c>> \in ForPair(ls, a, c)
      BY <2>2, <2>3 DEF ForPair, Unknown
    <3>2. <<f, a, c>> \in addToScoreBoard(ls, l)
      BY <2>4, <3>1 DEF addToScoreBoard
    <3> QED BY <1>1, <3>2
  <2>5. CASE a # l /\ c # l
    <3>1. ls1[a] = AddSubDirectory(ls)[a] /\ ls1[c] = AddSubDirectory(ls)[c]
      BY <1>5, <2>1, <2>5
    <3>2. ls1[a] = ls[a] /\ ls1[c] = ls[c]
      BY <1>3, <2>1, <2>3, <3>1, SubSame
    <3> QED BY <2>2, <3>2 DEF Held, Tables, Kept
  <2> QED BY <2>4, <2>5
<1>12. Held(ls1, b \cup add, t \ add, x)
  BY <1>5, <1>7, <1>8, <1>9, <1>10, <1>11 DEF Held, Tables
<1> QED BY <1>1, <1>2, <1>12

(***************************************************************************)
(* updateScoreBoard.                                                       *)
(***************************************************************************)
LEMMA UpdateLists ==
  ASSUME NEW ls, ListsWell(ls), NEW P \in SUBSET Site, NEW b, NEW t,
         updateScoreBoard(ls, b, t, P)
  PROVE  /\ ListsWell(lists')
         /\ \A k \in Site :
              /\ Unknown(lists'[k]) => Unknown(ls[k])
              /\ \A f \in File : lists'[k].size[f] = ls[k].size[f]
              /\ k \in P /\ ls[k].st = "FAILED" =>
                   ~lists'[k].inb /\ lists'[k].ch = ls[k].ch
              /\ k \in P /\ ls[k].st # "FAILED" => lists'[k].ch = {}
              /\ k \notin P /\ ~Unknown(ls[k]) => lists'[k] = ls[k]
              /\ lists'[k].inb => ls[k].inb /\ lists'[k].dip = ls[k].dip
                                           /\ lists'[k].st = ls[k].st
         /\ pend' = {}
<1> DEFINE failed == {l \in P : ls[l].st = "FAILED"}
           L == P \ failed
<1>1. PICK sub : sub = AddSubDirectory(ls)
  OBVIOUS
<1>2. lists' = [l \in Site |->
                  IF l \in failed THEN [ls[l] EXCEPT !.inb = FALSE, !.dip = FALSE]
                  ELSE IF l \in L THEN BoardUpdatesReset(ls[l])
                  ELSE IF L = {} THEN ls[l] ELSE sub[l]]
  BY <1>1 DEF updateScoreBoard
<1>3. ASSUME NEW k \in Site
      PROVE  /\ RecWell(lists'[k])
             /\ Unknown(lists'[k]) => Unknown(ls[k])
             /\ \A f \in File : lists'[k].size[f] = ls[k].size[f]
             /\ k \in P /\ ls[k].st = "FAILED" =>
                  ~lists'[k].inb /\ lists'[k].ch = ls[k].ch
             /\ k \in P /\ ls[k].st # "FAILED" => lists'[k].ch = {}
             /\ k \notin P /\ ~Unknown(ls[k]) => lists'[k] = ls[k]
             /\ lists'[k].inb => ls[k].inb /\ lists'[k].dip = ls[k].dip
                                           /\ lists'[k].st = ls[k].st
  <2>1. RecWell(ls[k]) /\ ls[k] \in ListRec
    BY DEF ListsWell, RecWell
  <2>2. CASE k \in failed
    <3>1. lists'[k] = [ls[k] EXCEPT !.inb = FALSE, !.dip = FALSE]
      BY <1>2, <2>2
    <3> QED BY <2>1, <2>2, <3>1 DEF RecWell, Unknown, ListRec
  <2>3. CASE k \in L
    <3>1. lists'[k] = [ls[k] EXCEPT !.ch = {}, !.changed = FALSE]
      BY <1>2, <2>3 DEF BoardUpdatesReset
    <3> QED BY <2>1, <2>3, <3>1 DEF RecWell, Unknown, ListRec
  <2>4. CASE k \notin P /\ L = {}
    BY <1>2, <2>1, <2>4
  <2>5. CASE k \notin P /\ L # {}
    <3>1. lists'[k] = sub[k]
      BY <1>2, <2>5
    <3>2. Later(ls[k], sub[k])
      BY <1>1, LaterSub DEF LaterLists
    <3>3. RecWell(sub[k])
      BY <3>2 DEF Later
    <3>4. /\ ~Unknown(ls[k]) => sub[k] = ls[k]
          /\ Unknown(ls[k]) <=> Unknown(sub[k])
          /\ \A f \in File : sub[k].size[f] = ls[k].size[f]
          /\ sub[k].inb = ls[k].inb
      BY <1>1, SubSame
    <3>5. sub[k].inb => ~Unknown(ls[k])
      BY <3>3, <3>4 DEF RecWell
    <3> QED BY <2>1, <2>5, <3>1, <3>3, <3>4, <3>5
  <2> QED BY <2>2, <2>3, <2>4, <2>5
<1>4. ListsWell(lists')
  BY <1>2, <1>3 DEF ListsWell
<1>5. pend' = {}
  BY DEF updateScoreBoard
<1> QED BY <1>3, <1>4, <1>5

\* What an update takes from the boards (gone) and puts on them (come).
UpdateParts(ls, P, b, t, failed, come, good, gone) ==
  /\ failed = {l \in P : ls[l].st = "FAILED"}
  /\ come = Come(ls, P \ failed)
  /\ good = {e \in come : ~hasFailedTransfer(attempts, e)}
  /\ gone = Gone(ls, P \ failed) \cup ElementsOf(failed)
  /\ board' = (b \ gone) \cup good
  /\ tried' \subseteq t \ (gone \cup good)
  /\ fail' = (fail \ gone) \cup (come \ good)

LEMMA UpdateBoards ==
  ASSUME NEW ls, NEW P \in SUBSET Site, NEW b, NEW t, t \subseteq b,
         updateScoreBoard(ls, b, t, P)
  PROVE  \E failed, come, good, gone : UpdateParts(ls, P, b, t, failed, come, good, gone)
<1> DEFINE F == {l \in P : ls[l].st = "FAILED"}
           C == Come(ls, P \ F)
           G == {e \in C : ~hasFailedTransfer(attempts, e)}
           W == Gone(ls, P \ F) \cup ElementsOf(F)
<1>1. /\ board' = (b \ W) \cup G
      /\ tried' \in Flags(t \ (W \cup G), b \cap W)
      /\ fail' = (fail \ W) \cup (C \ G)
  BY DEF updateScoreBoard
<1>2. tried' \subseteq t \ (W \cup G)
  <2> HIDE DEF F, C, G, W
  <2> QED BY <1>1 DEF Flags
<1> WITNESS F, C, G, W
<1> QED BY <1>1, <1>2 DEF UpdateParts

LEMMA ComeElement ==
  ASSUME NEW ls, ListsWell(ls), JobOK, NEW L \in SUBSET Site, NEW e \in Come(ls, L)
  PROVE  /\ e \in Element /\ e[1] \in File /\ e[2] \in Site /\ e[3] \in Site
         /\ e[2] \in sites \/ e[3] \in sites
         /\ ~Unknown(ls[e[2]]) /\ ~Unknown(ls[e[3]])
         /\ ls[e[2]].st # "FAILED" /\ ls[e[3]].st # "FAILED"
         /\ Sendable(ls, e[1], e[2], e[3])
<1>1. e \in Element /\ e[1] \in File /\ e[2] \in Site /\ e[3] \in Site
  BY DEF Come, Element
<1>2. RecWell(ls[e[2]]) /\ RecWell(ls[e[3]])
  BY <1>1 DEF ListsWell
<1>3. Sendable(ls, e[1], e[2], e[3])
  BY DEF Come
<1>4. ~Unknown(ls[e[2]])
  BY <1>1, <1>2, <1>3 DEF RecWell, Sendable
<1>5. /\ e[2] \in sites \/ e[3] \in sites
      /\ ls[e[3]].st \notin {"ABSENT", "UNKNOWN"} \/ e[1] \in ls[e[3]].ch
  BY DEF Come, Comparable
<1>6. ~Unknown(ls[e[3]])
  BY <1>2, <1>5 DEF RecWell, Unknown
<1> QED BY <1>1, <1>3, <1>4, <1>5, <1>6 DEF Come

LEMMA HeldUpdate ==
  ASSUME NEW ls, NEW P \in SUBSET Site, NEW b, NEW t, Held(ls, b, t, fail), JobOK,
         FailedDue(ls, P), updateScoreBoard(ls, b, t, P)
  PROVE  Held(lists', board', tried', fail')
<1>1. ListsWell(ls) /\ t \subseteq b
  BY DEF Held, Tables
<1>2. PICK failed, come, good, gone : UpdateParts(ls, P, b, t, failed, come, good, gone)
  BY <1>1, UpdateBoards
<1>3. failed = {l \in P : ls[l].st = "FAILED"}
  BY <1>2 DEF UpdateParts
<1>4. come = Come(ls, P \ failed)
  BY <1>2 DEF UpdateParts
<1>5. good = {e \in come : ~hasFailedTransfer(attempts, e)}
  BY <1>2 DEF UpdateParts
<1>6. gone = Gone(ls, P \ failed) \cup ElementsOf(failed)
  BY <1>2 DEF UpdateParts
<1>7. /\ board' = (b \ gone) \cup good
      /\ tried' \subseteq t \ (gone \cup good)
      /\ fail' = (fail \ gone) \cup (come \ good)
  BY <1>2 DEF UpdateParts
<1>8. /\ ListsWell(lists')
      /\ \A k \in Site :
           /\ Unknown(lists'[k]) => Unknown(ls[k])
           /\ \A f \in File : lists'[k].size[f] = ls[k].size[f]
           /\ k \in P /\ ls[k].st = "FAILED" =>
                ~lists'[k].inb /\ lists'[k].ch = ls[k].ch
           /\ k \in P /\ ls[k].st # "FAILED" => lists'[k].ch = {}
           /\ k \notin P /\ ~Unknown(ls[k]) => lists'[k] = ls[k]
           /\ lists'[k].inb => ls[k].inb /\ lists'[k].dip = ls[k].dip
                                        /\ lists'[k].st = ls[k].st
  BY <1>1, UpdateLists
<1>9. \A e \in come :
         /\ e \in Element /\ e[1] \in File /\ e[2] \in Site /\ e[3] \in Site
         /\ e[2] \in sites \/ e[3] \in sites
         /\ ~Unknown(ls[e[2]]) /\ ~Unknown(ls[e[3]])
         /\ Sendable(ls, e[1], e[2], e[3])
  BY <1>4, <1>1, ComeElement
<1>10. good \subseteq come
  BY <1>5
<1>11. \A e \in Element : e[1] \in File /\ e[2] \in Site /\ e[3] \in Site
  BY DEF Element
<1>12. /\ board' \subseteq Element /\ tried' \subseteq board' /\ fail' \subseteq Element
       /\ board' \cup fail' \subseteq ((b \cup fail) \ gone) \cup come
  BY <1>1, <1>7, <1>9, <1>10 DEF Held, Tables
<1>13. Attached(board' \cup fail')
  BY <1>9, <1>12 DEF Held, Tables, Attached
<1>14. Exhausted(fail')
  BY <1>5, <1>7 DEF Held, Tables, Exhausted
<1>15. KnownEnds(lists', board' \cup fail')
  BY <1>8, <1>9, <1>11, <1>12 DEF Held, Tables, KnownEnds
<1>16. SidesMarked(lists', board' \cup fail')
  <2> SUFFICES ASSUME NEW e \in board' \cup fail', e[2] \in sites, e[3] \in sites
               PROVE  /\ e[1] \in lists'[e[2]].ch \/ Contains(lists', e[2], e[1])
                      /\ e[1] \in lists'[e[3]].ch \/ ~Contains(lists', e[3], e[1])
    BY DEF SidesMarked
  <2>1. e \in Element /\ e[1] \in File /\ e[2] \in Site /\ e[3] \in Site
    BY <1>11, <1>12
  <2>2. CASE e \in come
    BY <1>8, <1>9, <2>1, <2>2 DEF Sendable, Contains
  <2>3. CASE e \in (b \cup fail) \ gone
    <3>1. /\ e[1] \in ls[e[2]].ch \/ Contains(ls, e[2], e[1])
          /\ e[1] \in ls[e[3]].ch \/ ~Contains(ls, e[3], e[1])
      BY <2>3 DEF Held, Tables, SidesMarked
    <3>2. ~Unknown(ls[e[2]]) /\ ~Unknown(ls[e[3]])
      BY <2>3 DEF Held, Tables, KnownEnds
    <3>3. e[2] \notin failed /\ e[3] \notin failed
      BY <1>6, <2>1, <2>3 DEF ElementsOf
    <3>4. e \notin Gone(ls, P \ failed)
      BY <1>6, <2>3
    <3>5. e[2] \in Comparable(ls) /\ e[3] \in Comparable(ls)
      BY <3>2 DEF Comparable, Unknown
    <3>6. CASE e[2] \in P
      BY <1>3, <1>8, <2>1, <3>1, <3>2, <3>3, <3>4, <3>5, <3>6 DEF Gone, Contains
    <3>7. CASE e[2] \notin P
      BY <1>3, <1>8, <2>1, <3>1, <3>2, <3>3, <3>4, <3>5, <3>7 DEF Gone, Contains
    <3> QED BY <3>6, <3>7
  <2> QED BY <1>12, <2>2, <2>3
<1>17. Kept(lists', (board' \ tried') \cup fail')
  <2> SUFFICES ASSUME NEW f \in File, NEW a \in sites, NEW c \in sites,
                      lists'[a].inb, lists'[c].inb, ~lists'[c].dip,
                      a \notin done, c \notin done, Sendable(lists', f, a, c),
                      f \notin lists'[a].ch, f \notin lists'[c].ch
               PROVE  <<f, a, c>> \in (board' \ tried') \cup fail'
    BY DEF Kept
  <2>1. a \in Site /\ c \in Site
    BY DEF JobOK
  <2>2. Sendable(ls, f, a, c)
    BY <1>8, <2>1 DEF Sendable, Contains
  <2>3. ls[a].inb /\ ls[c].inb /\ ~ls[c].dip
    BY <1>8, <2>1
  <2>4. ~Unknown(ls[a]) /\ ~Unknown(ls[c])
    BY <1>1, <2>1, <2>3 DEF ListsWell, RecWell
  <2>5. ls[a].st # "FAILED" /\ ls[c].st # "FAILED"
    <3>1. ~(a \in P /\ ls[a].st = "FAILED") /\ ~(c \in P /\ ls[c].st = "FAILED")
      BY <1>8, <2>1
    <3> QED BY <2>3, <3>1 DEF FailedDue
  <2>6. PICK e : e = <<f, a, c>>
    OBVIOUS
  <2>7. /\ e \in Element /\ e[1] = f /\ e[2] = a /\ e[3] = c
    BY <2>1, <2>6 DEF Element
  <2>8. e \notin gone
    BY <1>3, <1>6, <2>2, <2>5, <2>7 DEF Gone, ElementsOf, Sendable, Contains
  <2>9. CASE f \in ls[a].ch \/ f \in ls[c].ch
    <3>1. f \in ls[a].ch => a \in P \ failed
      BY <1>3, <1>8, <2>1, <2>4, <2>5
    <3>2. f \in ls[c].ch => c \in P \ failed
      BY <1>3, <1>8, <2>1, <2>4, <2>5
    <3>3. a \in Comparable(ls) /\ c \in Comparable(ls)
      BY <2>4 DEF Comparable, Unknown
    <3>4. e \in Come(ls, P \ failed)
      BY <2>2, <2>5, <2>7, <2>9, <3>1, <3>2, <3>3 DEF Come
    <3>5. e \in come
      BY <1>4, <3>4
    <3> QED BY <1>7, <2>6, <3>5
  <2>10. CASE f \notin ls[a].ch /\ f \notin ls[c].ch
    <3>1. e \in (b \ t) \cup fail
      BY <2>2, <2>3, <2>6, <2>10 DEF Held, Tables, Kept
    <3> QED BY <1>7, <2>6, <2>8, <3>1
  <2> QED BY <2>9, <2>10
<1> QED BY <1>8, <1>12, <1>13, <1>14, <1>15, <1>16, <1>17 DEF Held, Tables

(***************************************************************************)
(* jobFileListRefreshed.                                                   *)
(***************************************************************************)
\* FailedDue, but for a list that has just failed.
DueBut(ls, l) == \A k \in (sites \ done) \ {l} : ls[k].st = "FAILED" /\ ls[k].inb => k \in pend

LEMMA HeldRefreshed ==
  ASSUME JobOK, pend \subseteq Site, NEW l \in Site, NEW o,
         NEW ls, Held(ls, board, tried, fail),
         DueBut(ls, l), ~Unknown(ls[l]),
         ls[l].st = "FAILED" /\ ls[l].inb => ls[l].changed \/ l \in pend,
         jobFileListRefreshed(ls, l, o)
  PROVE  /\ Held(lists', board', tried', fail')
         /\ FailedDue(lists', pend') /\ pend' \subseteq Site
         /\ \A k \in Site : Unknown(lists'[k]) => Unknown(ls[k])
<1>1. CASE l \in done
  <2>1. lists' = ls /\ board' = board /\ tried' = tried /\ fail' = fail /\ pend' = pend
    BY <1>1 DEF jobFileListRefreshed
  <2> QED BY <1>1, <2>1 DEF DueBut, FailedDue
<1>2. CASE l \notin done
  <2>1. PICK on \in BOOLEAN : on = (~ls[l].inb /\ ls[l].st # "FAILED")
    OBVIOUS
  <2>2. PICK add : add = IF on THEN addToScoreBoard(ls, l) ELSE {}
    OBVIOUS
  <2>3. PICK ls1 : ls1 = IF on THEN Entered(ls, l) ELSE ls
    OBVIOUS
  <2>4. PICK P : P = IF ls[l].changed THEN pend \cup {l} ELSE pend
    OBVIOUS
  <2>5. P \subseteq Site /\ pend \subseteq P
    BY <2>4
  <2>6. IF ~o THEN updateScoreBoard(ls1, board \cup add, tried \ add, P)
        ELSE /\ lists' = ls1 /\ board' = board \cup add
             /\ tried' = tried \ add /\ pend' = P
             /\ fail' = fail
    BY <1>2, <2>1, <2>2, <2>3, <2>4 DEF jobFileListRefreshed, Entered
  <2>7. Held(ls1, board \cup add, tried \ add, fail)
    <3>1. CASE on
      BY <2>1, <2>2, <2>3, <3>1, HeldEnter
    <3>2. CASE ~on
      <4>1. board \cup add = board /\ tried \ add = tried /\ ls1 = ls
        BY <2>2, <2>3, <3>2
      <4> QED BY <4>1
    <3> QED BY <3>1, <3>2
  <2>8. /\ \A k \in Site : Unknown(ls1[k]) => Unknown(ls[k])
        /\ \A k \in Site \ {l} : ls1[k].st = "FAILED" /\ ls1[k].inb
                                 => ls[k].st = "FAILED" /\ ls[k].inb
        /\ ls1[l].st = "FAILED" => (ls[l].inb /\ ls[l].st = "FAILED") \/ ~ls1[l].inb
    <3>1. CASE on
      <4>1. ListsWell(ls)
        BY DEF Held, Tables
      <4>2. ls1 = Entered(ls, l)
        BY <2>3, <3>1
      <4>3. /\ \A k \in Site :
                 /\ Unknown(ls1[k]) => Unknown(ls[k])
                 /\ ~Unknown(ls[k]) => ls1[k].st = ls[k].st
                 /\ k # l => ls1[k] = AddSubDirectory(ls)[k]
        <5>1. ls[l].st # "FAILED"
          BY <2>1, <3>1
        <5> QED BY <4>1, <4>2, <5>1, EnterLists
      <4>4. ASSUME NEW k \in Site \ {l}, ls1[k].st = "FAILED", ls1[k].inb
            PROVE  ls[k].st = "FAILED" /\ ls[k].inb
        <5>1. ls1[k] = AddSubDirectory(ls)[k]
          BY <4>3
        <5>2. ~Unknown(ls1[k])
          BY <4>4 DEF Unknown
        <5> QED BY <4>1, <4>4, <5>1, <5>2, SubSame
      <4> QED BY <2>1, <3>1, <4>3, <4>4
    <3>2. CASE ~on
      BY <2>3, <3>2
    <3> QED BY <3>1, <3>2
  <2>9. FailedDue(ls1, P)
    BY <2>4, <2>5, <2>8 DEF FailedDue, DueBut, JobOK
  <2>10. CASE o
    BY <2>5, <2>6, <2>7, <2>8, <2>9, <2>10
  <2>11. CASE ~o
    <3>1. updateScoreBoard(ls1, board \cup add, tried \ add, P)
      BY <2>6, <2>11
    <3>2. Held(lists', board', tried', fail')
      BY <2>5, <2>7, <2>9, <3>1, HeldUpdate
    <3>3. ListsWell(ls1)
      BY <2>7 DEF Held, Tables
    <3>4. /\ \A k \in Site :
                /\ Unknown(lists'[k]) => Unknown(ls1[k])
                /\ k \in P /\ ls1[k].st = "FAILED" => ~lists'[k].inb
                /\ lists'[k].inb => ls1[k].inb /\ lists'[k].st = ls1[k].st
          /\ pend' = {}
      BY <2>5, <3>1, <3>3, UpdateLists
    <3>5. FailedDue(lists', pend')
      BY <2>9, <3>4 DEF FailedDue, JobOK
    <3> QED BY <2>8, <3>2, <3>4, <3>5
  <2> QED BY <2>10, <2>11
<1> QED BY <1>1, <1>2

-----------------------------------------------------------------------------
(***************************************************************************)
(* The invariant, in parts.                                                *)
(***************************************************************************)
\* The sites stay as they are.
LEMMA AssembleJob ==
  ASSUME JobOK', UNCHANGED <<sites, done>>, pend' \subseteq Site,
         xfer' \subseteq Element \X {"both", "complete", "error"},
         Tables(lists', board', tried', fail'), Exhausted(fail)',
         FailedDue(lists', pend'), TargetsKnown(lists', xfer')
  PROVE  BoardInv'
<1>1. sites' = sites /\ done' = done
  OBVIOUS
<1>2. FailedDue(lists, pend)' /\ TargetsKnown(lists, xfer)'
  BY <1>1 DEF FailedDue, TargetsKnown, Unknown
<1>3. ListsWell(lists)'
  BY DEF Tables, ListsWell, RecWell, Unknown
<1>4. Attached(board \cup fail)' /\ KnownEnds(lists, board \cup fail)'
  BY <1>1 DEF Tables, Attached, KnownEnds, Unknown
<1>5. SidesMarked(lists, board \cup fail)'
  BY <1>1 DEF Tables, SidesMarked, Contains
<1>6. Kept(lists, (board \ tried) \cup fail)'
  BY <1>1 DEF Tables, Kept, Sendable, Contains, Possible
<1> QED BY <1>2, <1>3, <1>4, <1>5, <1>6 DEF BoardInv, Held, Tables

\* The job stays as it is.
LEMMA Assemble ==
  ASSUME JobOK, UNCHANGED jobvars, pend' \subseteq Site,
         xfer' \subseteq Element \X {"both", "complete", "error"},
         Held(lists', board', tried', fail'), FailedDue(lists', pend'),
         TargetsKnown(lists', xfer')
  PROVE  BoardInv'
<1>1. sites' = sites /\ done' = done /\ attempts' = attempts
  BY DEF jobvars
<1>2. JobOK'
  BY <1>1 DEF JobOK
<1>3. Exhausted(fail)'
  BY <1>1 DEF Held, Exhausted, hasFailedTransfer
<1> QED BY <1>1, <1>2, <1>3, AssembleJob DEF Held

\* Lists change and the boards take no notice yet.
LEMMA Unnoticed ==
  ASSUME BoardInv, UNCHANGED <<jobvars, board, tried, fail, pend>>,
         LaterLists(lists, lists'),
         \A k \in Site : lists'[k].st = "FAILED" => lists[k].st = "FAILED",
         xfer' \subseteq Element \X {"both", "complete", "error"},
         TargetsKnown(lists, xfer')
  PROVE  BoardInv'
<1>1. UNCHANGED jobvars /\ board' = board /\ tried' = tried /\ fail' = fail /\ pend' = pend
  OBVIOUS
<1>2. JobOK /\ pend' \subseteq Site
  BY <1>1 DEF BoardInv
<1>3. Held(lists', board, tried, fail)
  BY HeldLater DEF BoardInv
<1>4. FailedDue(lists', pend')
  BY <1>1, <1>2 DEF BoardInv, FailedDue, LaterLists, Later, JobOK
<1>5. TargetsKnown(lists', xfer')
  <2>1. \A x \in xfer' : x[1][3] \in Site
    BY DEF Element
  <2> QED BY <2>1 DEF TargetsKnown, LaterLists, Later
<1> QED BY <1>1, <1>2, <1>3, <1>4, <1>5, Assemble

\* One list changes and is worked in.
LEMMA Noticed ==
  ASSUME BoardInv, UNCHANGED jobvars, NEW l \in Site, NEW r, Later(lists[l], r),
         ~Unknown(r), r.st = "FAILED" /\ r.inb => r.changed \/ lists[l].st = "FAILED",
         NEW o, jobFileListRefreshed(Put(lists, l, r), l, o),
         xfer' \subseteq Element \X {"both", "complete", "error"},
         TargetsKnown(lists, xfer')
  PROVE  BoardInv'
<1>1. PICK ls : ls = Put(lists, l, r)
  OBVIOUS
<1>2. ListsWell(lists) /\ JobOK /\ pend \subseteq Site
  BY DEF BoardInv, Held, Tables
<1>3. LaterLists(lists, ls) /\ ls[l] = r /\ \A k \in Site \ {l} : ls[k] = lists[k]
  BY <1>1, <1>2, LaterOne
<1>4. Held(ls, board, tried, fail)
  BY <1>2, <1>3, HeldLater DEF BoardInv
<1>5. DueBut(ls, l)
  BY <1>2, <1>3 DEF BoardInv, FailedDue, DueBut, JobOK
<1>6. jobFileListRefreshed(ls, l, o)
  BY <1>1
<1>7. CASE l \in done
  <2>1. UNCHANGED <<board, tried, fail, pend>> /\ lists' = ls
    BY <1>6, <1>7 DEF jobFileListRefreshed
  <2>2. Held(lists', board', tried', fail')
    BY <1>4, <2>1
  <2>3. FailedDue(lists', pend')
    BY <1>2, <1>3, <1>7, <2>1 DEF BoardInv, FailedDue, JobOK
  <2>4. TargetsKnown(lists', xfer')
    <3>1. \A x \in xfer' : x[1][3] \in Site
      BY DEF Element
    <3> QED BY <1>3, <2>1, <3>1 DEF TargetsKnown, LaterLists, Later
  <2> QED BY <1>2, <2>1, <2>2, <2>3, <2>4, Assemble
<1>8. CASE l \notin done
  <2>1. l \in sites
    BY <1>2, <1>8 DEF JobOK
  <2>2. ls[l].st = "FAILED" /\ ls[l].inb => ls[l].changed \/ l \in pend
    BY <1>3, <1>8, <2>1 DEF BoardInv, FailedDue, Later
  <2>3. ~Unknown(ls[l])
    BY <1>3
  <2>4. /\ Held(lists', board', tried', fail')
        /\ FailedDue(lists', pend') /\ pend' \subseteq Site
        /\ \A k \in Site : Unknown(lists'[k]) => Unknown(ls[k])
    BY <1>2, <1>4, <1>5, <1>6, <2>2, <2>3, HeldRefreshed
  <2>5. TargetsKnown(lists', xfer')
    <3>1. \A x \in xfer' : x[1][3] \in Site
      BY DEF Element
    <3> QED BY <1>3, <2>4, <3>1 DEF TargetsKnown, LaterLists, Later
  <2> QED BY <1>2, <2>4, <2>5, Assemble
<1> QED BY <1>7, <1>8

\* One list changes and is not worked in.
LEMMA UnnoticedOne ==
  ASSUME BoardInv, UNCHANGED <<jobvars, board, tried, fail, pend>>,
         NEW l \in Site, NEW r, Later(lists[l], r), lists' = Put(lists, l, r),
         r.st = "FAILED" => lists[l].st = "FAILED",
         xfer' \subseteq Element \X {"both", "complete", "error"},
         TargetsKnown(lists, xfer')
  PROVE  BoardInv'
<1>1. ListsWell(lists)
  BY DEF BoardInv, Held, Tables
<1>2. LaterLists(lists, lists') /\ lists'[l] = r /\ \A k \in Site \ {l} : lists'[k] = lists[k]
  BY <1>1, LaterOne
<1> QED BY <1>2, Unnoticed

-----------------------------------------------------------------------------
(***************************************************************************)
(* What the connections of a site report.                                  *)
(***************************************************************************)
LEMMA ListingOK ==
  ASSUME BoardInv, NEW l \in Site, NEW o,
         NEW size \in [File -> {"no", "empty", "full"}], NEW G \in SUBSET File,
         Listing(l, size, G, o)
  PROVE  BoardInv'
<1> DEFINE r == lists[l]
           new == [f \in File |-> IF f \in r.up /\ size[f] = "no"
                                  THEN r.size[f] ELSE size[f]]
           F == {f \in File : new[f] # r.size[f]} \cup G
           r1 == [r EXCEPT !.size = new, !.st = "LISTED"]
           q == IF F = {} THEN r1 ELSE Mark(r1, F)
<1>1. RecWell(r) /\ r \in ListRec
  BY DEF BoardInv, Held, Tables, ListsWell, RecWell
<1>2. r1 \in ListRec /\ r1.size = new /\ r1.st = "LISTED" /\ r1.inb = r.inb
      /\ r1.dip = r.dip /\ r1.ch = r.ch
  BY <1>1 DEF ListRec, States
<1>3. new \in [File -> {"no", "empty", "full"}] /\ "LISTED" \in States
  BY <1>1 DEF ListRec, States
<1>4. F \in SUBSET File /\ \A f \in File : new[f] # r.size[f] => f \in F
  OBVIOUS
<1>5. /\ Later(r, Mark(r1, F)) /\ Mark(r1, F).st = "LISTED"
      /\ F = {} => Later(r, r1)
  <2> HIDE DEF r, new, F, r1
  <2> QED BY <1>1, <1>2, <1>3, <1>4, LaterFiles
<1>6. Later(r, q) /\ q.st = "LISTED"
  <2> HIDE DEF F, r1
  <2> QED BY <1>2, <1>5
<1>7. /\ jobFileListRefreshed(Put(lists, l, q), l, o)
      /\ UNCHANGED jobvars /\ xfer' = xfer
  BY DEF Listing, Put
<1> HIDE DEF q
<1> QED BY <1>6, <1>7, Noticed DEF BoardInv, Unknown

LEMMA CwdFailedOK ==
  ASSUME BoardInv, NEW l \in Site, NEW o, NEW report \in BOOLEAN,
         CwdFailed(l, report, o)
  PROVE  BoardInv'
<1>1. PICK r : r = lists[l]
  OBVIOUS
<1>2. RecWell(r) /\ r \in ListRec /\ r.st # "ABSENT"
  BY <1>1 DEF BoardInv, Held, Tables, ListsWell, RecWell, CwdFailed, HasList
<1>3. PICK fatal \in BOOLEAN :
        fatal = (r.st = "PRE_FAIL" \/ (r.st = "LISTED" /\ r.failures + 1 >= MaxFailures))
  OBVIOUS
<1>4. PICK q : q = IF fatal
                   THEN [Mark(r, {}) EXCEPT !.st = "FAILED", !.dip = r.inb]
                   ELSE IF r.st = "LISTED" THEN [r EXCEPT !.failures = @ + 1]
                   ELSE IF r.st = "UNKNOWN" THEN [r EXCEPT !.st = "NONEXISTENT"]
                   ELSE r
  OBVIOUS
<1>5. /\ fatal \/ r.st = "UNKNOWN" => report
      /\ IF report THEN jobFileListRefreshed(Put(lists, l, q), l, o)
         ELSE lists' = Put(lists, l, q) /\ UNCHANGED <<board, tried, fail, pend>>
      /\ UNCHANGED jobvars /\ xfer' = xfer
  BY <1>1, <1>3, <1>4 DEF CwdFailed, Put
<1>6. /\ Later(r, q) /\ ~Unknown(q)
      /\ q.st = "FAILED" => q.changed \/ r.st = "FAILED"
      /\ ~report => (q.st = "FAILED" => r.st = "FAILED")
  <2>1. CASE fatal
    <3>1. {} \in SUBSET File
      OBVIOUS
    <3>2. PICK m : m = Mark(r, {})
      OBVIOUS
    <3>3. /\ m \in ListRec /\ m.size = r.size /\ m.st = r.st
          /\ m.inb = r.inb /\ m.ch = r.ch \cup {} /\ m.changed
      BY <1>2, <3>1, <3>2, MarkFields
    <3>4. q = [m EXCEPT !.st = "FAILED", !.dip = r.inb]
      BY <1>4, <2>1, <3>2
    <3>5. report
      BY <1>5, <2>1
    <3>6. /\ q \in ListRec /\ q.size = r.size /\ q.st = "FAILED" /\ q.inb = r.inb
          /\ q.dip = r.inb /\ q.ch = r.ch \cup {} /\ q.changed
      BY <1>2, <3>3, <3>4 DEF ListRec, States
    <3>7. r.st \in {"PRE_FAIL", "LISTED"}
      BY <1>3, <2>1
    <3> QED BY <1>2, <3>5, <3>6, <3>7 DEF Later, RecWell, Unknown, ListRec
  <2>2. CASE ~fatal /\ r.st = "LISTED"
    <3>1. r.failures + 1 \in 0..MaxFailures - 1
      <4>1. r.failures \in 0..MaxFailures - 1
        BY <1>2 DEF ListRec
      <4>2. ~(r.failures + 1 >= MaxFailures)
        BY <1>3, <2>2
      <4> QED BY <4>1, <4>2, BoardAssumption
    <3>2. q = [r EXCEPT !.failures = r.failures + 1]
      BY <1>4, <2>2
    <3> QED BY <1>2, <2>2, <3>1, <3>2 DEF Later, RecWell, Unknown, ListRec
  <2>3. CASE ~fatal /\ r.st = "UNKNOWN"
    <3>1. q = [r EXCEPT !.st = "NONEXISTENT"]
      BY <1>4, <2>3
    <3> QED BY <1>2, <2>3, <3>1 DEF Later, RecWell, Unknown, ListRec, States
  <2>4. CASE ~fatal /\ r.st \notin {"LISTED", "UNKNOWN"}
    <3>1. q = r
      BY <1>4, <2>4
    <3> QED BY <1>2, <2>4, <3>1, LaterSame DEF Unknown
  <2> QED BY <2>1, <2>2, <2>3, <2>4
<1>7. CASE report
  BY <1>1, <1>5, <1>6, <1>7, Noticed DEF BoardInv
<1>8. CASE ~report
  BY <1>1, <1>5, <1>6, <1>8, UnnoticedOne DEF BoardInv
<1> QED BY <1>7, <1>8

LEMMA SitePathStateOK ==
  ASSUME BoardInv, NEW l \in Site, NEW exists \in BOOLEAN, SitePathState(l, exists)
  PROVE  BoardInv'
<1>1. PICK r : r = lists[l]
  OBVIOUS
<1>2. RecWell(r) /\ r \in ListRec /\ r.st # "ABSENT"
  BY <1>1 DEF BoardInv, Held, Tables, ListsWell, RecWell, SitePathState, HasList
<1>3. PICK q : q = IF exists THEN [r EXCEPT !.st = "LISTED"]
                   ELSE IF r.st \in {"UNKNOWN", "NONEXISTENT"}
                        THEN [r EXCEPT !.st = "PRE_FAIL", !.dip = r.inb] ELSE r
  OBVIOUS
<1>4. Later(r, q) /\ (q.st = "FAILED" => r.st = "FAILED")
  <2>1. CASE exists
    BY <1>2, <1>3, <2>1 DEF Later, RecWell, Unknown, ListRec, States
  <2>2. CASE ~exists /\ r.st \in {"UNKNOWN", "NONEXISTENT"}
    BY <1>2, <1>3, <2>2 DEF Later, RecWell, Unknown, ListRec, States
  <2>3. CASE ~exists /\ r.st \notin {"UNKNOWN", "NONEXISTENT"}
    BY <1>2, <1>3, <2>3, LaterSame
  <2> QED BY <2>1, <2>2, <2>3
<1>5. lists' = Put(lists, l, q)
  BY <1>1, <1>3 DEF SitePathState, Put
<1>6. UNCHANGED <<jobvars, board, tried, fail, pend>> /\ xfer' = xfer
  BY DEF SitePathState
<1> QED BY <1>1, <1>4, <1>5, <1>6, UnnoticedOne DEF BoardInv

LEMMA OtherJobOK ==
  ASSUME BoardInv, OtherJobRefreshed
  PROVE  BoardInv'
<1>1. updateScoreBoard(lists, board, tried, pend) /\ UNCHANGED jobvars /\ xfer' = xfer
  BY DEF OtherJobRefreshed
<1>2. Held(lists', board', tried', fail')
  BY <1>1, HeldUpdate DEF BoardInv
<1>3. ListsWell(lists)
  BY DEF BoardInv, Held, Tables
<1>4. /\ \A k \in Site :
            /\ Unknown(lists'[k]) => Unknown(lists[k])
            /\ k \in pend /\ lists[k].st = "FAILED" => ~lists'[k].inb
            /\ lists'[k].inb => lists[k].inb /\ lists'[k].st = lists[k].st
      /\ pend' = {}
  BY <1>1, <1>3, UpdateLists DEF BoardInv
<1>5. FailedDue(lists', pend')
  BY <1>4 DEF BoardInv, FailedDue, JobOK
<1>6. TargetsKnown(lists', xfer')
  <2>1. \A x \in xfer' : x[1][3] \in Site
    BY <1>1 DEF BoardInv, Element
  <2> QED BY <1>1, <1>4, <2>1 DEF BoardInv, TargetsKnown
<1> QED BY <1>1, <1>2, <1>4, <1>5, <1>6, Assemble DEF BoardInv

-----------------------------------------------------------------------------
(***************************************************************************)
(* Transfers.                                                              *)
(***************************************************************************)
LEMMA IssueOK ==
  ASSUME BoardInv, NEW T \in SUBSET board, issueOptimalTransfers(T)
  PROVE  BoardInv'
<1>1. /\ lists' = [l \in Site |->
                 LET F == {e[1] : e \in {x \in T : x[3] = l}}
                 IN IF F = {} THEN lists[l]
                    ELSE Mark([lists[l] EXCEPT
                                 !.size = [f \in File |-> IF f \in F THEN "empty"
                                                          ELSE @[f]],
                                 !.up = @ \cup F], F)]
      /\ tried' = tried \cup T /\ xfer' = xfer \cup (T \X {"both"})
      /\ UNCHANGED jobvars /\ board' = board /\ fail' = fail /\ pend' = pend
  BY DEF issueOptimalTransfers
<1>2. /\ T \subseteq Element /\ JobOK /\ ListsWell(lists)
      /\ \A e \in T : e[1] \in File /\ e[2] \in Site /\ e[3] \in Site /\ ~Unknown(lists[e[3]])
  <2>1. T \subseteq Element
    BY DEF BoardInv, Held, Tables
  <2> QED BY <2>1 DEF BoardInv, Held, Tables, KnownEnds, Element
<1>3. ASSUME NEW l \in Site
      PROVE  /\ Later(lists[l], lists'[l]) /\ lists'[l].st = lists[l].st
             /\ \A e \in T : e[3] = l => lists'[l].size[e[1]] = "empty"
  <2> DEFINE F == {e[1] : e \in {x \in T : x[3] = l}}
             r == lists[l]
             q == [r EXCEPT !.size = [f \in File |-> IF f \in F THEN "empty" ELSE @[f]],
                            !.up = @ \cup F]
  <2>1. lists'[l] = IF F = {} THEN r ELSE Mark(q, F)
    BY <1>1
  <2>2. RecWell(r) /\ r \in ListRec
    BY <1>2 DEF ListsWell, RecWell
  <2>3. F \in SUBSET File /\ \A e \in T : e[3] = l => e[1] \in F
    BY <1>2
  <2>4. CASE F = {}
    BY <2>1, <2>2, <2>3, <2>4, LaterSame
  <2>5. CASE F # {}
    <3>1. PICK size : size = [f \in File |-> IF f \in F THEN "empty" ELSE r.size[f]]
      OBVIOUS
    <3>2. size \in [File -> {"no", "empty", "full"}]
      <4> HIDE DEF F, r
      <4> QED BY <2>2, <3>1 DEF ListRec
    <3>3. /\ q \in ListRec /\ q.st = r.st /\ q.size = size
          /\ q.inb = r.inb /\ q.dip = r.dip /\ q.ch = r.ch
      <4> HIDE DEF F, r
      <4> QED BY <2>2, <2>3, <3>1, <3>2 DEF ListRec
    <3>4. ~Unknown(r)
      BY <1>2, <2>5
    <3>5. r.st \in States /\ r.st \notin {"ABSENT", "UNKNOWN"}
      BY <2>2, <3>4 DEF Unknown, ListRec
    <3>6. \A f \in File : size[f] # r.size[f] => f \in F
      <4> HIDE DEF F, r
      <4> QED BY <3>1
    <3>7. Later(r, Mark(q, F)) /\ Mark(q, F).st = r.st
      <4> HIDE DEF F, r, q
      <4> QED BY <2>2, <2>3, <3>2, <3>3, <3>5, <3>6, LaterFiles
    <3>8. Mark(q, F).size = size
      <4> HIDE DEF F, r, q
      <4> QED BY <2>3, <3>3, MarkFields
    <3>9. \A e \in T : e[3] = l => size[e[1]] = "empty"
      <4> HIDE DEF F, r
      <4> QED BY <1>2, <2>3, <3>1
    <3> HIDE DEF F, r, q
    <3> QED BY <2>1, <2>5, <3>7, <3>8, <3>9 DEF r
  <2> QED BY <2>4, <2>5
<1>4. LaterLists(lists, lists')
  <2>1. lists' = [l \in Site |-> lists'[l]]
    BY <1>1
  <2> QED BY <1>3, <2>1 DEF LaterLists
<1>5. Held(lists', board, tried, fail)
  BY <1>2, <1>4, HeldLater DEF BoardInv
<1>6. Kept(lists', (board \ (tried \cup T)) \cup fail)
  <2> SUFFICES ASSUME NEW f \in File, NEW a \in sites, NEW c \in sites,
                      lists'[a].inb, lists'[c].inb, ~lists'[c].dip,
                      a \notin done, c \notin done, Sendable(lists', f, a, c),
                      f \notin lists'[a].ch, f \notin lists'[c].ch
               PROVE  <<f, a, c>> \in (board \ (tried \cup T)) \cup fail
    BY DEF Kept
  <2>1. <<f, a, c>> \in (board \ tried) \cup fail
    BY <1>5 DEF Held, Tables, Kept
  <2>2. c \in Site
    BY <1>2 DEF JobOK
  <2>3. <<f, a, c>> \notin T
    <3>1. <<f, a, c>> \in T => lists'[c].size[f] = "empty"
      BY <1>3, <2>2
    <3> QED BY <3>1 DEF Sendable, Contains
  <2> QED BY <2>1, <2>3
<1>7. Held(lists', board', tried', fail')
  BY <1>1, <1>5, <1>6 DEF Held, Tables
<1>8. FailedDue(lists', pend')
  <2> SUFFICES ASSUME NEW l \in sites \ done, lists'[l].st = "FAILED", lists'[l].inb PROVE l \in pend
    BY <1>1 DEF FailedDue
  <2>1. l \in Site
    BY <1>2 DEF JobOK
  <2>2. lists[l].st = "FAILED" /\ lists[l].inb
    BY <1>3, <2>1 DEF Later
  <2> QED BY <2>2 DEF BoardInv, FailedDue
<1>9. TargetsKnown(lists', xfer')
  <2>1. \A x \in xfer : x[1][3] \in Site
    BY DEF BoardInv, Element
  <2>2. \A x \in xfer' : x[1][3] \in Site /\ ~Unknown(lists[x[1][3]])
    BY <1>1, <1>2, <2>1 DEF BoardInv, TargetsKnown
  <2> QED BY <1>3, <2>2 DEF TargetsKnown, Later
<1>10. xfer' \subseteq Element \X {"both", "complete", "error"}
  BY <1>1, <1>2 DEF BoardInv
<1> QED BY <1>1, <1>2, <1>7, <1>8, <1>9, <1>10, Assemble DEF BoardInv

\* The target of a transfer in flight is known, also when its state changes.
LEMMA InFlight ==
  ASSUME BoardInv, NEW e \in Element, NEW ph, <<e, ph>> \in xfer
  PROVE  /\ e[1] \in File /\ e[3] \in Site /\ RecWell(lists[e[3]])
         /\ ~Unknown(lists[e[3]])
         /\ \A k \in {"complete", "error"} :
              LET X == (xfer \ {<<e, ph>>}) \cup {<<e, k>>}
              IN /\ X \subseteq Element \X {"both", "complete", "error"}
                 /\ TargetsKnown(lists, X)
         /\ LET X == xfer \ {<<e, ph>>}
            IN /\ X \subseteq Element \X {"both", "complete", "error"}
               /\ TargetsKnown(lists, X)
<1>1. e[1] \in File /\ e[3] \in Site
  BY DEF Element
<1>2. RecWell(lists[e[3]])
  BY <1>1 DEF BoardInv, Held, Tables, ListsWell
<1>3. ~Unknown(lists[e[3]])
  BY DEF BoardInv, TargetsKnown
<1> QED BY <1>1, <1>2, <1>3 DEF BoardInv, TargetsKnown

LEMMA TargetEndsOK ==
  ASSUME BoardInv, NEW e \in Element, NEW err \in BOOLEAN, TargetEnds(e, err)
  PROVE  BoardInv'
<1>1. PICK r : r = lists[e[3]]
  OBVIOUS
<1>2. PICK q : q = IF err THEN RemoveFile(r, e[1]) ELSE FinishUpload(r, e[1])
  OBVIOUS
<1>3. /\ <<e, "both">> \in xfer
      /\ lists' = Put(lists, e[3], q)
      /\ xfer' = (xfer \ {<<e, "both">>}) \cup {<<e, IF err THEN "error" ELSE "complete">>}
      /\ UNCHANGED <<jobvars, board, tried, fail, pend>>
  BY <1>1, <1>2 DEF TargetEnds, Put
<1>4. /\ e[1] \in File /\ e[3] \in Site /\ RecWell(r) /\ ~Unknown(r)
      /\ xfer' \subseteq Element \X {"both", "complete", "error"}
      /\ TargetsKnown(lists, xfer')
  BY <1>1, <1>3, InFlight
<1>5. Later(r, q) /\ q.st = r.st
  BY <1>2, <1>4, LaterRemove, LaterFinish
<1> QED BY <1>1, <1>3, <1>4, <1>5, UnnoticedOne

LEMMA TargetDupeOK ==
  ASSUME BoardInv, NEW e \in Element, NEW F \in SUBSET File, NEW o, TargetDupe(e, F, o)
  PROVE  BoardInv'
<1>1. PICK s : s = lists[e[3]]
  OBVIOUS
<1>2. PICK r : r = FinishUpload(s, e[1])
  OBVIOUS
<1>3. PICK new : new = {g \in F : r.size[g] = "no"}
  OBVIOUS
<1>4. PICK size : size = [g \in File |-> IF g \in new THEN "empty" ELSE r.size[g]]
  OBVIOUS
<1>5. PICK q : q = [r EXCEPT !.size = size]
  OBVIOUS
<1>6. PICK r1 : r1 = IF new = {} THEN r ELSE Mark(q, new)
  OBVIOUS
<1>7. /\ <<e, "both">> \in xfer
      /\ xfer' = (xfer \ {<<e, "both">>}) \cup {<<e, "error">>}
      /\ IF F = {} THEN lists' = Put(lists, e[3], r1) /\ UNCHANGED <<board, tried, fail, pend>>
         ELSE jobFileListRefreshed(Put(lists, e[3], r1), e[3], o)
      /\ UNCHANGED jobvars
  BY <1>1, <1>2, <1>3, <1>4, <1>5, <1>6 DEF TargetDupe, Put
<1>8. /\ e[1] \in File /\ e[3] \in Site /\ RecWell(s) /\ ~Unknown(s)
      /\ xfer' \subseteq Element \X {"both", "complete", "error"}
      /\ TargetsKnown(lists, xfer')
  BY <1>1, <1>7, InFlight
<1>9. Later(s, r) /\ r.st = s.st
  BY <1>2, <1>8, LaterFinish
<1>10. RecWell(r) /\ r \in ListRec
  BY <1>9 DEF Later, RecWell
<1>11. Later(r, r1) /\ r1.st = r.st
  <2>1. CASE new = {}
    BY <1>6, <1>10, <2>1, LaterSame
  <2>2. CASE new # {}
    <3>1. size \in [File -> {"no", "empty", "full"}] /\ new \in SUBSET File
      BY <1>3, <1>4, <1>10 DEF ListRec
    <3>2. /\ q \in ListRec /\ q.st = r.st /\ q.size = size
          /\ q.inb = r.inb /\ q.dip = r.dip /\ q.ch = r.ch
      BY <1>5, <1>10, <3>1 DEF ListRec
    <3>3. r.st \in States /\ r.st \notin {"ABSENT", "UNKNOWN"}
      BY <1>8, <1>9, <1>10 DEF ListRec, Unknown
    <3>4. \A f \in File : size[f] # r.size[f] => f \in new
      BY <1>4
    <3>5. Later(r, Mark(q, new)) /\ Mark(q, new).st = r.st
      BY <1>10, <3>1, <3>2, <3>3, <3>4, LaterFiles
    <3> QED BY <1>6, <2>2, <3>5
  <2> QED BY <2>1, <2>2
<1>12. Later(s, r1) /\ r1.st = s.st
  BY <1>9, <1>11, LaterTrans
<1>13. CASE F = {}
  BY <1>1, <1>7, <1>8, <1>12, <1>13, UnnoticedOne
<1>14. CASE F # {}
  BY <1>1, <1>7, <1>8, <1>12, <1>14, Noticed DEF Unknown
<1> QED BY <1>13, <1>14

\* Counters of attempts only go up while the job runs, so that what was
\* exhausted stays exhausted.
MoreAttempts ==
  /\ attempts' \in Attempts
  /\ \A e \in Element : hasFailedTransfer(attempts, e) => hasFailedTransfer(attempts', e)

LEMMA AttemptsGrow ==
  ASSUME JobOK, NEW e \in Element, attempts' = addTransferAttempt(e)
  PROVE  MoreAttempts
<1>1. attempts \in Attempts
  BY DEF JobOK
<1>2. \A d \in Element : /\ <<d[1], d[3]>> \in File \X Site
                         /\ attempts.pair[d] \in 0..MaxPair
                         /\ attempts.all[<<d[1], d[3]>>] \in 0..MaxAll
  BY <1>1 DEF Attempts, Element
<1>3. MaxPair \in Nat /\ MaxAll \in Nat
  BY BoardAssumption
<1>4. PICK p, a : /\ p = Lesser(attempts.pair[e] + 1, MaxPair)
                  /\ a = Lesser(attempts.all[<<e[1], e[3]>>] + 1, MaxAll)
  OBVIOUS
<1>5. /\ p \in 0..MaxPair /\ p >= attempts.pair[e]
      /\ a \in 0..MaxAll /\ a >= attempts.all[<<e[1], e[3]>>]
  BY <1>2, <1>3, <1>4 DEF Lesser
<1>6. /\ attempts'.pair = [attempts.pair EXCEPT ![e] = p]
      /\ attempts'.all = [attempts.all EXCEPT ![<<e[1], e[3]>>] = a]
      /\ attempts' = [pair |-> attempts'.pair, all |-> attempts'.all]
  BY <1>4 DEF addTransferAttempt
<1>7. attempts' \in Attempts
  BY SMTT(30), <1>1, <1>2, <1>5, <1>6 DEF Attempts
<1>8. ASSUME NEW d \in Element, hasFailedTransfer(attempts, d)
      PROVE  hasFailedTransfer(attempts', d)
  <2>1. attempts'.pair[d] >= attempts.pair[d]
    BY <1>1, <1>2, <1>5, <1>6 DEF Attempts
  <2>2. attempts'.all[<<d[1], d[3]>>] >= attempts.all[<<d[1], d[3]>>]
    BY <1>1, <1>2, <1>5, <1>6 DEF Attempts
  <2>3. /\ attempts'.pair[d] \in Nat /\ attempts'.all[<<d[1], d[3]>>] \in Nat
    BY <1>2, <1>3, <1>7 DEF Attempts
  <2> QED BY <1>2, <1>3, <1>8, <2>1, <2>2, <2>3 DEF hasFailedTransfer
<1> QED BY <1>7, <1>8 DEF MoreAttempts

LEMMA SuccessOK ==
  ASSUME BoardInv, NEW e \in Element, transferSuccessful(e)
  PROVE  BoardInv'
<1>1. PICK r : r = lists[e[3]]
  OBVIOUS
<1>2. PICK q : q = [r EXCEPT !.size[e[1]] = "full"]
  OBVIOUS
<1>3. PICK r1 : r1 = IF r.size[e[1]] = "empty" THEN Mark(q, {e[1]}) ELSE r
  OBVIOUS
<1>4. /\ <<e, "complete">> \in xfer /\ xfer' = xfer \ {<<e, "complete">>}
      /\ lists' = Put(lists, e[3], r1)
      /\ attempts' = addTransferAttempt(e)
      /\ UNCHANGED <<sites, done, board, tried, fail, pend>>
  BY <1>1, <1>2, <1>3 DEF transferSuccessful, Put
<1>5. /\ e[1] \in File /\ e[3] \in Site /\ RecWell(r) /\ ~Unknown(r)
      /\ xfer' \subseteq Element \X {"both", "complete", "error"}
      /\ TargetsKnown(lists, xfer')
  BY <1>1, <1>4, InFlight
<1>6. Later(r, r1) /\ r1.st = r.st
  <2>1. CASE r.size[e[1]] # "empty"
    BY <1>3, <1>5, <2>1, LaterSame
  <2>2. CASE r.size[e[1]] = "empty"
    <3>1. r \in ListRec
      BY <1>5 DEF RecWell
    <3>2. /\ q \in ListRec /\ q.st = r.st /\ q.size = [r.size EXCEPT ![e[1]] = "full"]
          /\ q.inb = r.inb /\ q.dip = r.dip /\ q.ch = r.ch
      BY <1>2, <1>5, <3>1 DEF ListRec
    <3>3. r.st \in States /\ r.st \notin {"ABSENT", "UNKNOWN"}
      BY <1>5, <3>1 DEF ListRec, Unknown
    <3>4. PICK size : size = q.size
      OBVIOUS
    <3>5. /\ size \in [File -> {"no", "empty", "full"}]
          /\ \A f \in File : size[f] # r.size[f] => f \in {e[1]}
      BY <3>1, <3>2, <3>4 DEF ListRec
    <3>6. {e[1]} \in SUBSET File
      BY <1>5
    <3>7. Later(r, Mark(q, {e[1]})) /\ Mark(q, {e[1]}).st = r.st
      BY <1>5, <3>2, <3>3, <3>4, <3>5, <3>6, LaterFiles
    <3> QED BY <1>3, <2>2, <3>7
  <2> QED BY <2>1, <2>2
<1>7. ListsWell(lists)
  BY DEF BoardInv, Held, Tables
<1>8. LaterLists(lists, lists') /\ lists'[e[3]] = r1
      /\ \A k \in Site \ {e[3]} : lists'[k] = lists[k]
  BY <1>1, <1>4, <1>5, <1>6, <1>7, LaterOne
<1>9. Held(lists', board', tried', fail')
  BY <1>4, <1>8, HeldLater DEF BoardInv
<1>10. MoreAttempts
  BY <1>4, AttemptsGrow DEF BoardInv
<1>11. FailedDue(lists', pend')
  BY <1>1, <1>4, <1>5, <1>6, <1>8 DEF BoardInv, FailedDue, Later, JobOK
<1>12. TargetsKnown(lists', xfer')
  <2>1. \A x \in xfer' : x[1][3] \in Site
    BY <1>5 DEF Element
  <2> QED BY <1>5, <1>8, <2>1 DEF TargetsKnown, LaterLists, Later
<1>13. JobOK' /\ pend' \subseteq Site /\ UNCHANGED <<sites, done>>
  BY <1>4, <1>10 DEF BoardInv, JobOK, MoreAttempts
<1>14. Exhausted(fail)'
  BY <1>4, <1>10 DEF BoardInv, Held, Tables, Exhausted, MoreAttempts
<1> QED BY <1>5, <1>9, <1>11, <1>12, <1>13, <1>14, AssembleJob DEF Held

LEMMA FailureOK ==
  ASSUME BoardInv, NEW e \in Element, NEW ph \in {"complete", "error"},
         transferFailed(e, ph)
  PROVE  BoardInv'
<1>1. PICK move : move = IF hasFailedTransfer(attempts', e) THEN {e} \cap board ELSE {}
  OBVIOUS
<1>2. /\ <<e, ph>> \in xfer /\ xfer' = xfer \ {<<e, ph>>}
      /\ attempts' = addTransferAttempt(e)
      /\ fail' = fail \cup move /\ board' = board \ move
      /\ tried' \in Flags(tried \ move, move)
      /\ UNCHANGED <<lists, sites, done, pend>>
  BY <1>1 DEF transferFailed
<1>3. /\ xfer' \subseteq Element \X {"both", "complete", "error"}
      /\ TargetsKnown(lists, xfer')
  BY <1>2, InFlight
<1>4. MoreAttempts
  BY <1>2, AttemptsGrow DEF BoardInv
<1>5. JobOK' /\ pend' \subseteq Site /\ UNCHANGED <<sites, done>>
  BY <1>2, <1>4 DEF BoardInv, JobOK, MoreAttempts
<1>6. tried' \subseteq tried \ move /\ move \subseteq board
  BY <1>1, <1>2 DEF Flags
<1>7. ListsWell(lists)
  BY DEF BoardInv, Held, Tables
<1>8. /\ board' \subseteq Element /\ tried' \subseteq board' /\ fail' \subseteq Element
      /\ board' \cup fail' = board \cup fail
      /\ (board \ tried) \cup fail \subseteq (board' \ tried') \cup fail'
  BY <1>2, <1>6 DEF BoardInv, Held, Tables
<1>9. Tables(lists', board', tried', fail')
  <2>1. Kept(lists, (board' \ tried') \cup fail')
    BY <1>8 DEF BoardInv, Held, Tables, Kept
  <2> QED BY <1>2, <1>7, <1>8, <2>1 DEF BoardInv, Held, Tables
<1>10. Exhausted(fail)'
  BY <1>1, <1>2, <1>4 DEF BoardInv, Held, Tables, Exhausted, MoreAttempts
<1>11. FailedDue(lists', pend') /\ TargetsKnown(lists', xfer')
  BY <1>2, <1>3 DEF BoardInv
<1> QED BY <1>3, <1>5, <1>9, <1>10, <1>11, AssembleJob

-----------------------------------------------------------------------------
(***************************************************************************)
(* The job.                                                                *)
(***************************************************************************)
\* What a wipe leaves.
LEMMA Wiped ==
  ASSUME BoardInv, NEW L, wipeFromScoreBoard(L)
  PROVE  /\ board' \subseteq board /\ tried' \subseteq tried /\ tried' \subseteq board'
         /\ fail' \subseteq fail
         /\ \A e \in Element : e[2] \notin L /\ e[3] \notin L =>
              /\ e \in board => e \in board'
              /\ e \in fail => e \in fail'
         /\ \A e \in board' \cup fail' : e[2] \notin L /\ e[3] \notin L
<1>1. /\ board' = board \ ElementsOf(L)
      /\ tried' \in Flags(tried \ ElementsOf(L), board \cap ElementsOf(L))
      /\ fail' = fail \ ElementsOf(L)
  BY DEF wipeFromScoreBoard
<1>2. tried' \subseteq tried \ ElementsOf(L)
  BY <1>1 DEF Flags
<1>3. tried \subseteq board /\ board \subseteq Element /\ fail \subseteq Element
  BY DEF BoardInv, Held, Tables
<1> QED BY <1>1, <1>2, <1>3 DEF ElementsOf

LEMMA RemoveSiteOK ==
  ASSUME BoardInv, NEW s \in Site, removeSiteFromRace(s)
  PROVE  BoardInv'
<1>1. /\ s \in sites /\ sites' = sites \ {s} /\ done' = done \cup {s}
      /\ wipeFromScoreBoard({s}) /\ UNCHANGED <<lists, attempts, pend, xfer>>
  BY DEF removeSiteFromRace
<1>2. /\ board' \subseteq board /\ tried' \subseteq tried /\ tried' \subseteq board'
      /\ fail' \subseteq fail
      /\ \A e \in Element : e[2] \notin {s} /\ e[3] \notin {s} =>
           /\ e \in board => e \in board'
           /\ e \in fail => e \in fail'
      /\ \A e \in board' \cup fail' : e[2] \notin {s} /\ e[3] \notin {s}
  BY <1>1, Wiped
<1>3. JobOK' /\ (pend \subseteq Site)' /\ (xfer \subseteq Element \X {"both", "complete", "error"})'
  BY <1>1 DEF BoardInv, JobOK
<1>4. FailedDue(lists, pend)' /\ TargetsKnown(lists, xfer)' /\ ListsWell(lists)'
  BY <1>1 DEF BoardInv, Held, Tables, FailedDue, TargetsKnown
<1>5. (board \subseteq Element /\ tried \subseteq board /\ fail \subseteq Element)'
  BY <1>2 DEF BoardInv, Held, Tables
<1>6. Attached(board \cup fail)' /\ KnownEnds(lists, board \cup fail)'
  BY <1>1, <1>2 DEF BoardInv, Held, Tables, Attached, KnownEnds
<1>7. Exhausted(fail)'
  BY <1>1, <1>2 DEF BoardInv, Held, Exhausted
<1>8. SidesMarked(lists, board \cup fail)'
  BY <1>1, <1>2 DEF BoardInv, Held, Tables, SidesMarked, Contains
<1>9. Kept(lists, (board \ tried) \cup fail)'
  <2> SUFFICES ASSUME NEW f \in File, NEW a \in sites', NEW c \in sites',
                      lists'[a].inb, lists'[c].inb, ~lists'[c].dip,
                      a \notin done', c \notin done', Sendable(lists, f, a, c)',
                      f \notin lists'[a].ch, f \notin lists'[c].ch
               PROVE  <<f, a, c>> \in (board' \ tried') \cup fail'
    BY DEF Kept
  <2>1. Sendable(lists, f, a, c)
    BY <1>1 DEF Sendable, Contains, Possible
  <2>2. <<f, a, c>> \in (board \ tried) \cup fail
    BY <1>1, <2>1 DEF BoardInv, Held, Tables, Kept
  <2>3. a # s /\ c # s /\ a \in Site /\ c \in Site
    BY <1>1 DEF BoardInv, JobOK
  <2>4. <<f, a, c>> \in Element
    BY <2>3 DEF Element
  <2> QED BY <1>2, <2>2, <2>3, <2>4
<1> QED BY <1>3, <1>4, <1>5, <1>6, <1>7, <1>8, <1>9 DEF BoardInv, Held, Tables

LEMMA SitesDoneOK ==
  ASSUME BoardInv, NEW D, SitesDone(D)
  PROVE  BoardInv'
<1>1. /\ D \subseteq sites /\ done' = done \cup D /\ sites' = sites
      /\ IF sites \subseteq done' THEN wipeFromScoreBoard(sites)
         ELSE UNCHANGED <<board, tried, fail>>
      /\ UNCHANGED <<lists, attempts, pend, xfer>>
  BY DEF SitesDone
<1>2. /\ board' \subseteq board /\ tried' \subseteq tried /\ tried' \subseteq board'
      /\ fail' \subseteq fail
  BY <1>1, Wiped DEF BoardInv, Held, Tables
<1>3. ~(sites \subseteq done') => board' = board /\ tried' = tried /\ fail' = fail
  BY <1>1
<1>4. JobOK' /\ (pend \subseteq Site)' /\ (xfer \subseteq Element \X {"both", "complete", "error"})'
  BY <1>1 DEF BoardInv, JobOK
<1>5. FailedDue(lists, pend)' /\ TargetsKnown(lists, xfer)' /\ ListsWell(lists)'
  BY <1>1 DEF BoardInv, Held, Tables, FailedDue, TargetsKnown
<1>6. (board \subseteq Element /\ tried \subseteq board /\ fail \subseteq Element)'
  BY <1>2 DEF BoardInv, Held, Tables
<1>7. Attached(board \cup fail)' /\ KnownEnds(lists, board \cup fail)'
  BY <1>1, <1>2 DEF BoardInv, Held, Tables, Attached, KnownEnds
<1>8. Exhausted(fail)'
  BY <1>1, <1>2 DEF BoardInv, Held, Exhausted
<1>9. SidesMarked(lists, board \cup fail)'
  BY <1>1, <1>2 DEF BoardInv, Held, Tables, SidesMarked, Contains
<1>10. Kept(lists, (board \ tried) \cup fail)'
  <2> SUFFICES ASSUME NEW f \in File, NEW a \in sites', NEW c \in sites',
                      lists'[a].inb, lists'[c].inb, ~lists'[c].dip,
                      a \notin done', c \notin done', Sendable(lists, f, a, c)',
                      f \notin lists'[a].ch, f \notin lists'[c].ch
               PROVE  <<f, a, c>> \in (board' \ tried') \cup fail'
    BY DEF Kept
  <2>1. Sendable(lists, f, a, c)
    BY <1>1 DEF Sendable, Contains, Possible
  <2>2. <<f, a, c>> \in (board \ tried) \cup fail
    BY <1>1, <2>1 DEF BoardInv, Held, Tables, Kept
  <2>3. ~(sites \subseteq done')
    BY <1>1
  <2> QED BY <1>3, <2>2, <2>3
<1> QED BY <1>4, <1>5, <1>6, <1>7, <1>8, <1>9, <1>10 DEF BoardInv, Held, Tables

LEMMA RetryOK ==
  ASSUME BoardInv, RetryFailed
  PROVE  BoardInv'
<1>1. /\ attempts' = NoAttempts /\ board' = board \cup fail /\ tried' = tried \ fail
      /\ fail' = {} /\ UNCHANGED <<lists, sites, done, pend, xfer>>
  BY DEF RetryFailed
<1>2. NoAttempts \in Attempts
  BY BoardAssumption DEF NoAttempts, Attempts
<1>3. JobOK' /\ UNCHANGED <<sites, done>> /\ pend' \subseteq Site
      /\ xfer' \subseteq Element \X {"both", "complete", "error"}
  BY <1>1, <1>2 DEF BoardInv, JobOK
<1>4. Exhausted(fail)'
  BY <1>1 DEF Exhausted
<1>5. /\ board' \subseteq Element /\ tried' \subseteq board' /\ fail' \subseteq Element
      /\ board' \cup fail' = board \cup fail
      /\ (board \ tried) \cup fail \subseteq (board' \ tried') \cup fail'
  BY <1>1 DEF BoardInv, Held, Tables
<1>6. Kept(lists, (board' \ tried') \cup fail')
  BY <1>5 DEF BoardInv, Held, Tables, Kept
<1>7. Tables(lists', board', tried', fail')
  BY <1>1, <1>5, <1>6 DEF BoardInv, Held, Tables
<1>8. FailedDue(lists', pend') /\ TargetsKnown(lists', xfer')
  BY <1>1 DEF BoardInv
<1> QED BY <1>3, <1>4, <1>7, <1>8, AssembleJob

LEMMA ResetOK ==
  ASSUME BoardInv, NEW hard \in BOOLEAN, resetRace(hard)
  PROVE  BoardInv'
<1>1. /\ lists' = [l \in Site |->
                   IF l \in sites THEN BlankList(IF hard THEN "UNKNOWN" ELSE lists[l].st)
                   ELSE lists[l]]
      /\ done' = done \ sites /\ attempts' = NoAttempts
      /\ wipeFromScoreBoard(sites)
      /\ xfer' = {} /\ pend' = {} /\ sites' = sites
  BY DEF resetRace
<1>2. NoAttempts \in Attempts
  BY BoardAssumption DEF NoAttempts, Attempts
<1>3. JobOK'
  BY <1>1, <1>2 DEF BoardInv, JobOK
<1>4. /\ board' \cup fail' \subseteq board \cup fail /\ tried' \subseteq board'
      /\ \A e \in board' \cup fail' : e[2] \notin sites /\ e[3] \notin sites
  BY <1>1, Wiped
<1>5. board' = {} /\ fail' = {} /\ tried' = {}
  BY <1>4 DEF BoardInv, Held, Tables, Attached
<1>6. ASSUME NEW l \in Site
      PROVE  RecWell(lists'[l]) /\ (l \in sites => ~lists'[l].inb)
  <2>1. RecWell(lists[l]) /\ lists[l].st \in States
    BY DEF BoardInv, Held, Tables, ListsWell, RecWell, ListRec
  <2>2. CASE l \in sites
    <3>1. PICK st \in States : lists'[l] = BlankList(st)
      BY <1>1, <2>1, <2>2 DEF States
    <3> QED BY <3>1, BlankWell
  <2>3. CASE l \notin sites
    BY <1>1, <2>1, <2>3
  <2> QED BY <2>2, <2>3
<1>7. ListsWell(lists')
  <2>1. lists' = [l \in Site |-> lists'[l]]
    BY <1>1
  <2> QED BY <1>6, <2>1 DEF ListsWell
<1>8. ListsWell(lists)'
  BY <1>7 DEF ListsWell, RecWell, Unknown
<1>9. FailedDue(lists, pend)' /\ TargetsKnown(lists, xfer)'
  BY <1>1, <1>6 DEF FailedDue, TargetsKnown, BoardInv, JobOK
<1>10. Kept(lists, (board \ tried) \cup fail)'
  <2>1. \A a \in sites' : ~lists'[a].inb
    BY <1>1, <1>6 DEF BoardInv, JobOK
  <2> QED BY <2>1 DEF Kept
<1>11. /\ Attached(board \cup fail)' /\ KnownEnds(lists, board \cup fail)'
       /\ Exhausted(fail)' /\ SidesMarked(lists, board \cup fail)'
  BY <1>5 DEF Attached, KnownEnds, Exhausted, SidesMarked
<1> QED BY <1>1, <1>3, <1>5, <1>8, <1>9, <1>10, <1>11 DEF BoardInv, Held, Tables

-----------------------------------------------------------------------------
LEMMA BoardInitOK ==
  ASSUME ScoreInit
  PROVE  BoardInv
<1>1. PICK st \in [Site -> {"ABSENT", "UNKNOWN"}] : lists = [l \in Site |-> BlankList(st[l])]
  BY DEF ScoreInit
<1>2. /\ sites = Site /\ done = {} /\ board = {} /\ tried = {} /\ fail = {} /\ pend = {}
      /\ xfer = {} /\ attempts = NoAttempts
  BY DEF ScoreInit
<1>3. ASSUME NEW l \in Site
      PROVE  RecWell(lists[l]) /\ ~lists[l].inb
  <2>1. st[l] \in States /\ lists[l] = BlankList(st[l])
    BY <1>1 DEF States
  <2> QED BY <2>1, BlankWell
<1>4. ListsWell(lists)
  <2>1. lists = [l \in Site |-> lists[l]]
    BY <1>1
  <2> QED BY <1>3, <2>1 DEF ListsWell
<1>5. JobOK
  BY <1>2, BoardAssumption DEF JobOK, NoAttempts, Attempts
<1>6. FailedDue(lists, pend) /\ TargetsKnown(lists, xfer)
  BY <1>2, <1>3 DEF FailedDue, TargetsKnown
<1>7. Kept(lists, (board \ tried) \cup fail)
  BY <1>2, <1>3 DEF Kept
<1>8. /\ Attached(board \cup fail) /\ KnownEnds(lists, board \cup fail)
      /\ Exhausted(fail) /\ SidesMarked(lists, board \cup fail)
  BY <1>2 DEF Attached, KnownEnds, Exhausted, SidesMarked
<1> QED BY <1>2, <1>4, <1>5, <1>6, <1>7, <1>8 DEF BoardInv, Held, Tables

LEMMA BoardStutter ==
  ASSUME BoardInv, UNCHANGED bvars
  PROVE  BoardInv'
<1>1. /\ UNCHANGED jobvars /\ pend' = pend /\ xfer' = xfer
      /\ lists' = lists /\ board' = board /\ tried' = tried /\ fail' = fail
  BY DEF bvars, jobvars
<1> QED BY <1>1, Assemble DEF BoardInv

LEMMA BoardStep ==
  ASSUME BoardInv, [ScoreNext]_bvars
  PROVE  BoardInv'
<1>1. CASE \E l \in Site, o \in BOOLEAN :
            \/ \E size \in [File -> {"no", "empty", "full"}], G \in SUBSET File :
                 Listing(l, size, G, o)
            \/ \E report \in BOOLEAN : CwdFailed(l, report, o)
  BY <1>1, ListingOK, CwdFailedOK
<1>2. CASE \E l \in Site, x \in BOOLEAN : SitePathState(l, x)
  BY <1>2, SitePathStateOK
<1>3. CASE OtherJobRefreshed
  BY <1>3, OtherJobOK
<1>4. CASE \E T \in SUBSET board : issueOptimalTransfers(T)
  BY <1>4, IssueOK
<1>5. CASE \E e \in Element :
            \/ \E err \in BOOLEAN : TargetEnds(e, err)
            \/ \E F \in SUBSET File, o \in BOOLEAN : TargetDupe(e, F, o)
            \/ transferSuccessful(e)
            \/ \E ph \in {"complete", "error"} : transferFailed(e, ph)
  BY <1>5, TargetEndsOK, TargetDupeOK, SuccessOK, FailureOK
<1>6. CASE \E s \in Site : removeSiteFromRace(s)
  BY <1>6, RemoveSiteOK
<1>7. CASE \E D \in {{s} : s \in Site} \cup {sites \ done} : SitesDone(D)
  BY <1>7, SitesDoneOK
<1>8. CASE \E hard \in BOOLEAN : resetRace(hard)
  BY <1>8, ResetOK
<1>9. CASE RetryFailed
  BY <1>9, RetryOK
<1>10. CASE UNCHANGED bvars
  BY <1>10, BoardStutter
<1> QED
  BY <1>1, <1>2, <1>3, <1>4, <1>5, <1>6, <1>7, <1>8, <1>9, <1>10 DEF ScoreNext

(***************************************************************************)
(* The theorems.                                                           *)
(***************************************************************************)
\* The invariant that the three properties follow from.
THEOREM BoardCorrect == ScoreSpec => []BoardInv
<1>1. ScoreInit => BoardInv
  BY BoardInitOK
<1>2. BoardInv /\ [ScoreNext]_bvars => BoardInv'
  BY BoardStep
<1> QED BY <1>1, <1>2, PTL DEF ScoreSpec

\* Only transfers that have used up their attempts wait on the failboard
\* (Engine::transferFailed), in a well-typed state.
THEOREM FailedCorrect == ScoreSpec => []FailedInv
<1>1. BoardInv => FailedInv
  <2> SUFFICES ASSUME BoardInv PROVE FailedInv
    OBVIOUS
  <2>1. lists = [l \in Site |-> lists[l]] /\ \A l \in Site : lists[l] \in ListRec
    BY DEF BoardInv, Held, Tables, ListsWell, RecWell
  <2>2. lists \in [Site -> ListRec]
    BY <2>1
  <2> QED BY <2>2 DEF BoardInv, Held, Tables, JobOK, Attempts, Exhausted,
                      FailedInv, BoardTypeOK, FailedExhausted
<1> QED BY <1>1, BoardCorrect, PTL

\* No outdated transfer stays on the boards unmarked (Engine::updateScoreBoard
\* and the change marks of FileList).
THEOREM OutdatedCorrect == ScoreSpec => []OutdatedMarked
<1>1. BoardInv => OutdatedMarked
  BY DEF BoardInv, Held, Tables, SidesMarked, OutdatedMarked, Marked
<1> QED BY <1>1, BoardCorrect, PTL

\* No possible transfer is forgotten, however listings, failures, deferred
\* updates and transfers interleave.
THEOREM NothingForgotten == ScoreSpec => []Remembered
<1>1. BoardInv => Remembered
  <2> SUFFICES ASSUME BoardInv, NEW f \in File, NEW a \in sites, NEW b \in sites,
                      lists[a].inb, lists[b].inb, ~lists[b].dip,
                      {a, b} \cap done = {}, Sendable(lists, f, a, b)
               PROVE  LET e == <<f, a, b>>
                      IN e \in (board \ tried) \cup fail \/ Marked(e)
    BY DEF Remembered
  <2>1. a \notin done /\ b \notin done
    OBVIOUS
  <2> QED BY <2>1 DEF BoardInv, Held, Tables, Kept, Marked
<1> QED BY <1>1, BoardCorrect, PTL
=============================================================================
