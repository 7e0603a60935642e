--------------------------- MODULE SiteSlotsProofs ---------------------------
(***************************************************************************)
(* Proofs about SiteSlots, for any number of connections and any limits.   *)
(*                                                                         *)
(* The books are kept by adding and subtracting one along every path.  The *)
(* argument is therefore one lemma, AccountKeepsBooks (a step that changes *)
(* one connection and moves the counters by the difference it makes keeps  *)
(* the books), and, per action, the proof that the action is such a step.  *)
(* The latter needs ConnOK: what a connection never combines.              *)
(***************************************************************************)
EXTENDS SiteSlots, FiniteSetTheorems, TLAPS

-----------------------------------------------------------------------------
(***************************************************************************)
(* The inductive invariant.                                                *)
(***************************************************************************)
ConnOK(k) ==
  /\ k.data # "none" => k.req # "none"
  /\ k.req = "plain" => k.tl = "no"
  /\ k.req = "plain" /\ k.busy /\ ~k.list => k.data = "none"
  /\ k.req = "view" => ~k.list
  /\ k.link = "quit" => k.tl = "no" /\ ~k.list /\ k.req = "none"
  /\ k.list => UsesLIST

SlotLimits ==
  /\ \E t \in OriginTypes : slots["dn"] <= MaxDown[t]
  /\ slots["up"] <= MaxUp

SlotsInv ==
  /\ SlotsTypeOK
  /\ Books
  /\ \A c \in Conns : ConnOK(conn[c])
  /\ SlotLimits
  /\ ~UsesLIST => \A d \in Dirs : lost[d] = 0
  /\ ~asserted

(***************************************************************************)
(* The step changes at most connection c, and moves the counters by the    *)
(* difference that this makes.                                             *)
(***************************************************************************)
Takes(k) == k.tl # "no" \/ k.req # "none"

Account(c) ==
  /\ \A x \in Conns \ {c} : conn'[x] = conn[x]
  /\ loggedin' = loggedin + One(conn'[c].link = "up") - One(conn[c].link = "up")
  /\ available' = available
       + One(conn'[c].link = "up") - One(conn[c].link = "up")
       - One(Takes(conn'[c])) + One(Takes(conn[c]))
       - (lost'["dn"] - lost["dn"]) - (lost'["up"] - lost["up"])
  /\ \A d \in Dirs : slots'[d] = slots[d]
       + One(conn'[c].tl = d) - One(conn[c].tl = d)
       + (delayed'[d] - delayed[d]) + (lost'[d] - lost[d])

-----------------------------------------------------------------------------
(***************************************************************************)
(* Counting.                                                               *)
(***************************************************************************)
\* A set of connections has a size.
LEMMA SubsetSize ==
  ASSUME NEW S \in SUBSET Conns
  PROVE  IsFiniteSet(S) /\ Cardinality(S) \in Nat
  BY SlotsAssumption, FS_Subset, FS_CardinalityType DEF SlotsAssumption

\* Two sets that differ at most in c differ in size by what c contributes.
LEMMA DiffersAt ==
  ASSUME NEW S \in SUBSET Conns, NEW T \in SUBSET Conns, NEW c,
         S \ {c} = T \ {c}
  PROVE  Cardinality(T) = Cardinality(S) + One(c \in T) - One(c \in S)
<1>1. /\ IsFiniteSet(S) /\ IsFiniteSet(T)
      /\ Cardinality(S) \in Nat /\ Cardinality(T) \in Nat
  BY SubsetSize
<1>2. CASE c \in S /\ c \in T
  <2>1. S = T
    BY <1>2
  <2> QED
    BY <1>1, <1>2, <2>1 DEF One
<1>3. CASE c \in S /\ c \notin T
  <2>1. T = S \ {c}
    BY <1>3
  <2>2. Cardinality(T) = Cardinality(S) - 1
    BY <1>1, <1>3, <2>1, FS_RemoveElement
  <2> QED
    BY <1>1, <1>3, <2>2 DEF One
<1>4. CASE c \notin S /\ c \in T
  <2>1. T = S \cup {c}
    BY <1>4
  <2>2. Cardinality(T) = Cardinality(S) + 1
    BY <1>1, <1>4, <2>1, FS_AddElement
  <2> QED
    BY <1>1, <1>4, <2>2 DEF One
<1>5. CASE c \notin S /\ c \notin T
  <2>1. S = T
    BY <1>5
  <2> QED
    BY <1>1, <1>5, <2>1 DEF One
<1> QED
  BY <1>2, <1>3, <1>4, <1>5

\* A step that accounts for its one connection keeps the books.
LEMMA AccountKeepsBooks ==
  ASSUME SlotsTypeOK, SlotsTypeOK', Books, NEW c \in Conns, Account(c)
  PROVE  Books'
<1>1. Cardinality(Up') = Cardinality(Up)
        + One(conn'[c].link = "up") - One(conn[c].link = "up")
  <2>1. Up \in SUBSET Conns /\ Up' \in SUBSET Conns
    BY DEF Up
  <2>2. Up \ {c} = Up' \ {c}
    BY DEF Up, Account
  <2>3. (c \in Up' <=> conn'[c].link = "up") /\ (c \in Up <=> conn[c].link = "up")
    BY DEF Up
  <2>4. Cardinality(Up') = Cardinality(Up) + One(c \in Up') - One(c \in Up)
    BY <2>1, <2>2, DiffersAt
  <2> QED
    BY <2>3, <2>4 DEF One
<1>2. Cardinality(Taken') = Cardinality(Taken)
        + One(Takes(conn'[c])) - One(Takes(conn[c]))
  <2>1. Taken \in SUBSET Conns /\ Taken' \in SUBSET Conns
    BY DEF Taken
  <2>2. Taken \ {c} = Taken' \ {c}
    BY DEF Taken, Account
  <2>3. (c \in Taken' <=> Takes(conn'[c])) /\ (c \in Taken <=> Takes(conn[c]))
    BY DEF Taken, Takes
  <2>4. Cardinality(Taken') = Cardinality(Taken) + One(c \in Taken') - One(c \in Taken)
    BY <2>1, <2>2, DiffersAt
  <2> QED
    BY <2>3, <2>4 DEF One
<1>3. ASSUME NEW d \in Dirs
      PROVE  Cardinality(Using(d)') = Cardinality(Using(d))
               + One(conn'[c].tl = d) - One(conn[c].tl = d)
  <2>1. Using(d) \in SUBSET Conns /\ Using(d)' \in SUBSET Conns
    BY DEF Using
  <2>2. Using(d) \ {c} = Using(d)' \ {c}
    BY DEF Using, Account
  <2>3. (c \in Using(d)' <=> conn'[c].tl = d) /\ (c \in Using(d) <=> conn[c].tl = d)
    BY DEF Using
  <2>4. Cardinality(Using(d)') = Cardinality(Using(d))
          + One(c \in Using(d)') - One(c \in Using(d))
    BY <2>1, <2>2, DiffersAt
  <2> QED
    BY <2>3, <2>4 DEF One
<1>4. /\ Cardinality(Up) \in Nat /\ Cardinality(Taken) \in Nat
      /\ \A d \in Dirs : Cardinality(Using(d)) \in Nat
  BY SubsetSize DEF Up, Taken, Using
<1>5. /\ loggedin \in Int /\ available \in Int
      /\ \A d \in Dirs : slots[d] \in Int /\ delayed[d] \in Nat /\ lost[d] \in Nat
                         /\ delayed'[d] \in Nat /\ lost'[d] \in Nat
      /\ "dn" \in Dirs /\ "up" \in Dirs
  BY DEF SlotsTypeOK, Dirs
<1>6. \A b : One(b) \in Int
  BY DEF One
<1>7. loggedin' = Cardinality(Up')
  BY <1>1, <1>4, <1>5, <1>6 DEF Account, Books
<1>8. available' = Cardinality(Up') - Cardinality(Taken') - lost'["dn"] - lost'["up"]
  <2> DEFINE u == One(conn[c].link = "up")
             v == One(conn'[c].link = "up")
             t == One(Takes(conn[c]))
             w == One(Takes(conn'[c]))
  <2>1. u \in Int /\ v \in Int /\ t \in Int /\ w \in Int
    BY <1>6
  <2>2. /\ Cardinality(Up') = Cardinality(Up) + v - u
        /\ Cardinality(Taken') = Cardinality(Taken) + w - t
    BY <1>1, <1>2
  <2>3. available' = available + v - u - w + t
          - (lost'["dn"] - lost["dn"]) - (lost'["up"] - lost["up"])
    BY DEF Account
  <2>4. available = Cardinality(Up) - Cardinality(Taken) - lost["dn"] - lost["up"]
    BY DEF Books
  <2> HIDE DEF u, v, t, w
  <2> QED
    BY <1>4, <1>5, <2>1, <2>2, <2>3, <2>4
<1>9. ASSUME NEW d \in Dirs
      PROVE  slots'[d] = Cardinality(Using(d)') + delayed'[d] + lost'[d]
  BY <1>3, <1>4, <1>5, <1>6 DEF Account, Books
<1> QED
  BY <1>7, <1>8, <1>9 DEF Books

(***************************************************************************)
(* What a step at connection c has to show.                                *)
(***************************************************************************)
StepOK(c) ==
  /\ SlotsTypeOK'
  /\ Account(c)
  /\ ConnOK(conn'[c])
  /\ SlotLimits'
  /\ ~UsesLIST => lost' = lost
  /\ ~asserted'

\* A step that leaves the counters alone, and who is counted in them.
LEMMA QuietStep ==
  ASSUME SlotsInv, NEW c \in Conns,
         conn'[c] \in ConnStates, conn' = [conn EXCEPT ![c] = conn'[c]],
         ConnOK(conn'[c]), conn'[c].tl = conn[c].tl,
         conn'[c].link = "up" <=> conn[c].link = "up",
         conn'[c].req = "none" <=> conn[c].req = "none",
         UNCHANGED <<loggedin, available, slots, delayed, lost, asserted>>
  PROVE  StepOK(c)
<1>1. SlotsTypeOK'
  BY DEF SlotsInv, SlotsTypeOK
<1>2. Account(c)
  BY DEF SlotsInv, SlotsTypeOK, Account, Takes, One, Dirs
<1>3. SlotLimits' /\ lost' = lost /\ ~asserted'
  BY DEF SlotsInv, SlotLimits
<1> QED
  BY <1>1, <1>2, <1>3 DEF StepOK

\* Every step at a connection accounts for what it does.
LEMMA ConnStepOK ==
  ASSUME SlotsInv, NEW c \in Conns, ConnStep(c)
  PROVE  StepOK(c)
<1>a. /\ conn \in [Conns -> ConnStates]
      /\ conn[c] \in ConnStates /\ ConnOK(conn[c])
      /\ loggedin \in Int /\ available \in Int /\ slots \in [Dirs -> Int]
      /\ delayed \in [Dirs -> Nat] /\ lost \in [Dirs -> Nat]
      /\ ~asserted /\ asserted \in BOOLEAN
  BY DEF SlotsInv, SlotsTypeOK
<1>b. /\ SlotLimits
      /\ MaxDown \in [OriginTypes -> Nat] /\ MaxUp \in Nat
  BY SlotsAssumption DEF SlotsInv, SlotsAssumption
<1>1. ASSUME login(c) PROVE StepOK(c)
  <2>1. conn'[c] \in ConnStates /\ conn' = [conn EXCEPT ![c] = conn'[c]]
    BY <1>a, <1>1 DEF ConnStates, login
  <2>2. /\ ConnOK(conn'[c]) /\ conn'[c].tl = conn[c].tl
        /\ conn'[c].link = "up" <=> conn[c].link = "up"
        /\ conn'[c].req = "none" <=> conn[c].req = "none"
        /\ UNCHANGED <<loggedin, available, slots, delayed, lost, asserted>>
    BY <1>a, <1>1
       DEF ConnStates, ConnOK, login
  <2> QED
    BY <2>1, <2>2, QuietStep
<1>2. ASSUME LoginSuccess(c) PROVE StepOK(c)
  <2>1. conn'[c] \in ConnStates /\ conn' = [conn EXCEPT ![c] = conn'[c]]
    BY <1>a, <1>2 DEF ConnStates, Dirs, LoginSuccess
  <2>2. SlotsTypeOK'
    BY <1>a, <1>2, <2>1 DEF SlotsTypeOK, ConnStates, Dirs, LoginSuccess
  <2>3. Account(c)
    BY <1>a, <1>2
       DEF ConnStates, Dirs, ConnOK, Account, Takes, One, LoginSuccess
  <2>4. ConnOK(conn'[c])
    BY <1>a, <1>2 DEF ConnStates, ConnOK, LoginSuccess
  <2>5. SlotLimits'
    BY <1>a, <1>b, <1>2 DEF SlotLimits, ConnStates, Dirs, LoginSuccess
  <2>6. (~UsesLIST => lost' = lost) /\ ~asserted'
    BY <1>a, <1>2 DEF ConnOK, ConnStates, LoginSuccess
  <2> QED
    BY <2>1, <2>2, <2>3, <2>4, <2>5, <2>6 DEF StepOK
<1>3. ASSUME userDeniedSiteFull(c) PROVE StepOK(c)
  <2>1. conn'[c] \in ConnStates /\ conn' = [conn EXCEPT ![c] = conn'[c]]
    BY <1>a, <1>3 DEF ConnStates, userDeniedSiteFull
  <2>2. /\ ConnOK(conn'[c]) /\ conn'[c].tl = conn[c].tl
        /\ conn'[c].link = "up" <=> conn[c].link = "up"
        /\ conn'[c].req = "none" <=> conn[c].req = "none"
        /\ UNCHANGED <<loggedin, available, slots, delayed, lost, asserted>>
    BY <1>a, <1>3
       DEF ConnStates, ConnOK, userDeniedSiteFull
  <2> QED
    BY <2>1, <2>2, QuietStep
<1>4. ASSUME reconnect(c) PROVE StepOK(c)
  <2>1. conn'[c] \in ConnStates /\ conn' = [conn EXCEPT ![c] = conn'[c]]
    BY <1>a, <1>4 DEF ConnStates, reconnect
  <2>2. /\ ConnOK(conn'[c]) /\ conn'[c].tl = conn[c].tl
        /\ conn'[c].link = "up" <=> conn[c].link = "up"
        /\ conn'[c].req = "none" <=> conn[c].req = "none"
        /\ UNCHANGED <<loggedin, available, slots, delayed, lost, asserted>>
    BY <1>a, <1>4
       DEF ConnStates, ConnOK, reconnect
  <2> QED
    BY <2>1, <2>2, QuietStep
<1>5. ASSUME disconnectConn(c) PROVE StepOK(c)
  <2>1. conn'[c] \in ConnStates /\ conn' = [conn EXCEPT ![c] = conn'[c]]
    BY <1>a, <1>5 DEF ConnStates, Dirs, disconnectConn, Drop
  <2>2. SlotsTypeOK'
    BY <1>a, <1>5, <2>1
       DEF SlotsTypeOK, ConnStates, Dirs, disconnectConn, Drop
  <2>3. Account(c)
    BY <1>a, <1>5
       DEF ConnStates, Dirs, ConnOK, Account, Takes, One, disconnectConn,
           Drop
  <2>4. ConnOK(conn'[c])
    BY <1>a, <1>5 DEF ConnStates, ConnOK, disconnectConn, Drop
  <2>5. SlotLimits'
    BY <1>a, <1>b, <1>5 DEF SlotLimits, ConnStates, Dirs, disconnectConn, Drop
  <2>6. (~UsesLIST => lost' = lost) /\ ~asserted'
    BY <1>a, <1>5 DEF ConnOK, ConnStates, disconnectConn, Drop
  <2> QED
    BY <2>1, <2>2, <2>3, <2>4, <2>5, <2>6 DEF StepOK
<1>6. ASSUME disconnected(c) PROVE StepOK(c)
  <2>1. conn'[c] \in ConnStates /\ conn' = [conn EXCEPT ![c] = conn'[c]]
    BY <1>a, <1>6 DEF ConnStates, Dirs, disconnected, Drop
  <2>2. SlotsTypeOK'
    BY <1>a, <1>6, <2>1 DEF SlotsTypeOK, ConnStates, Dirs, disconnected, Drop
  <2>3. Account(c)
    BY <1>a, <1>6
       DEF ConnStates, Dirs, ConnOK, Account, Takes, One, disconnected, Drop
  <2>4. ConnOK(conn'[c])
    BY <1>a, <1>6 DEF ConnStates, ConnOK, disconnected, Drop
  <2>5. SlotLimits'
    BY <1>a, <1>b, <1>6 DEF SlotLimits, ConnStates, Dirs, disconnected, Drop
  <2>6. (~UsesLIST => lost' = lost) /\ ~asserted'
    BY <1>a, <1>6 DEF ConnOK, ConnStates, disconnected, Drop
  <2> QED
    BY <2>1, <2>2, <2>3, <2>4, <2>5, <2>6 DEF StepOK
<1>7. ASSUME QUITResponse(c) PROVE StepOK(c)
  <2>1. conn'[c] \in ConnStates /\ conn' = [conn EXCEPT ![c] = conn'[c]]
    BY <1>a, <1>7 DEF ConnStates, QUITResponse
  <2>2. /\ ConnOK(conn'[c]) /\ conn'[c].tl = conn[c].tl
        /\ conn'[c].link = "up" <=> conn[c].link = "up"
        /\ conn'[c].req = "none" <=> conn[c].req = "none"
        /\ UNCHANGED <<loggedin, available, slots, delayed, lost, asserted>>
    BY <1>a, <1>7
       DEF ConnStates, ConnOK, QUITResponse, isListOrTransferLocked
  <2> QED
    BY <2>1, <2>2, QuietStep
<1>8. ASSUME handleRequest(c) PROVE StepOK(c)
  <2>1. conn'[c] \in ConnStates /\ conn' = [conn EXCEPT ![c] = conn'[c]]
    BY <1>a, <1>8 DEF ConnStates, Dirs, handleRequest
  <2>2. SlotsTypeOK'
    BY <1>a, <1>8, <2>1 DEF SlotsTypeOK, ConnStates, Dirs, handleRequest
  <2>3. Account(c)
    BY <1>a, <1>8
       DEF ConnStates, Dirs, ConnOK, Account, Takes, One, handleRequest,
           Handles, isLocked, isHardLocked
  <2>4. ConnOK(conn'[c])
    BY <1>a, <1>8
       DEF ConnStates, ConnOK, handleRequest, Handles, isLocked,
           isHardLocked
  <2>5. SlotLimits'
    BY <1>a, <1>b, <1>8
       DEF SlotLimits, ConnStates, Dirs, handleRequest, Handles, isLocked,
           isHardLocked
  <2>6. (~UsesLIST => lost' = lost) /\ ~asserted'
    BY <1>a, <1>8
       DEF ConnOK, ConnStates, handleRequest, Handles, isLocked,
           isHardLocked
  <2> QED
    BY <2>1, <2>2, <2>3, <2>4, <2>5, <2>6 DEF StepOK
<1>9. ASSUME handleViewRequest(c) PROVE StepOK(c)
  <2>1. conn'[c] \in ConnStates /\ conn' = [conn EXCEPT ![c] = conn'[c]]
    <3>1. PICK b \in BOOLEAN :
            conn' = [conn EXCEPT ![c].req = "view", ![c].tl = "dn",
                                 ![c].data = "live", ![c].busy = b]
      BY <1>9 DEF handleViewRequest
    <3> QED
      BY <1>a, <3>1 DEF ConnStates, Dirs
  <2>2. SlotsTypeOK'
    <3>1. conn' \in [Conns -> ConnStates]
      BY <1>a, <2>1
    <3> QED
      BY <1>a, <1>9, <3>1 DEF SlotsTypeOK, Dirs, handleViewRequest, One
  <2>3. Account(c)
    BY <1>a, <1>9
       DEF ConnStates, Dirs, ConnOK, Account, Takes, One, handleViewRequest,
           Handles, isLocked, isHardLocked, downloadSlotAvailable, getSlot,
           Limit
  <2>4. ConnOK(conn'[c])
    BY <1>a, <1>9
       DEF ConnStates, ConnOK, handleViewRequest, Handles, isLocked,
           isHardLocked, downloadSlotAvailable, getSlot, Limit
  <2>5. SlotLimits'
    BY <1>a, <1>b, <1>9
       DEF SlotLimits, ConnStates, Dirs, handleViewRequest, Handles,
           isLocked, isHardLocked, downloadSlotAvailable, getSlot, Limit
  <2>6. (~UsesLIST => lost' = lost) /\ ~asserted'
    BY <1>a, <1>9
       DEF ConnOK, ConnStates, handleViewRequest, Handles, isLocked,
           isHardLocked, downloadSlotAvailable, getSlot, Limit
  <2> QED
    BY <2>1, <2>2, <2>3, <2>4, <2>5, <2>6 DEF StepOK
<1>10. ASSUME setRequestReady(c) PROVE StepOK(c)
  <2>1. conn'[c] \in ConnStates /\ conn' = [conn EXCEPT ![c] = conn'[c]]
    BY <1>a, <1>10 DEF ConnStates, Dirs, setRequestReady
  <2>2. SlotsTypeOK'
    BY <1>a, <1>10, <2>1 DEF SlotsTypeOK, ConnStates, Dirs, setRequestReady
  <2>3. Account(c)
    BY <1>a, <1>10
       DEF ConnStates, Dirs, ConnOK, Account, Takes, One, setRequestReady
  <2>4. ConnOK(conn'[c])
    BY <1>a, <1>10 DEF ConnStates, ConnOK, setRequestReady
  <2>5. SlotLimits'
    BY <1>a, <1>b, <1>10 DEF SlotLimits, ConnStates, Dirs, setRequestReady
  <2>6. (~UsesLIST => lost' = lost) /\ ~asserted'
    BY <1>a, <1>10 DEF ConnOK, ConnStates, setRequestReady
  <2> QED
    BY <2>1, <2>2, <2>3, <2>4, <2>5, <2>6 DEF StepOK
<1>11. ASSUME startCommand(c) PROVE StepOK(c)
  <2>1. conn'[c] \in ConnStates /\ conn' = [conn EXCEPT ![c] = conn'[c]]
    BY <1>a, <1>11 DEF ConnStates, startCommand
  <2>2. /\ ConnOK(conn'[c]) /\ conn'[c].tl = conn[c].tl
        /\ conn'[c].link = "up" <=> conn[c].link = "up"
        /\ conn'[c].req = "none" <=> conn[c].req = "none"
        /\ UNCHANGED <<loggedin, available, slots, delayed, lost, asserted>>
    BY <1>a, <1>11
       DEF ConnStates, ConnOK, startCommand, Handles, isLocked, isHardLocked
  <2> QED
    BY <2>1, <2>2, QuietStep
<1>12. ASSUME commandReply(c) PROVE StepOK(c)
  <2>1. conn'[c] \in ConnStates /\ conn' = [conn EXCEPT ![c] = conn'[c]]
    BY <1>a, <1>12 DEF ConnStates, commandReply
  <2>2. /\ ConnOK(conn'[c]) /\ conn'[c].tl = conn[c].tl
        /\ conn'[c].link = "up" <=> conn[c].link = "up"
        /\ conn'[c].req = "none" <=> conn[c].req = "none"
        /\ UNCHANGED <<loggedin, available, slots, delayed, lost, asserted>>
    BY <1>a, <1>12
       DEF ConnStates, ConnOK, commandReply
  <2> QED
    BY <2>1, <2>2, QuietStep
<1>13. ASSUME transferCommand(c) PROVE StepOK(c)
  <2>1. conn'[c] \in ConnStates /\ conn' = [conn EXCEPT ![c] = conn'[c]]
    BY <1>a, <1>13 DEF ConnStates, transferCommand
  <2>2. /\ ConnOK(conn'[c]) /\ conn'[c].tl = conn[c].tl
        /\ conn'[c].link = "up" <=> conn[c].link = "up"
        /\ conn'[c].req = "none" <=> conn[c].req = "none"
        /\ UNCHANGED <<loggedin, available, slots, delayed, lost, asserted>>
    BY <1>a, <1>13
       DEF ConnStates, ConnOK, transferCommand, isListOrTransferLocked
  <2> QED
    BY <2>1, <2>2, QuietStep
<1>14. ASSUME startList(c) PROVE StepOK(c)
  <2>1. conn'[c] \in ConnStates /\ conn' = [conn EXCEPT ![c] = conn'[c]]
    BY <1>a, <1>14 DEF ConnStates, startList
  <2>2. /\ ConnOK(conn'[c]) /\ conn'[c].tl = conn[c].tl
        /\ conn'[c].link = "up" <=> conn[c].link = "up"
        /\ conn'[c].req = "none" <=> conn[c].req = "none"
        /\ UNCHANGED <<loggedin, available, slots, delayed, lost, asserted>>
    BY <1>a, <1>14
       DEF ConnStates, ConnOK, startList, Handles, isLocked, isHardLocked
  <2> QED
    BY <2>1, <2>2, QuietStep
<1>15. ASSUME listCompleted(c) PROVE StepOK(c)
  <2>1. conn'[c] \in ConnStates /\ conn' = [conn EXCEPT ![c] = conn'[c]]
    BY <1>a, <1>15 DEF ConnStates, Dirs, listCompleted, listRefreshed
  <2>2. SlotsTypeOK'
    BY <1>a, <1>15, <2>1
       DEF SlotsTypeOK, ConnStates, Dirs, listCompleted, listRefreshed
  <2>3. Account(c)
    BY <1>a, <1>15
       DEF ConnStates, Dirs, ConnOK, Account, Takes, One, listCompleted,
           listRefreshed
  <2>4. ConnOK(conn'[c])
    BY <1>a, <1>15 DEF ConnStates, ConnOK, listCompleted, listRefreshed
  <2>5. SlotLimits'
    BY <1>a, <1>b, <1>15
       DEF SlotLimits, ConnStates, Dirs, listCompleted, listRefreshed
  <2>6. (~UsesLIST => lost' = lost) /\ ~asserted'
    BY <1>a, <1>15 DEF ConnOK, ConnStates, listCompleted, listRefreshed
  <2> QED
    BY <2>1, <2>2, <2>3, <2>4, <2>5, <2>6 DEF StepOK
<1>16. ASSUME listFailed(c) PROVE StepOK(c)
  <2>1. conn'[c] \in ConnStates /\ conn' = [conn EXCEPT ![c] = conn'[c]]
    BY <1>a, <1>16 DEF ConnStates, Dirs, listFailed
  <2>2. SlotsTypeOK'
    BY <1>a, <1>16, <2>1 DEF SlotsTypeOK, ConnStates, Dirs, listFailed
  <2>3. Account(c)
    BY <1>a, <1>16
       DEF ConnStates, Dirs, ConnOK, Account, Takes, One, listFailed
  <2>4. ConnOK(conn'[c])
    BY <1>a, <1>16 DEF ConnStates, ConnOK, listFailed
  <2>5. SlotLimits'
    BY <1>a, <1>b, <1>16 DEF SlotLimits, ConnStates, Dirs, listFailed
  <2>6. (~UsesLIST => lost' = lost) /\ ~asserted'
    BY <1>a, <1>16 DEF ConnOK, ConnStates, listFailed
  <2> QED
    BY <2>1, <2>2, <2>3, <2>4, <2>5, <2>6 DEF StepOK
<1>17. ASSUME listReturned(c) PROVE StepOK(c)
  <2>1. conn'[c] \in ConnStates /\ conn' = [conn EXCEPT ![c] = conn'[c]]
    BY <1>a, <1>17 DEF ConnStates, listReturned
  <2>2. /\ ConnOK(conn'[c]) /\ conn'[c].tl = conn[c].tl
        /\ conn'[c].link = "up" <=> conn[c].link = "up"
        /\ conn'[c].req = "none" <=> conn[c].req = "none"
        /\ UNCHANGED <<loggedin, available, slots, delayed, lost, asserted>>
    BY <1>a, <1>17
       DEF ConnStates, ConnOK, listReturned
  <2> QED
    BY <2>1, <2>2, QuietStep
<1>18. ASSUME NEW d \in Dirs, NEW t \in OriginTypes, lockTransferConn(c, d, t)
      PROVE  StepOK(c)
  <2>1. conn'[c] \in ConnStates /\ conn' = [conn EXCEPT ![c] = conn'[c]]
    <3>1. PICK b \in {TRUE, conn[c].busy} :
            conn' = [conn EXCEPT ![c].tl = d, ![c].busy = b]
      BY <1>18 DEF lockTransferConn
    <3>2. b \in BOOLEAN
      BY <1>a DEF ConnStates
    <3> QED
      BY <1>a, <3>1, <3>2 DEF ConnStates
  <2>2. SlotsTypeOK'
    BY <1>a, <1>18, <2>1
       DEF SlotsTypeOK, ConnStates, Dirs, lockTransferConn, Candidate,
           Ready, Lockable, getSlot, Limit
  <2>3. Account(c)
    BY <1>a, <1>18
       DEF ConnStates, Dirs, ConnOK, Account, Takes, One, lockTransferConn,
           Candidate, Ready, Lockable, getSlot, Limit, isLocked,
           isHardLocked
  <2>4. ConnOK(conn'[c])
    BY <1>a, <1>18
       DEF ConnStates, ConnOK, lockTransferConn, Candidate, Ready, Lockable,
           getSlot, Limit, isLocked, isHardLocked
  <2>5. SlotLimits'
    BY <1>a, <1>b, <1>18
       DEF SlotLimits, ConnStates, Dirs, lockTransferConn, Candidate, Ready,
           Lockable, getSlot, Limit, isLocked, isHardLocked
  <2>6. (~UsesLIST => lost' = lost) /\ ~asserted'
    BY <1>a, <1>18
       DEF ConnOK, ConnStates, lockTransferConn, Candidate, Ready, Lockable,
           getSlot, Limit, isLocked, isHardLocked
  <2> QED
    BY <2>1, <2>2, <2>3, <2>4, <2>5, <2>6 DEF StepOK
<1>19. ASSUME transferCompleted(c) PROVE StepOK(c)
  <2>1. conn'[c] \in ConnStates /\ conn' = [conn EXCEPT ![c] = conn'[c]]
    BY <1>a, <1>19 DEF ConnStates, Dirs, transferCompleted
  <2>2. SlotsTypeOK'
    BY <1>a, <1>19, <2>1
       DEF SlotsTypeOK, ConnStates, Dirs, transferCompleted, Finish
  <2>3. Account(c)
    BY <1>a, <1>19
       DEF ConnStates, Dirs, ConnOK, Account, Takes, One, transferCompleted,
           Finish
  <2>4. ConnOK(conn'[c])
    BY <1>a, <1>19 DEF ConnStates, ConnOK, transferCompleted
  <2>5. SlotLimits'
    BY <1>a, <1>b, <1>19
       DEF SlotLimits, ConnStates, Dirs, transferCompleted, Finish
  <2>6. (~UsesLIST => lost' = lost) /\ ~asserted'
    BY <1>a, <1>19 DEF ConnOK, ConnStates, transferCompleted, Finish
  <2> QED
    BY <2>1, <2>2, <2>3, <2>4, <2>5, <2>6 DEF StepOK
<1>20. ASSUME transferError(c) PROVE StepOK(c)
  <2>1. conn'[c] \in ConnStates /\ conn' = [conn EXCEPT ![c] = conn'[c]]
    <3>1. PICK b \in BOOLEAN :
            conn' = [conn EXCEPT ![c].tl = "no", ![c].busy = b,
                                 ![c].req = "none", ![c].data = "none"]
      BY <1>20 DEF transferError
    <3> QED
      BY <1>a, <3>1 DEF ConnStates
  <2>2. SlotsTypeOK'
    BY <1>a, <1>20, <2>1
       DEF SlotsTypeOK, ConnStates, Dirs, transferError, Finish
  <2>3. Account(c)
    BY <1>a, <1>20
       DEF ConnStates, Dirs, ConnOK, Account, Takes, One, transferError,
           Finish
  <2>4. ConnOK(conn'[c])
    BY <1>a, <1>20 DEF ConnStates, ConnOK, transferError
  <2>5. SlotLimits'
    BY <1>a, <1>b, <1>20
       DEF SlotLimits, ConnStates, Dirs, transferError, Finish
  <2>6. (~UsesLIST => lost' = lost) /\ ~asserted'
    BY <1>a, <1>20 DEF ConnOK, ConnStates, transferError, Finish
  <2> QED
    BY <2>1, <2>2, <2>3, <2>4, <2>5, <2>6 DEF StepOK
<1>21. ASSUME returnConn(c) PROVE StepOK(c)
  <2>1. conn'[c] \in ConnStates /\ conn' = [conn EXCEPT ![c] = conn'[c]]
    BY <1>a, <1>21 DEF ConnStates, Dirs, returnConn
  <2>2. SlotsTypeOK'
    <3>1. conn[c].tl \in Dirs
      BY <1>a, <1>21 DEF ConnStates, returnConn
    <3>2. conn' \in [Conns -> ConnStates]
      BY <1>a, <2>1
    <3>3. CASE conn[c].list
      BY <1>a, <1>21, <3>1, <3>2, <3>3 DEF SlotsTypeOK, returnConn
    <3>4. CASE ~conn[c].list
      BY <1>a, <1>21, <3>1, <3>2, <3>4
         DEF SlotsTypeOK, returnConn, Finish, One
    <3> QED
      BY <3>3, <3>4
  <2>3. Account(c)
    BY <1>a, <1>21
       DEF ConnStates, Dirs, ConnOK, Account, Takes, One, returnConn, Finish
  <2>4. ConnOK(conn'[c])
    BY <1>a, <1>21 DEF ConnStates, ConnOK, returnConn
  <2>5. SlotLimits'
    BY <1>a, <1>b, <1>21 DEF SlotLimits, ConnStates, Dirs, returnConn, Finish
  <2>6. (~UsesLIST => lost' = lost) /\ ~asserted'
    BY <1>a, <1>21 DEF ConnOK, ConnStates, returnConn, Finish
  <2> QED
    BY <2>1, <2>2, <2>3, <2>4, <2>5, <2>6 DEF StepOK
<1>22. ASSUME localComplete(c) PROVE StepOK(c)
  <2>1. conn'[c] \in ConnStates /\ conn' = [conn EXCEPT ![c] = conn'[c]]
    BY <1>a, <1>22 DEF ConnStates, Dirs, localComplete, listRefreshed
  <2>2. SlotsTypeOK'
    BY <1>a, <1>22, <2>1
       DEF SlotsTypeOK, ConnStates, Dirs, localComplete, listRefreshed
  <2>3. Account(c)
    BY <1>a, <1>22
       DEF ConnStates, Dirs, ConnOK, Account, Takes, One, localComplete,
           listRefreshed, isListOrTransferLocked
  <2>4. ConnOK(conn'[c])
    BY <1>a, <1>22
       DEF ConnStates, ConnOK, localComplete, listRefreshed,
           isListOrTransferLocked
  <2>5. SlotLimits'
    BY <1>a, <1>b, <1>22
       DEF SlotLimits, ConnStates, Dirs, localComplete, listRefreshed,
           isListOrTransferLocked
  <2>6. (~UsesLIST => lost' = lost) /\ ~asserted'
    BY <1>a, <1>22
       DEF ConnOK, ConnStates, localComplete, listRefreshed,
           isListOrTransferLocked
  <2> QED
    BY <2>1, <2>2, <2>3, <2>4, <2>5, <2>6 DEF StepOK
<1>23. ASSUME localError(c) PROVE StepOK(c)
  <2>1. conn'[c] \in ConnStates /\ conn' = [conn EXCEPT ![c] = conn'[c]]
    BY <1>a, <1>23 DEF ConnStates, localError
  <2>2. /\ ConnOK(conn'[c]) /\ conn'[c].tl = conn[c].tl
        /\ conn'[c].link = "up" <=> conn[c].link = "up"
        /\ conn'[c].req = "none" <=> conn[c].req = "none"
        /\ UNCHANGED <<loggedin, available, slots, delayed, lost, asserted>>
    BY <1>a, <1>23
       DEF ConnStates, ConnOK, localError, isListOrTransferLocked
  <2> QED
    BY <2>1, <2>2, QuietStep
<1> QED
  BY <1>1, <1>2, <1>3, <1>4, <1>5, <1>6, <1>7, <1>8, <1>9, <1>10, <1>11,
     <1>12, <1>13, <1>14, <1>15, <1>16, <1>17, <1>18, <1>19, <1>20, <1>21,
     <1>22, <1>23
     DEF ConnStep

\* Both locks of a copy within the site are paid for.
LEMMA SameSiteOK ==
  ASSUME SlotsInv, NEW c \in Conns, NEW x \in Conns, lockSameSite(c, x)
  PROVE  SlotsInv'
<1>1. /\ conn \in [Conns -> ConnStates]
      /\ conn[c] \in ConnStates /\ conn[x] \in ConnStates
      /\ loggedin \in Int /\ available \in Int /\ slots \in [Dirs -> Int]
      /\ delayed \in [Dirs -> Nat] /\ lost \in [Dirs -> Nat]
      /\ \A y \in Conns : ConnOK(conn[y])
  BY DEF SlotsInv, SlotsTypeOK
<1>2. /\ c # x
      /\ conn[c].tl = "no" /\ conn[c].req = "none" /\ conn[c].link = "up"
      /\ conn[x].tl = "no" /\ conn[x].req = "none" /\ conn[x].link = "up"
  BY DEF lockSameSite, Candidate, Ready, Lockable, isLocked, isHardLocked
<1>3. /\ conn' = [conn EXCEPT ![c].tl = "dn", ![x].tl = "up"]
      /\ slots' = [d \in Dirs |-> slots[d] + 1]
      /\ available' = available - 2
      /\ UNCHANGED <<loggedin, delayed, lost, asserted>>
  BY DEF lockSameSite
<1>4. /\ conn' \in [Conns -> ConnStates]
      /\ conn'[c] = [conn[c] EXCEPT !.tl = "dn"]
      /\ conn'[x] = [conn[x] EXCEPT !.tl = "up"]
      /\ \A y \in Conns \ {c, x} : conn'[y] = conn[y]
  BY <1>1, <1>2, <1>3 DEF ConnStates, Dirs
<1>5. SlotsTypeOK'
  BY <1>1, <1>3, <1>4 DEF SlotsInv, SlotsTypeOK
<1>6. Books'
  <2>1. Up' = Up
    BY SMTT(30), <1>1, <1>2, <1>4 DEF Up, ConnStates
  <2>2. Cardinality(Taken') = Cardinality(Taken) + 2
    <3>1. Taken' = (Taken \cup {c}) \cup {x} /\ c \notin Taken /\ x \notin Taken
      BY <1>1, <1>2, <1>4 DEF Taken, ConnStates
    <3>2. IsFiniteSet(Taken) /\ Cardinality(Taken) \in Nat
      BY SubsetSize DEF Taken
    <3>3. /\ IsFiniteSet(Taken \cup {c})
          /\ Cardinality(Taken \cup {c}) = Cardinality(Taken) + 1
      BY <3>1, <3>2, FS_AddElement
    <3>4. Cardinality((Taken \cup {c}) \cup {x}) = Cardinality(Taken \cup {c}) + 1
      BY <1>2, <3>1, <3>3, FS_AddElement
    <3> QED
      BY <3>1, <3>2, <3>3, <3>4
  <2>3. Cardinality(Using("dn")') = Cardinality(Using("dn")) + 1
    <3>1. Using("dn")' = Using("dn") \cup {c} /\ c \notin Using("dn")
      BY <1>1, <1>2, <1>4 DEF Using, ConnStates
    <3> QED
      BY <3>1, SubsetSize, FS_AddElement DEF Using
  <2>4. Cardinality(Using("up")') = Cardinality(Using("up")) + 1
    <3>1. Using("up")' = Using("up") \cup {x} /\ x \notin Using("up")
      BY <1>1, <1>2, <1>4 DEF Using, ConnStates
    <3> QED
      BY <3>1, SubsetSize, FS_AddElement DEF Using
  <2>5. /\ Cardinality(Up) \in Nat /\ Cardinality(Taken) \in Nat
        /\ \A d \in Dirs : Cardinality(Using(d)) \in Nat
    BY SubsetSize DEF Up, Taken, Using
  <2>6. Books
    BY DEF SlotsInv
  <2>7. loggedin' = Cardinality(Up')
    BY <1>3, <2>1, <2>6 DEF Books
  <2>8. available' = Cardinality(Up') - Cardinality(Taken') - lost'["dn"] - lost'["up"]
    BY <1>1, <1>3, <2>1, <2>2, <2>5, <2>6 DEF Books, Dirs
  <2>9. ASSUME NEW d \in Dirs
        PROVE  slots'[d] = Cardinality(Using(d)') + delayed'[d] + lost'[d]
    <3>1. Cardinality(Using(d)') = Cardinality(Using(d)) + 1
      BY <2>3, <2>4 DEF Dirs
    <3>2. slots[d] = Cardinality(Using(d)) + delayed[d] + lost[d]
      BY <2>6 DEF Books
    <3> QED
      BY <1>1, <1>3, <2>5, <3>1, <3>2
  <2> QED
    BY <2>7, <2>8, <2>9 DEF Books
<1>7. \A y \in Conns : ConnOK(conn'[y])
  BY <1>1, <1>2, <1>4 DEF ConnOK, ConnStates
<1>8. SlotLimits'
  BY <1>1, <1>3, SlotsAssumption
    
       DEF lockSameSite, getSlot, Limit, SlotLimits, Dirs, OriginTypes,
           SlotsAssumption
<1> QED
  BY <1>3, <1>5, <1>6, <1>7, <1>8 DEF SlotsInv

\* The delayed return of a slot keeps the books: it was counted as delayed.
LEMMA ReturnSlotOK ==
  ASSUME SlotsInv, NEW d \in Dirs, returnSlot(d)
  PROVE  SlotsInv'
<1>1. /\ slots \in [Dirs -> Int] /\ delayed \in [Dirs -> Nat]
      /\ lost \in [Dirs -> Nat]
      /\ delayed[d] > 0
      /\ delayed' = [delayed EXCEPT ![d] = @ - 1]
      /\ slots' = [slots EXCEPT ![d] = @ - 1]
      /\ UNCHANGED <<conn, loggedin, available, lost, asserted>>
  BY DEF SlotsInv, SlotsTypeOK, returnSlot
<1>2. SlotsTypeOK'
  BY <1>1 DEF SlotsInv, SlotsTypeOK
<1>3. Books'
  <2>1. Up' = Up /\ Taken' = Taken /\ \A e \in Dirs : Using(e)' = Using(e)
    BY <1>1 DEF Up, Taken, Using
  <2>2. \A e \in Dirs : Cardinality(Using(e)) \in Nat
    BY SubsetSize DEF Using
  <2> QED
    BY <1>1, <2>1, <2>2 DEF SlotsInv, Books
<1>4. SlotLimits'
  BY <1>1, SlotsAssumption DEF SlotsInv, SlotLimits, SlotsAssumption, Dirs
<1> QED
  BY <1>1, <1>2, <1>3, <1>4 DEF SlotsInv

\* The books are right before anything is connected.
LEMMA SlotsInvInit == Init => SlotsInv
<1> SUFFICES ASSUME Init PROVE SlotsInv
  OBVIOUS
<1>1. SlotsTypeOK
  <2>1. [link |-> "down", busy |-> FALSE, tl |-> "no", list |-> FALSE,
         req |-> "none", data |-> "none"] \in ConnStates
    BY DEF ConnStates
  <2>2. conn \in [Conns -> ConnStates]
    BY <2>1 DEF Init
  <2>3. /\ loggedin \in Int /\ available \in Int /\ slots \in [Dirs -> Int]
        /\ delayed \in [Dirs -> Nat] /\ lost \in [Dirs -> Nat]
    BY DEF Init
  <2>4. asserted \in BOOLEAN
    BY Zenon DEF Init
  <2> QED
    BY <2>2, <2>3, <2>4 DEF SlotsTypeOK
<1>2. Books
  <2>1. Up = {} /\ Taken = {} /\ \A d \in Dirs : Using(d) = {}
    BY DEF Init, Up, Taken, Using, Dirs
  <2> QED
    BY <2>1, FS_EmptySet DEF Init, Books, Dirs
<1>3. SlotLimits
  BY SlotsAssumption DEF Init, SlotLimits, SlotsAssumption, Dirs, OriginTypes
<1> QED
  BY <1>1, <1>2, <1>3 DEF Init, SlotsInv, ConnOK

\* Every step keeps them.
LEMMA SlotsInvNext == SlotsInv /\ [Next]_vars => SlotsInv'
<1> SUFFICES ASSUME SlotsInv, [Next]_vars PROVE SlotsInv'
  OBVIOUS
<1>1. ASSUME NEW c \in Conns, ConnStep(c) PROVE SlotsInv'
  <2>1. StepOK(c)
    BY <1>1, ConnStepOK
  <2>2. Books'
    BY <2>1, AccountKeepsBooks DEF SlotsInv, StepOK
  <2>3. \A x \in Conns : ConnOK(conn'[x])
    BY <2>1 DEF SlotsInv, StepOK, Account
  <2> QED
    BY <2>1, <2>2, <2>3 DEF SlotsInv, StepOK
<1>2. CASE UNCHANGED vars
  BY <1>2 DEF vars, SlotsInv, SlotsTypeOK, Books, Up, Taken, Using, SlotLimits
<1> QED
  BY <1>1, <1>2, SameSiteOK, ReturnSlotOK DEF Next

\* The inductive invariant holds in every reachable state.
THEOREM SlotsInvariant == Spec => []SlotsInv
  BY SlotsInvInit, SlotsInvNext, PTL DEF Spec

-----------------------------------------------------------------------------
(***************************************************************************)
(* What follows from it.                                                   *)
(***************************************************************************)
\* The site's fields keep their types: no slot is returned that was not due.
THEOREM SlotsTypeCorrect == Spec => []SlotsTypeOK
<1>1. SlotsInv => SlotsTypeOK
  BY DEF SlotsInv
<1> QED
  BY <1>1, SlotsInvariant, PTL

\* The counters agree with the connections, up to the slots that returnConn
\* loses while a connection is list locked.
THEOREM BooksKept == Spec => []Books
<1>1. SlotsInv => Books
  BY DEF SlotsInv
<1> QED
  BY <1>1, SlotsInvariant, PTL

\* On a site that lists with STAT no slot is ever lost: the counters agree
\* with the connections exactly.
THEOREM ExactWithSTAT == ASSUME ~UsesLIST PROVE Spec => []SlotsExact
<1>1. SlotsInv => SlotsExact
  <2> SUFFICES ASSUME SlotsInv PROVE SlotsExact
    OBVIOUS
  <2>1. lost["dn"] = 0 /\ lost["up"] = 0 /\ \A d \in Dirs : lost[d] = 0
    BY DEF SlotsInv, Dirs
  <2>2. /\ Cardinality(Up) \in Nat /\ Cardinality(Taken) \in Nat
        /\ \A d \in Dirs : Cardinality(Using(d)) \in Nat /\ delayed[d] \in Nat
    BY SubsetSize DEF Up, Taken, Using, SlotsInv, SlotsTypeOK
  <2> QED
    BY <2>1, <2>2 DEF SlotsInv, Books, SlotsExact
<1> QED
  BY <1>1, SlotsInvariant, PTL

\* The site's limits hold for the running transfers and the slots still to be
\* returned together.
THEOREM LimitsKept == Spec => []WithinLimits
<1>1. SlotsInv => WithinLimits
  <2> SUFFICES ASSUME SlotsInv PROVE WithinLimits
    OBVIOUS
  <2>1. ASSUME NEW d \in Dirs
        PROVE  /\ Cardinality(Using(d)) \in Nat /\ delayed[d] \in Nat
               /\ slots[d] \in Int
               /\ Cardinality(Using(d)) + delayed[d] <= slots[d]
    <3>1. Cardinality(Using(d)) \in Nat
      BY SubsetSize DEF Using
    <3>2. delayed[d] \in Nat /\ lost[d] \in Nat /\ slots[d] \in Int
      BY DEF SlotsInv, SlotsTypeOK
    <3> QED
      BY <3>1, <3>2 DEF SlotsInv, Books
  <2>2. "dn" \in Dirs /\ "up" \in Dirs
    BY DEF Dirs
  <2>3. PICK t \in OriginTypes : slots["dn"] <= MaxDown[t]
    BY DEF SlotsInv, SlotLimits
  <2>4. MaxDown[t] \in Nat /\ MaxUp \in Nat
    BY SlotsAssumption DEF SlotsAssumption
  <2>5. Cardinality(Using("dn")) + delayed["dn"] <= MaxDown[t]
    BY <2>1, <2>2, <2>3, <2>4
  <2>6. Cardinality(Using("up")) + delayed["up"] <= MaxUp
    BY <2>1, <2>2, <2>4 DEF SlotsInv, SlotLimits
  <2> QED
    BY <2>5, <2>6 DEF WithinLimits
<1> QED
  BY <1>1, SlotsInvariant, PTL

\* When the site says that connections are available, lockTransferConn finds
\* one.
THEOREM PromiseKept == Spec => []SlotPromise
<1>1. SlotsInv => SlotPromise
  <2> SUFFICES ASSUME SlotsInv, \A c \in Conns : ~Lockable(c)
               PROVE  ~(available > 0)
    BY DEF SlotPromise
  <2>1. Up \subseteq Taken
    BY DEF Up, Taken, Lockable, isHardLocked
  <2>2. Cardinality(Up) <= Cardinality(Taken)
    BY <2>1, SubsetSize, FS_Subset DEF Taken
  <2>3. /\ Cardinality(Up) \in Nat /\ Cardinality(Taken) \in Nat
        /\ lost["dn"] \in Nat /\ lost["up"] \in Nat
    BY SubsetSize DEF Up, Taken, SlotsInv, SlotsTypeOK, Dirs
  <2> QED
    BY <2>2, <2>3 DEF SlotsInv, Books
<1> QED
  BY <1>1, SlotsInvariant, PTL

\* No assert of ConnStateTracker or registerDownloadLock fails.
THEOREM AssertsHold == Spec => []SlotsNoAssert
<1>1. SlotsInv => SlotsNoAssert
  BY DEF SlotsInv, SlotsNoAssert
<1> QED
  BY <1>1, SlotsInvariant, PTL

-----------------------------------------------------------------------------
(***************************************************************************)
(* "Leave one slot free".  The checks keep the sum of the slots below the  *)
(* number of connections, as long as each lock is taken under a check of   *)
(* its own.                                                                *)
(***************************************************************************)
Room ==
  LeaveFree /\ Cardinality(Conns) > 1 =>
    slots["dn"] + slots["up"] < Cardinality(Conns)

\* A step that takes a slot has checked that one stays free.
LEMMA RoomNext ==
  ASSUME ~SameSite, SlotsInv, Room, [Next]_vars
  PROVE  Room'
<1>1. /\ slots \in [Dirs -> Int] /\ Cardinality(Conns) \in Nat
      /\ slots["dn"] \in Int /\ slots["up"] \in Int
  BY SlotsAssumption, FS_CardinalityType
     DEF SlotsInv, SlotsTypeOK, SlotsAssumption, Dirs
<1>2. ASSUME NEW d \in Dirs, ~KeepsFree, slots' = [slots EXCEPT ![d] = @ + 1]
      PROVE  Room'
  BY <1>1, <1>2 DEF KeepsFree, Room, Dirs
<1>3. ASSUME NEW d \in Dirs, slots' = [slots EXCEPT ![d] = @ - 1]
      PROVE  Room'
  BY <1>1, <1>3 DEF Room, Dirs
<1>4. CASE UNCHANGED slots
  BY <1>4 DEF Room
<1>5. ASSUME NEW c \in Conns, ConnStep(c)
      PROVE  Room'
  <2>1. conn[c] \in ConnStates
    BY DEF SlotsInv, SlotsTypeOK
  <2>2. CASE handleViewRequest(c)
    BY <1>1, <1>2, <2>2
       DEF handleViewRequest, downloadSlotAvailable, getSlot, Limit, One, Dirs
  <2>3. ASSUME NEW d \in Dirs, NEW t \in OriginTypes, lockTransferConn(c, d, t)
        PROVE  Room'
    BY <1>2, <2>3
       DEF lockTransferConn, downloadSlotAvailable, uploadSlotAvailable
  <2>4. CASE transferCompleted(c) \/ transferError(c) \/ returnConn(c)
    <3>1. conn[c].tl \in Dirs
      BY <2>1, <2>4
         DEF ConnStates, transferCompleted, transferError, returnConn
    <3> QED
      BY <1>3, <1>4, <2>4, <3>1
         DEF transferCompleted, transferError, returnConn, Finish
  <2>5. CASE \/ login(c) \/ LoginSuccess(c) \/ userDeniedSiteFull(c) \/ reconnect(c)
             \/ disconnectConn(c) \/ disconnected(c) \/ QUITResponse(c)
             \/ handleRequest(c) \/ setRequestReady(c)
             \/ startCommand(c) \/ commandReply(c) \/ transferCommand(c)
             \/ startList(c) \/ listCompleted(c) \/ listFailed(c) \/ listReturned(c)
             \/ localComplete(c) \/ localError(c)
    BY <1>4, <2>5
       DEF login, LoginSuccess, userDeniedSiteFull, reconnect, disconnectConn,
           disconnected, Drop, QUITResponse, handleRequest, setRequestReady,
           startCommand, commandReply, transferCommand, startList,
           listCompleted, listFailed, listReturned, localComplete, localError
  <2> QED
    BY <1>5, <2>2, <2>3, <2>4, <2>5 DEF ConnStep
<1>6. ASSUME NEW d \in Dirs, returnSlot(d) PROVE Room'
  BY <1>3, <1>6 DEF returnSlot
<1> QED
  BY <1>4, <1>5, <1>6 DEF Next, lockSameSite, vars

\* With "leave one slot free", and no transfer job within the site, transfers
\* never occupy every login of the site.
THEOREM LeaveFreeHolds == ASSUME ~SameSite PROVE Spec => []LeaveFreeKept
<1>1. Init => Room
  <2>1. Cardinality(Conns) \in Nat
    BY SlotsAssumption, FS_CardinalityType DEF SlotsAssumption
  <2> QED
    BY <2>1 DEF Init, Room, Dirs
<1>2. SlotsInv /\ Room /\ [Next]_vars => Room'
  BY RoomNext
<1>3. SlotsInv /\ Room => LeaveFreeKept
  <2> SUFFICES ASSUME SlotsInv, Room, LeaveFree, Cardinality(Conns) > 1
               PROVE  Cardinality(Using("dn")) + Cardinality(Using("up"))
                        < Cardinality(Conns)
    BY DEF LeaveFreeKept
  <2>1. ASSUME NEW d \in Dirs
        PROVE  /\ Cardinality(Using(d)) \in Nat /\ slots[d] \in Int
               /\ Cardinality(Using(d)) <= slots[d]
    <3>1. Cardinality(Using(d)) \in Nat
      BY SubsetSize DEF Using
    <3>2. delayed[d] \in Nat /\ lost[d] \in Nat /\ slots[d] \in Int
      BY DEF SlotsInv, SlotsTypeOK
    <3> QED
      BY <3>1, <3>2 DEF SlotsInv, Books
  <2>2. Cardinality(Conns) \in Nat
    BY SlotsAssumption, FS_CardinalityType DEF SlotsAssumption
  <2> QED
    BY <2>1, <2>2 DEF Room, Dirs
<1> QED
  BY <1>1, <1>2, <1>3, SlotsInvariant, PTL DEF Spec

\* All limits of a site hold together: types, slots in each direction and the
\* login to be left free, on a site without transfer jobs within itself.
THEOREM SlotLimitsHold == ASSUME ~SameSite PROVE Spec => []SlotLimitsKept
BY SlotsTypeCorrect, LimitsKept, LeaveFreeHolds, PTL DEF SlotLimitsKept
=============================================================================
