---------------------------- MODULE ScreensProofs ----------------------------
(***************************************************************************)
(* Proofs about the configuration, the interface and the browser.          *)
(*                                                                         *)
(* SiteConfig: the sites, sections and slots stay consistent, for any      *)
(* number of Site objects, names, sections and numbers of slots.           *)
(* ConfigInv is not inductive.  Pairs that agree need exceptions that are  *)
(* sites, limits within the logins are needed of each limit as it was set, *)
(* and the SiteLogic found under the name of a site is the site's own only *)
(* as long as every SiteLogic has a site that is still there and every     *)
(* name has one site.  A site that is being added is no site yet and must  *)
(* have no exceptions, and the sections the edit screen holds must be      *)
(* known, or the step that takes the screen's copy over would break what   *)
(* holds of the sites.                                                     *)
(*                                                                         *)
(* Ui: the stack of windows, the frame and what is watched fit together,   *)
(* for any heights, legend modes and depth of the stack.  UiInv is not     *)
(* inductive: what makes it so is an order of the windows, by which every  *)
(* window below another may be there (Below), and that the question on top *)
(* is what the window below it remembers (Pending).                        *)
(*                                                                         *)
(* Browse: what a side shows, what it has under way and the question on    *)
(* screen agree, for any directories, names and queues.  BrowseInv is not  *)
(* inductive: what makes it so is what the queue of a side may hold while  *)
(* the side shows something out of date (FreshSide), and what a question   *)
(* on screen is about (QuestionFits).                                      *)
(***************************************************************************)
EXTENDS Ui, SiteConfig, Browse, FiniteSetTheorems, SequenceTheorems, WellFoundedInduction, TLAPS

\* A set of numbers has a least one.
LessThan == {p \in Nat \X Nat : p[1] < p[2]}
LEMMA Least == ASSUME NEW I \in SUBSET Nat, I # {} PROVE \E x \in I : \A y \in I : x <= y
<1>1. IsWellFoundedOn(LessThan, Nat)
  BY NatLessThanWellFounded DEF LessThan, OpToRel
<1>2. PICK x \in I : \A y \in I : ~(<<y, x>> \in LessThan)
  BY <1>1, WFMin
<1>3. \A y \in I : x <= y
  <2> SUFFICES ASSUME NEW y \in I PROVE x <= y
    OBVIOUS
  <2>1. x \in Nat /\ y \in Nat
    OBVIOUS
  <2>2. ~(y < x)
    BY <1>2, <2>1 DEF LessThan
  <2> QED BY <2>1, <2>2
<1> QED BY <1>3

-----------------------------------------------------------------------------
(* SiteConfig *)

SitesRec == [managed : SUBSET Objects, object : [Objects -> SiteObject], logics : Seq(Objects),
             conns : [Objects -> Int]]
EditRec == [site : Objects \cup {NoSite}, add : BOOLEAN, sections : SUBSET SectionNames, pre : Int]
MishapRec == [names : BOOLEAN, overtaken : BOOLEAN, leftover : BOOLEAN]

Types ==
  /\ sites \in SitesRec /\ editing \in EditRec /\ mishap \in MishapRec
  /\ known \subseteq SectionNames /\ aspect \in Aspects

\* The managed sites of m have names of their own.
OwnNames(m) == \A a, b \in m.managed : m.object[a].name = m.object[b].name => a = b

\* Site a sends to b, and takes from b.
Sends(m, a, b) == (b \in m.object[a].excepttarget) = (m.object[a].target = "BLOCK")
Takes(m, a, b) == (b \in m.object[a].exceptsource) = (m.object[a].source = "BLOCK")

PairOK(m, a, b) ==
  a # b /\ ~m.object[a].loose /\ ~m.object[b].loose => Sends(m, a, b) = Takes(m, b, a)
Pairs(m) == \A a, b \in m.managed : PairOK(m, a, b)

Excepted(m) ==
  \A a \in m.managed : m.object[a].exceptsource \subseteq m.managed /\ m.object[a].excepttarget \subseteq m.managed

Tight(s) == s.logins > 0 => s.up <= s.logins /\ s.pre <= s.logins
AllTight(m) == \A o \in Objects : Tight(m.object[o])

\* No SiteLogic is left over, and each has the connections of its site.
LogicsManaged(m) == \A i \in DOMAIN m.logics : m.logics[i] \in m.managed
Connected(m) ==
  \A i \in DOMAIN m.logics :
    LET o == m.logics[i] IN
    o \in m.managed => m.object[o].loose \/ m.conns[o] = getMaxLogins(m.object[o])

Sound(m) == OwnNames(m) /\ Pairs(m)
Served(m) == LogicsManaged(m) /\ Connected(m)

SectionsOf(m, K) == \A o \in m.managed : m.object[o].sections \subseteq K

\* A site that is being added is not one of the sites yet, and has no exceptions.
Adding(m, e) ==
  e.add => /\ e.site \in Objects \ m.managed
           /\ m.object[e.site].exceptsource = {} /\ m.object[e.site].excepttarget = {}

ConfigStrong ==
  /\ Types
  /\ Excepted(sites) /\ AllTight(sites)
  /\ ~mishap.names => Sound(sites)
  /\ ~mishap.names /\ ~mishap.leftover => Served(sites)
  /\ ~mishap.overtaken => SectionsOf(sites, known) /\ editing.sections \subseteq known
  /\ Adding(sites, editing)

\* What a search in a sequence finds is there, and satisfies the test.
LEMMA MinIn == ASSUME NEW I \in SUBSET Nat, I # {} PROVE Min(I) \in I
BY Least DEF Min

LEMMA Found ==
  ASSUME NEW m \in SitesRec, NEW n
  PROVE  IF FoundLogic(m, n) = 0 THEN \A i \in DOMAIN m.logics : m.object[m.logics[i]].name # n
         ELSE FoundLogic(m, n) \in DOMAIN m.logics /\ m.object[m.logics[FoundLogic(m, n)]].name = n
<1> DEFINE I == {i \in 1..Len(m.logics) : m.object[m.logics[i]].name = n}
<1>1. FoundLogic(m, n) = IF I # {} THEN Min(I) ELSE 0
  BY DEF FoundLogic, SelectInSeq
<1>2. m.logics \in Seq(Objects)
  BY DEF SitesRec
<1>3. I \in SUBSET Nat /\ I \subseteq DOMAIN m.logics /\ DOMAIN m.logics = 1..Len(m.logics) /\ Len(m.logics) \in Nat
  BY <1>2
<1>4. I # {} => Min(I) \in I
  BY <1>3, MinIn
<1>5. I # {} => Min(I) # 0
  BY <1>3, <1>4
<1> QED BY <1>1, <1>3, <1>4, <1>5

\* A SiteLogic is found under the name of the site it serves.
LEMMA FoundIsOwn ==
  ASSUME NEW m \in SitesRec, OwnNames(m), LogicsManaged(m), NEW o \in m.managed,
         FoundLogic(m, m.object[o].name) # 0
  PROVE  /\ FoundLogic(m, m.object[o].name) \in DOMAIN m.logics
         /\ m.logics[FoundLogic(m, m.object[o].name)] = o
BY Found DEF OwnNames, LogicsManaged

LEMMA StrongInv == ASSUME ConfigStrong PROVE ConfigInv
<1>1. ConfigTypeOK
  BY DEF ConfigStrong, Types, SitesRec, EditRec, ConfigTypeOK
<1>2. PairsAgree
  BY DEF ConfigStrong, Sound, Pairs, PairOK, Sends, Takes, PairsAgree, isAllowedTargetSite, isAllowedSourceSite
<1>3. ExceptionsExist
  BY DEF ConfigStrong, Excepted, ExceptionsExist
<1>4. SectionsKnown
  BY DEF ConfigStrong, SectionsOf, SectionsKnown
<1>5. WithinLogins
  <2> SUFFICES ASSUME NEW o \in Objects, sites.object[o].logins > 0
               PROVE  /\ getMaxUp(sites.object[o]) <= getMaxLogins(sites.object[o])
                      /\ getMaxDownPre(sites.object[o]) <= getMaxLogins(sites.object[o])
    BY DEF WithinLogins
  <2>1. sites.object[o].logins \in Int /\ sites.object[o].up \in Int /\ sites.object[o].pre \in Int
    BY DEF ConfigStrong, Types, SitesRec, SiteObject
  <2>2. Tight(sites.object[o])
    BY DEF ConfigStrong, AllTight
  <2> QED BY <2>1, <2>2 DEF Tight, getMaxUp, getMaxLogins, getMaxDownPre
<1>6. LogicServes
  <2> SUFFICES ASSUME ~mishap.names, ~mishap.leftover, NEW o \in sites.managed,
                      FoundLogic(sites, sites.object[o].name) # 0
               PROVE  /\ sites.logics[FoundLogic(sites, sites.object[o].name)] = o
                      /\ sites.object[o].loose \/ sites.conns[o] = getMaxLogins(sites.object[o])
    BY DEF LogicServes
  <2>1. sites \in SitesRec /\ Sound(sites) /\ Served(sites)
    BY DEF ConfigStrong, Types
  <2>2. /\ FoundLogic(sites, sites.object[o].name) \in DOMAIN sites.logics
        /\ sites.logics[FoundLogic(sites, sites.object[o].name)] = o
    BY <2>1, FoundIsOwn DEF Sound, Served
  <2> QED BY <2>1, <2>2 DEF Served, Connected
<1> QED BY <1>1, <1>2, <1>3, <1>4, <1>5, <1>6 DEF ConfigInv
-----------------------------------------------------------------------------
\* Setters

\* What setters of other settings keep of a site.
SameLinks(s, t) ==
  /\ t.name = s.name /\ t.source = s.source /\ t.target = s.target
  /\ t.exceptsource = s.exceptsource /\ t.excepttarget = s.excepttarget
  /\ t.sections = s.sections /\ t.loose = s.loose

LEMMA SettersTight ==
  ASSUME NEW s \in SiteObject, Tight(s), NEW n \in Int
  PROVE  /\ setMaxLogins(s, n) \in SiteObject /\ Tight(setMaxLogins(s, n)) /\ SameLinks(s, setMaxLogins(s, n))
         /\ setMaxUp(s, n) \in SiteObject /\ Tight(setMaxUp(s, n)) /\ SameLinks(s, setMaxUp(s, n))
         /\ setMaxDnPre(s, n) \in SiteObject /\ Tight(setMaxDnPre(s, n)) /\ SameLinks(s, setMaxDnPre(s, n))
<1>1. setMaxLogins(s, n) \in SiteObject /\ Tight(setMaxLogins(s, n)) /\ SameLinks(s, setMaxLogins(s, n))
  <2> DEFINE up == IF n > 0 /\ s.up > n THEN n ELSE s.up
             pre == IF n > 0 /\ s.pre > n THEN n ELSE s.pre
             t == [s EXCEPT !.logins = n, !.up = up, !.pre = pre]
  <2>1. setMaxLogins(s, n) = t
    BY DEF setMaxLogins
  <2>2. s.up \in Int /\ s.pre \in Int
    BY DEF SiteObject
  <2>3. up \in Int /\ pre \in Int /\ (n > 0 => up <= n /\ pre <= n)
    BY <2>2
  <2> HIDE DEF up, pre
  <2>4. t \in SiteObject /\ t.logins = n /\ t.up = up /\ t.pre = pre /\ SameLinks(s, t)
    BY <2>3 DEF SiteObject, SameLinks
  <2> QED BY <2>1, <2>3, <2>4 DEF Tight
<1>2. setMaxUp(s, n) \in SiteObject /\ Tight(setMaxUp(s, n)) /\ SameLinks(s, setMaxUp(s, n))
  BY DEF setMaxUp, Limit, SiteObject, Tight, SameLinks
<1>3. setMaxDnPre(s, n) \in SiteObject /\ Tight(setMaxDnPre(s, n)) /\ SameLinks(s, setMaxDnPre(s, n))
  BY DEF setMaxDnPre, Limit, SiteObject, Tight, SameLinks
<1> QED BY <1>1, <1>2, <1>3

LEMMA NewSiteShape ==
  ASSUME NEW n \in SiteNames
  PROVE  /\ NewSite(n) \in SiteObject /\ Tight(NewSite(n)) /\ NewSite(n).sections = {}
         /\ NewSite(n).exceptsource = {} /\ NewSite(n).excepttarget = {}
         /\ NewSite(n).loose = FALSE /\ NewSite(n).name = n
BY DEF NewSite, SiteObject, Tight, Policy

\* The values a body has.
BodyRec(b) ==
  /\ b.name \in Optional(SiteNames) /\ b.source \in Optional(Policy) /\ b.target \in Optional(Policy)
  /\ b.exceptsource \in Optional(SUBSET SiteNames) /\ b.excepttarget \in Optional(SUBSET SiteNames)
  /\ b.sections \in Optional(SUBSET SectionNames)
  /\ b.logins \in Optional(Int) /\ b.up \in Optional(Int) /\ b.pre \in Optional(Int)

LEMMA BodyShape == ASSUME aspect \in Aspects, NEW b \in Body PROVE BodyRec(b)
<1>1. PICK g \in GoodBodies(aspect), key \in {"none", Refused(aspect)} : b = [g EXCEPT !.bad = key]
  BY DEF Body, Bodies
<1>2. g \in [name : Optional(SiteNames),
             source : IF aspect = "pairs" THEN Optional(Policy) ELSE {{}},
             target : IF aspect = "pairs" THEN Optional(Policy) ELSE {{}},
             exceptsource : IF aspect = "pairs" THEN Optional({{n} : n \in SiteNames}) ELSE {{}},
             excepttarget : IF aspect = "pairs" THEN Optional({{n} : n \in SiteNames}) ELSE {{}},
             sections : IF aspect = "sections" THEN Optional(SUBSET SectionNames) ELSE {{}},
             logins : IF aspect = "slots" THEN Optional(SlotCounts) ELSE {{}},
             up : IF aspect = "slots" THEN Optional(SlotCounts) ELSE {{}},
             pre : IF aspect = "slots" THEN Optional(SlotCounts \cup {-2}) ELSE {{}},
             bad : {"none"}]
  BY <1>1 DEF GoodBodies
<1>3. /\ {} \in Optional(Policy) /\ {} \in Optional(SUBSET SiteNames)
      /\ {} \in Optional(SUBSET SectionNames) /\ {} \in Optional(Int)
  BY DEF Optional
<1>4. Optional({{n} : n \in SiteNames}) \subseteq Optional(SUBSET SiteNames)
  BY DEF Optional
<1>5. Optional(SlotCounts) \subseteq Optional(Int) /\ Optional(SlotCounts \cup {-2}) \subseteq Optional(Int)
  BY SiteConfigAssumption DEF Optional
<1>6. g.name \in Optional(SiteNames)
  BY <1>2
<1>7. g.source \in Optional(Policy) /\ g.target \in Optional(Policy)
  <2>1. CASE aspect = "pairs"
    BY <1>2, <2>1
  <2>2. CASE aspect # "pairs"
    <3>1. g.source = {} /\ g.target = {}
      BY <1>2, <2>2
    <3> QED BY <1>3, <3>1
  <2> QED BY <2>1, <2>2
<1>8. g.exceptsource \in Optional(SUBSET SiteNames) /\ g.excepttarget \in Optional(SUBSET SiteNames)
  <2>1. CASE aspect = "pairs"
    <3>1. /\ g.exceptsource \in Optional({{n} : n \in SiteNames})
          /\ g.excepttarget \in Optional({{n} : n \in SiteNames})
      BY <1>2, <2>1
    <3> QED BY <1>4, <3>1
  <2>2. CASE aspect # "pairs"
    <3>1. g.exceptsource = {} /\ g.excepttarget = {}
      BY <1>2, <2>2
    <3> QED BY <1>3, <3>1
  <2> QED BY <2>1, <2>2
<1>9. g.sections \in Optional(SUBSET SectionNames)
  <2>1. CASE aspect = "sections"
    BY <1>2, <2>1
  <2>2. CASE aspect # "sections"
    <3>1. g.sections = {}
      BY <1>2, <2>2
    <3> QED BY <1>3, <3>1
  <2> QED BY <2>1, <2>2
<1>10. g.logins \in Optional(Int) /\ g.up \in Optional(Int) /\ g.pre \in Optional(Int)
  <2>1. CASE aspect = "slots"
    <3>1. g.logins \in Optional(SlotCounts) /\ g.up \in Optional(SlotCounts)
      BY <1>2, <2>1
    <3>2. g.pre \in Optional(SlotCounts \cup {-2})
      BY <1>2, <2>1
    <3> QED BY <1>5, <3>1, <3>2
  <2>2. CASE aspect # "slots"
    <3>1. g.logins = {} /\ g.up = {} /\ g.pre = {}
      BY <1>2, <2>2
    <3> QED BY <1>3, <3>1
  <2> QED BY <2>1, <2>2
<1>11. BodyRec(g)
  BY <1>6, <1>7, <1>8, <1>9, <1>10 DEF BodyRec
<1>12. /\ b.name = g.name /\ b.source = g.source /\ b.target = g.target
       /\ b.exceptsource = g.exceptsource /\ b.excepttarget = g.excepttarget
       /\ b.sections = g.sections /\ b.logins = g.logins /\ b.up = g.up /\ b.pre = g.pre
  BY <1>1, <1>2
<1> QED BY <1>11, <1>12 DEF BodyRec

LEMMA GetShape ==
  ASSUME NEW S, NEW opt \in Optional(S), NEW d
  PROVE  (opt = {} /\ Get(opt, d) = d) \/ (opt = {Get(opt, d)} /\ Get(opt, d) \in S)
<1>1. CASE opt = {}
  BY <1>1 DEF Get
<1>2. CASE opt # {}
  <2>1. PICK x \in S : opt = {x}
    BY <1>2 DEF Optional
  <2>2. Get(opt, d) = x
    BY <2>1 DEF Get
  <2> QED BY <2>1, <2>2
<1> QED BY <1>1, <1>2

LEMMA ApplyShape ==
  ASSUME NEW s \in SiteObject, Tight(s), NEW b, BodyRec(b)
  PROVE  LET t == Apply(s, b)
         IN  /\ t \in SiteObject /\ Tight(t) /\ t.loose
             /\ t.exceptsource = s.exceptsource /\ t.excepttarget = s.excepttarget
             /\ t.sections \subseteq s.sections \cup (IF Reads(b, "sections") THEN UNION b.sections ELSE {})
             /\ t.name = IF Reads(b, "name") THEN Get(b.name, s.name) ELSE s.name
<1> DEFINE l == IF b.logins # {} /\ Reads(b, "max_logins") THEN setMaxLogins(s, Get(b.logins, 0)) ELSE s
           p == IF b.pre # {} /\ Reads(b, "max_sim_down_pre") THEN setMaxDnPre(l, Get(b.pre, 0)) ELSE l
           u == IF b.up # {} /\ Reads(b, "max_sim_up") THEN setMaxUp(p, Get(b.up, 0)) ELSE p
           name == IF Reads(b, "name") THEN Get(b.name, u.name) ELSE u.name
           secs == IF Reads(b, "sections") THEN Get(b.sections, u.sections) ELSE u.sections
           source == IF Reads(b, "transfer_source_policy") THEN Get(b.source, u.source) ELSE u.source
           target == IF Reads(b, "transfer_target_policy") THEN Get(b.target, u.target) ELSE u.target
           t == [u EXCEPT !.name = name, !.sections = secs, !.source = source, !.target = target, !.loose = TRUE]
<1>1. Apply(s, b) = t
  BY DEF Apply
<1>2. Get(b.logins, 0) \in Int /\ Get(b.pre, 0) \in Int /\ Get(b.up, 0) \in Int
  BY GetShape DEF BodyRec
<1>3. l \in SiteObject /\ Tight(l) /\ SameLinks(s, l)
  BY <1>2, SettersTight DEF SameLinks
<1> HIDE DEF l
<1>4. p \in SiteObject /\ Tight(p) /\ SameLinks(s, p)
  BY <1>2, <1>3, SettersTight DEF SameLinks
<1> HIDE DEF p
<1>5. u \in SiteObject /\ Tight(u) /\ SameLinks(s, u)
  BY <1>2, <1>4, SettersTight DEF SameLinks
<1> HIDE DEF u
<1>6. u.name \in SiteNames /\ u.sections \in SUBSET SectionNames /\ u.source \in Policy /\ u.target \in Policy
  BY <1>5 DEF SiteObject
<1>7. name \in SiteNames /\ secs \in SUBSET SectionNames /\ source \in Policy /\ target \in Policy
  BY <1>6, GetShape DEF BodyRec
<1>8. secs \subseteq s.sections \cup (IF Reads(b, "sections") THEN UNION b.sections ELSE {})
  <2>1. (b.sections = {} /\ Get(b.sections, u.sections) = u.sections) \/ b.sections = {Get(b.sections, u.sections)}
    BY GetShape DEF BodyRec
  <2>2. Get(b.sections, u.sections) \subseteq s.sections \cup UNION b.sections
    BY <1>5, <2>1 DEF SameLinks
  <2> QED BY <1>5, <2>2 DEF SameLinks
<1>9. name = IF Reads(b, "name") THEN Get(b.name, s.name) ELSE s.name
  BY <1>5 DEF SameLinks
<1> HIDE DEF name, secs, source, target
<1>10. t \in SiteObject /\ Tight(t) /\ t.loose /\ t.exceptsource = s.exceptsource
      /\ t.excepttarget = s.excepttarget /\ t.sections = secs /\ t.name = name
  BY <1>5, <1>7 DEF SiteObject, Tight, SameLinks
<1> QED BY <1>1, <1>8, <1>9, <1>10

-----------------------------------------------------------------------------
\* Pairs of sites

\* The settings that pairing a site leaves alone.
SameSelf(s, t) ==
  /\ t.name = s.name /\ t.source = s.source /\ t.target = s.target /\ t.sections = s.sections
  /\ t.logins = s.logins /\ t.up = s.up /\ t.pre = s.pre /\ t.loose = s.loose

LEMMA AllowTargetShape ==
  ASSUME NEW s \in SiteObject, NEW B \in SUBSET Objects, NEW allow \in BOOLEAN
  PROVE  LET t == AllowTarget(s, B, allow)
         IN  /\ t \in SiteObject /\ SameSelf(s, t) /\ t.exceptsource = s.exceptsource
             /\ \A x : x \in t.excepttarget <=>
                  IF x \in B THEN ((s.target = "BLOCK") <=> allow) ELSE x \in s.excepttarget
<1> DEFINE E == IF (s.target = "BLOCK") = allow THEN s.excepttarget \cup B ELSE s.excepttarget \ B
           t == [s EXCEPT !.excepttarget = E]
<1>1. AllowTarget(s, B, allow) = t
  BY DEF AllowTarget
<1>2. E \in SUBSET Objects
  BY DEF SiteObject
<1>3. \A x : x \in E <=> IF x \in B THEN ((s.target = "BLOCK") <=> allow) ELSE x \in s.excepttarget
  OBVIOUS
<1> HIDE DEF E
<1>4. t \in SiteObject /\ SameSelf(s, t) /\ t.exceptsource = s.exceptsource /\ t.excepttarget = E
  BY <1>2 DEF SiteObject, SameSelf
<1> QED BY <1>1, <1>3, <1>4

LEMMA AllowSourceShape ==
  ASSUME NEW s \in SiteObject, NEW B \in SUBSET Objects, NEW allow \in BOOLEAN
  PROVE  LET t == AllowSource(s, B, allow)
         IN  /\ t \in SiteObject /\ SameSelf(s, t) /\ t.excepttarget = s.excepttarget
             /\ \A x : x \in t.exceptsource <=>
                  IF x \in B THEN ((s.source = "BLOCK") <=> allow) ELSE x \in s.exceptsource
<1> DEFINE E == IF (s.source = "BLOCK") = allow THEN s.exceptsource \cup B ELSE s.exceptsource \ B
           t == [s EXCEPT !.exceptsource = E]
<1>1. AllowSource(s, B, allow) = t
  BY DEF AllowSource
<1>2. E \in SUBSET Objects
  BY DEF SiteObject
<1>3. \A x : x \in E <=> IF x \in B THEN ((s.source = "BLOCK") <=> allow) ELSE x \in s.exceptsource
  OBVIOUS
<1> HIDE DEF E
<1>4. t \in SiteObject /\ SameSelf(s, t) /\ t.excepttarget = s.excepttarget /\ t.exceptsource = E
  BY <1>2 DEF SiteObject, SameSelf
<1> QED BY <1>1, <1>3, <1>4

\* What pairing site a anew leaves of the sites m.
Repaired(m, t, a) ==
  /\ t \in SitesRec /\ t.managed = m.managed /\ t.logics = m.logics /\ t.conns = m.conns
  /\ \A x \in Objects : SameSelf(m.object[x], t.object[x])
  /\ \A x \in Objects \ m.managed : t.object[x] = m.object[x]
  /\ \A x \in Objects \ {a} : \A y \in Objects \ {a} :
       /\ y \in t.object[x].excepttarget <=> y \in m.object[x].excepttarget
       /\ y \in t.object[x].exceptsource <=> y \in m.object[x].exceptsource

\* Site a agrees with the others, in both directions.
Agrees(m, a) ==
  \A x \in m.managed \ {a} : Sends(m, a, x) = Takes(m, x, a) /\ Sends(m, x, a) = Takes(m, a, x)

LEMMA ResetShape ==
  ASSUME NEW m \in SitesRec, NEW a \in m.managed
  PROVE  LET r == resetSitePairsForSite(m, a)
         IN  /\ Repaired(m, r, a)
             /\ r.object[a].exceptsource = {} /\ r.object[a].excepttarget = {}
             /\ Agrees(r, a)
<1> DEFINE s == m.object[a]
           New(o) == IF o = a THEN [s EXCEPT !.exceptsource = {}, !.excepttarget = {}]
                     ELSE IF o \notin m.managed THEN m.object[o]
                     ELSE AllowSource(AllowTarget(m.object[o], {a}, s.source = "ALLOW"), {a}, s.target = "ALLOW")
           r == [m EXCEPT !.object = [o \in Objects |-> New(o)]]
<1>1. resetSitePairsForSite(m, a) = r
  BY DEF resetSitePairsForSite
<1>2. a \in Objects /\ s \in SiteObject /\ \A o \in Objects : m.object[o] \in SiteObject
  BY DEF SitesRec
<1>3. /\ New(a) \in SiteObject /\ SameSelf(s, New(a))
      /\ New(a).exceptsource = {} /\ New(a).excepttarget = {}
  BY <1>2 DEF SiteObject, SameSelf
<1>4. ASSUME NEW o \in m.managed \ {a}
      PROVE  /\ New(o) \in SiteObject /\ SameSelf(m.object[o], New(o))
             /\ a \in New(o).excepttarget <=> ((m.object[o].target = "BLOCK") <=> s.source = "ALLOW")
             /\ a \in New(o).exceptsource <=> ((m.object[o].source = "BLOCK") <=> s.target = "ALLOW")
             /\ \A y \in Objects \ {a} :
                  /\ y \in New(o).excepttarget <=> y \in m.object[o].excepttarget
                  /\ y \in New(o).exceptsource <=> y \in m.object[o].exceptsource
  <2> DEFINE q == AllowTarget(m.object[o], {a}, s.source = "ALLOW")
             t == AllowSource(q, {a}, s.target = "ALLOW")
  <2>1. m.object[o] \in SiteObject /\ {a} \in SUBSET Objects
        /\ (s.source = "ALLOW") \in BOOLEAN /\ (s.target = "ALLOW") \in BOOLEAN
    BY <1>2 DEF SitesRec
  <2>2. /\ q \in SiteObject /\ SameSelf(m.object[o], q) /\ q.exceptsource = m.object[o].exceptsource
        /\ \A x : x \in q.excepttarget <=>
             IF x \in {a} THEN ((m.object[o].target = "BLOCK") <=> s.source = "ALLOW")
             ELSE x \in m.object[o].excepttarget
    BY <2>1, AllowTargetShape
  <2> HIDE DEF q
  <2>3. /\ t \in SiteObject /\ SameSelf(q, t) /\ t.excepttarget = q.excepttarget
        /\ \A x : x \in t.exceptsource <=>
             IF x \in {a} THEN ((q.source = "BLOCK") <=> s.target = "ALLOW") ELSE x \in q.exceptsource
    BY <2>1, <2>2, AllowSourceShape
  <2>4. New(o) = t
    BY DEF q
  <2> HIDE DEF t, s, New
  <2>5. q.source = m.object[o].source /\ SameSelf(m.object[o], t)
    BY <2>2, <2>3 DEF SameSelf
  <2> QED BY <2>2, <2>3, <2>4, <2>5
<1>5. ASSUME NEW o \in Objects \ m.managed PROVE New(o) = m.object[o]
  OBVIOUS
<1> HIDE DEF New
<1>6. /\ r.managed = m.managed /\ r.logics = m.logics /\ r.conns = m.conns
      /\ \A o \in Objects : r.object[o] = New(o)
  BY DEF SitesRec
<1>7. \A o \in Objects : New(o) \in SiteObject /\ SameSelf(m.object[o], New(o))
  BY <1>2, <1>3, <1>4, <1>5 DEF SameSelf
<1>8. r \in SitesRec
  BY <1>7 DEF SitesRec
<1> HIDE DEF r
<1>9. Repaired(m, r, a)
  BY <1>4, <1>5, <1>6, <1>7, <1>8 DEF Repaired
<1>10. ASSUME NEW x \in m.managed \ {a}
       PROVE  Sends(r, a, x) = Takes(r, x, a) /\ Sends(r, x, a) = Takes(r, a, x)
  <2>1. x \in Objects /\ r.object[x] = New(x) /\ r.object[a] = New(a)
    BY <1>2, <1>6 DEF SitesRec
  <2>2. SameSelf(s, New(a)) /\ SameSelf(m.object[x], New(x))
    BY <1>3, <1>4
  <2>3. s.source \in {"ALLOW", "BLOCK"} /\ s.target \in {"ALLOW", "BLOCK"}
    BY <1>2 DEF SiteObject, Policy
  <2> HIDE DEF s
  <2>4. Sends(r, a, x) <=> s.target # "BLOCK"
    BY <1>3, <2>1, <2>2 DEF Sends, SameSelf
  <2>5. Takes(r, a, x) <=> s.source # "BLOCK"
    BY <1>3, <2>1, <2>2 DEF Takes, SameSelf
  <2>6. Sends(r, x, a) <=> s.source = "ALLOW"
    BY <1>4, <2>1, <2>2 DEF Sends, SameSelf
  <2>7. Takes(r, x, a) <=> s.target = "ALLOW"
    BY <1>4, <2>1, <2>2 DEF Takes, SameSelf
  <2>8. Sends(r, a, x) \in BOOLEAN /\ Takes(r, x, a) \in BOOLEAN /\ Sends(r, x, a) \in BOOLEAN /\ Takes(r, a, x) \in BOOLEAN
    BY DEF Sends, Takes
  <2> QED BY <2>3, <2>4, <2>5, <2>6, <2>7, <2>8
<1> QED BY <1>1, <1>2, <1>3, <1>6, <1>9, <1>10 DEF Agrees

LEMMA AddShape ==
  ASSUME NEW m \in SitesRec, NEW a \in m.managed,
         NEW sources \in SUBSET (m.managed \cup {NoSite}), NEW targets \in SUBSET (m.managed \cup {NoSite}),
         m.object[a].exceptsource = {}, m.object[a].excepttarget = {},
         Agrees(m, a)
  PROVE  LET t == addExceptForSite(m, a, sources, targets)
         IN  /\ Repaired(m, t, a)
             /\ t.object[a].exceptsource \subseteq m.managed /\ t.object[a].excepttarget \subseteq m.managed
             /\ Agrees(t, a)
<1> DEFINE s == m.object[a]
           blocks == s.source = "BLOCK"
           refuses == s.target = "BLOCK"
           from == sources \ {a, NoSite}
           to == targets \ {a, NoSite}
           Of(o, S) == {x \in {a} : o \in S}
           New(o) == IF o = a THEN AllowTarget(AllowSource(s, from, blocks), to, refuses)
                     ELSE AllowSource(AllowTarget(m.object[o], Of(o, from), blocks), Of(o, to), refuses)
           t == [m EXCEPT !.object = [o \in Objects |-> New(o)]]
<1>1. addExceptForSite(m, a, sources, targets) = t
  BY DEF addExceptForSite
<1>2. /\ a \in Objects /\ s \in SiteObject /\ \A o \in Objects : m.object[o] \in SiteObject
      /\ from \in SUBSET m.managed /\ to \in SUBSET m.managed /\ m.managed \subseteq Objects
      /\ a \notin from /\ a \notin to
      /\ from \in SUBSET Objects /\ to \in SUBSET Objects
      /\ blocks \in BOOLEAN /\ refuses \in BOOLEAN
      /\ (blocks <=> s.source = "BLOCK") /\ (refuses <=> s.target = "BLOCK")
  BY DEF SitesRec, Objects, NoSite
<1>3. s.exceptsource = {} /\ s.excepttarget = {}
  OBVIOUS
<1> HIDE DEF from, to, blocks, refuses
<1>4. /\ New(a) \in SiteObject /\ SameSelf(s, New(a))
      /\ \A x : x \in New(a).exceptsource <=> x \in from
      /\ \A x : x \in New(a).excepttarget <=> x \in to
  <2> DEFINE q == AllowSource(s, from, blocks)
             u == AllowTarget(q, to, refuses)
  <2> HIDE DEF s
  <2>1. /\ q \in SiteObject /\ SameSelf(s, q) /\ q.excepttarget = s.excepttarget
        /\ \A x : x \in q.exceptsource <=>
             IF x \in from THEN ((s.source = "BLOCK") <=> blocks) ELSE x \in s.exceptsource
    BY <1>2, AllowSourceShape
  <2>2. New(a) = u
    BY DEF s
  <2> HIDE DEF q
  <2>3. /\ u \in SiteObject /\ SameSelf(q, u) /\ u.exceptsource = q.exceptsource
        /\ \A x : x \in u.excepttarget <=>
             IF x \in to THEN ((q.target = "BLOCK") <=> refuses) ELSE x \in q.excepttarget
    BY <1>2, <2>1, AllowTargetShape
  <2> HIDE DEF u, New
  <2>4. q.target = s.target /\ SameSelf(s, u)
    BY <2>1, <2>3 DEF SameSelf
  <2> QED BY <1>2, <1>3, <2>1, <2>2, <2>3, <2>4
<1>5. ASSUME NEW o \in Objects \ {a}
      PROVE  /\ New(o) \in SiteObject /\ SameSelf(m.object[o], New(o))
             /\ a \in New(o).excepttarget <=>
                  IF o \in from THEN ((m.object[o].target = "BLOCK") <=> blocks)
                  ELSE a \in m.object[o].excepttarget
             /\ a \in New(o).exceptsource <=>
                  IF o \in to THEN ((m.object[o].source = "BLOCK") <=> refuses)
                  ELSE a \in m.object[o].exceptsource
             /\ \A y \in Objects \ {a} :
                  /\ y \in New(o).excepttarget <=> y \in m.object[o].excepttarget
                  /\ y \in New(o).exceptsource <=> y \in m.object[o].exceptsource
             /\ o \notin m.managed => New(o).excepttarget = m.object[o].excepttarget
                                      /\ New(o).exceptsource = m.object[o].exceptsource
  <2> DEFINE F == Of(o, from)
             G == Of(o, to)
             q == AllowTarget(m.object[o], F, blocks)
             u == AllowSource(q, G, refuses)
  <2> HIDE DEF s
  <2>1. m.object[o] \in SiteObject /\ F \in SUBSET Objects /\ G \in SUBSET Objects
        /\ blocks \in BOOLEAN /\ refuses \in BOOLEAN
    BY <1>2
  <2>2. /\ \A x : x \in F <=> x = a /\ o \in from
        /\ \A x : x \in G <=> x = a /\ o \in to
    OBVIOUS
  <2>4. New(o) = u
    OBVIOUS
  <2> HIDE DEF F, G, New, Of
  <2>3. /\ q \in SiteObject /\ SameSelf(m.object[o], q) /\ q.exceptsource = m.object[o].exceptsource
        /\ \A x : x \in q.excepttarget <=>
             IF x \in F THEN ((m.object[o].target = "BLOCK") <=> blocks)
             ELSE x \in m.object[o].excepttarget
    BY <2>1, AllowTargetShape
  <2> HIDE DEF q
  <2>5. /\ u \in SiteObject /\ SameSelf(q, u) /\ u.excepttarget = q.excepttarget
        /\ \A x : x \in u.exceptsource <=>
             IF x \in G THEN ((q.source = "BLOCK") <=> refuses) ELSE x \in q.exceptsource
    BY <2>1, <2>3, AllowSourceShape
  <2> HIDE DEF u
  <2>6. q.source = m.object[o].source /\ SameSelf(m.object[o], u)
    BY <2>3, <2>5 DEF SameSelf
  <2>7. \A x : x \in u.excepttarget <=>
             IF x = a /\ o \in from THEN ((m.object[o].target = "BLOCK") <=> blocks)
             ELSE x \in m.object[o].excepttarget
    BY <2>2, <2>3, <2>5
  <2>8. \A x : x \in u.exceptsource <=>
             IF x = a /\ o \in to THEN ((m.object[o].source = "BLOCK") <=> refuses)
             ELSE x \in m.object[o].exceptsource
    BY <2>2, <2>3, <2>5, <2>6
  <2>9. \A y \in Objects \ {a} :
          /\ y \in u.excepttarget <=> y \in m.object[o].excepttarget
          /\ y \in u.exceptsource <=> y \in m.object[o].exceptsource
    BY <2>7, <2>8
  <2>10. ASSUME o \notin m.managed
         PROVE  u.excepttarget = m.object[o].excepttarget /\ u.exceptsource = m.object[o].exceptsource
    <3>1. o \notin from /\ o \notin to
      BY <1>2, <2>10
    <3>2. \A x : x \in u.excepttarget <=> x \in m.object[o].excepttarget
      BY <2>7, <3>1
    <3>3. \A x : x \in u.exceptsource <=> x \in m.object[o].exceptsource
      BY <2>8, <3>1
    <3> QED BY <3>2, <3>3
  <2> QED BY <2>4, <2>5, <2>6, <2>7, <2>8, <2>9, <2>10
<1> HIDE DEF New, Of
<1>6. /\ t.managed = m.managed /\ t.logics = m.logics /\ t.conns = m.conns
      /\ \A o \in Objects : t.object[o] = New(o)
  BY DEF SitesRec
<1>7. \A o \in Objects : New(o) \in SiteObject /\ SameSelf(m.object[o], New(o))
  BY <1>4, <1>5
<1>8. t \in SitesRec
  BY <1>7 DEF SitesRec
<1> HIDE DEF t
<1>9. ASSUME NEW x \in Objects \ m.managed PROVE t.object[x] = m.object[x]
  <2>1. x # a /\ New(x) \in SiteObject /\ SameSelf(m.object[x], New(x)) /\ m.object[x] \in SiteObject
        /\ New(x).excepttarget = m.object[x].excepttarget /\ New(x).exceptsource = m.object[x].exceptsource
    BY <1>2, <1>5
  <2>2. New(x) = m.object[x]
    BY <2>1 DEF SiteObject, SameSelf
  <2> QED BY <1>6, <2>2
<1>10. Repaired(m, t, a)
  BY <1>5, <1>6, <1>7, <1>8, <1>9 DEF Repaired
<1>11. ASSUME NEW x \in m.managed \ {a}
       PROVE  Sends(t, a, x) = Takes(t, x, a) /\ Sends(t, x, a) = Takes(t, a, x)
  <2>1. x \in Objects \ {a} /\ t.object[x] = New(x) /\ t.object[a] = New(a)
    BY <1>2, <1>6
  <2>2. SameSelf(s, New(a)) /\ SameSelf(m.object[x], New(x))
    BY <1>4, <1>5, <2>1
  <2>3. Sends(m, a, x) = Takes(m, x, a) /\ Sends(m, x, a) = Takes(m, a, x)
    BY DEF Agrees
  <2>4. /\ Sends(m, a, x) <=> ~refuses
        /\ Takes(m, a, x) <=> ~blocks
    BY <1>2, <1>3 DEF Sends, Takes
  <2> HIDE DEF s
  <2>5. Sends(t, a, x) <=> ((x \in to) <=> refuses)
    BY <1>2, <1>4, <2>1, <2>2 DEF Sends, SameSelf
  <2>6. Takes(t, a, x) <=> ((x \in from) <=> blocks)
    BY <1>2, <1>4, <2>1, <2>2 DEF Takes, SameSelf
  <2>7. Sends(t, x, a) <=> IF x \in from THEN blocks ELSE Sends(m, x, a)
    BY <1>2, <1>5, <2>1, <2>2 DEF Sends, SameSelf
  <2>8. Takes(t, x, a) <=> IF x \in to THEN refuses ELSE Takes(m, x, a)
    BY <1>2, <1>5, <2>1, <2>2 DEF Takes, SameSelf
  <2>9. /\ Sends(t, a, x) \in BOOLEAN /\ Takes(t, x, a) \in BOOLEAN /\ Sends(t, x, a) \in BOOLEAN
        /\ Takes(t, a, x) \in BOOLEAN /\ Sends(m, a, x) \in BOOLEAN /\ Takes(m, x, a) \in BOOLEAN
        /\ Sends(m, x, a) \in BOOLEAN /\ Takes(m, a, x) \in BOOLEAN
    BY DEF Sends, Takes
  <2> QED BY <2>3, <2>4, <2>5, <2>6, <2>7, <2>8, <2>9
<1>12. t.object[a].exceptsource \subseteq m.managed /\ t.object[a].excepttarget \subseteq m.managed
  BY <1>2, <1>4, <1>6
<1> QED BY <1>1, <1>6, <1>10, <1>11, <1>12 DEF Agrees

\* Pairing a site anew leaves pairs that agree, whatever the sites listed.
LEMMA PairAnew ==
  ASSUME NEW m \in SitesRec, NEW a \in m.managed,
         NEW sources \in SUBSET (m.managed \cup {NoSite}), NEW targets \in SUBSET (m.managed \cup {NoSite})
  PROVE  LET t == addExceptForSite(resetSitePairsForSite(m, a), a, sources, targets)
         IN  /\ Repaired(m, t, a) /\ Agrees(t, a)
             /\ Excepted(m) => Excepted(t)
             /\ \A x, y \in m.managed : (Pairs(m) \/ a \in {x, y}) => PairOK(t, x, y)
<1> DEFINE r == resetSitePairsForSite(m, a)
           t == addExceptForSite(r, a, sources, targets)
<1>1. /\ Repaired(m, r, a)
      /\ r.object[a].exceptsource = {} /\ r.object[a].excepttarget = {}
      /\ Agrees(r, a)
  BY ResetShape
<1> HIDE DEF r
<1>2. r \in SitesRec /\ r.managed = m.managed
  BY <1>1 DEF Repaired
<1>3. /\ Repaired(r, t, a)
      /\ t.object[a].exceptsource \subseteq r.managed /\ t.object[a].excepttarget \subseteq r.managed
      /\ Agrees(t, a)
  <2>1. /\ r \in SitesRec /\ a \in r.managed
        /\ sources \in SUBSET (r.managed \cup {NoSite}) /\ targets \in SUBSET (r.managed \cup {NoSite})
        /\ r.object[a].exceptsource = {} /\ r.object[a].excepttarget = {}
        /\ Agrees(r, a)
    BY <1>1, <1>2
  <2> QED BY <2>1, AddShape
<1> HIDE DEF t
<1>4. Repaired(m, t, a)
  BY <1>1, <1>3 DEF Repaired, SameSelf
<1>5. ASSUME Excepted(m) PROVE Excepted(t)
  <2> SUFFICES ASSUME NEW x \in m.managed
               PROVE  t.object[x].exceptsource \subseteq m.managed /\ t.object[x].excepttarget \subseteq m.managed
    BY <1>4 DEF Excepted, Repaired
  <2>1. CASE x = a
    BY <1>2, <1>3, <2>1
  <2>2. CASE x # a
    <3>1. x \in Objects \ {a} /\ t.object[x].exceptsource \subseteq Objects /\ t.object[x].excepttarget \subseteq Objects
      BY <1>4, <2>2 DEF Repaired, SitesRec, SiteObject
    <3>2. \A y \in Objects \ {a} :
            /\ y \in t.object[x].excepttarget <=> y \in m.object[x].excepttarget
            /\ y \in t.object[x].exceptsource <=> y \in m.object[x].exceptsource
      BY <1>4, <3>1 DEF Repaired
    <3>3. m.object[x].exceptsource \subseteq m.managed /\ m.object[x].excepttarget \subseteq m.managed
      BY <1>5 DEF Excepted
    <3> QED BY <3>1, <3>2, <3>3
  <2> QED BY <2>1, <2>2
<1>6. ASSUME NEW x \in m.managed, NEW y \in m.managed, Pairs(m) \/ a \in {x, y}
      PROVE  PairOK(t, x, y)
  <2>1. m.managed \subseteq Objects
    BY DEF SitesRec
  <2>2. CASE x = a \/ y = a
    BY <1>2, <1>3, <1>4, <2>2 DEF PairOK, Agrees, Repaired
  <2>3. CASE x # a /\ y # a
    <3>1. PairOK(m, x, y)
      BY <1>6, <2>3 DEF Pairs
    <3>2. x \in Objects \ {a} /\ y \in Objects \ {a}
      BY <2>1, <2>3
    <3>3. SameSelf(m.object[x], t.object[x]) /\ SameSelf(m.object[y], t.object[y])
      BY <1>4, <3>2 DEF Repaired
    <3>4. /\ y \in t.object[x].excepttarget <=> y \in m.object[x].excepttarget
          /\ x \in t.object[y].exceptsource <=> x \in m.object[y].exceptsource
      BY <1>4, <3>2 DEF Repaired
    <3>5. Sends(t, x, y) <=> Sends(m, x, y)
      BY <3>3, <3>4 DEF Sends, SameSelf
    <3>6. Takes(t, y, x) <=> Takes(m, y, x)
      BY <3>3, <3>4 DEF Takes, SameSelf
    <3>7. Sends(t, x, y) \in BOOLEAN /\ Takes(t, y, x) \in BOOLEAN /\ Sends(m, x, y) \in BOOLEAN /\ Takes(m, y, x) \in BOOLEAN
      BY DEF Sends, Takes
    <3> QED BY <3>1, <3>3, <3>5, <3>6, <3>7 DEF PairOK, SameSelf
  <2> QED BY <2>2, <2>3
<1>7. Agrees(t, a)
  BY <1>3
<1> QED BY <1>4, <1>5, <1>6, <1>7 DEF r, t

LEMMA GetSite ==
  ASSUME NEW m \in SitesRec, NEW n
  PROVE  /\ getSite(m, n) \in m.managed \cup {NoSite}
         /\ getSite(m, n) # NoSite => m.object[getSite(m, n)].name = n
         /\ getSite(m, n) = NoSite => \A o \in m.managed : m.object[o].name # n
<1>1. NoSite \notin m.managed
  BY DEF SitesRec, Objects, NoSite
<1>2. CASE Named(m, n) = {}
  BY <1>2 DEF getSite, Named
<1>3. CASE Named(m, n) # {}
  <2>1. getSite(m, n) \in Named(m, n)
    BY <1>3 DEF getSite
  <2> QED BY <1>1, <2>1 DEF Named
<1> QED BY <1>2, <1>3

\* What a change of its connections leaves of the sites.
SameButLogics(m, t) ==
  /\ t \in SitesRec /\ t.managed = m.managed /\ t.object = m.object
  /\ t.logics = m.logics \/ \E o \in m.managed : t.logics = Append(m.logics, o)

LEMMA LogicShape ==
  ASSUME NEW m \in SitesRec, NEW n
  PROVE  LET t == siteUpdated(getSiteLogic(m, n), n)
             a == getSite(m, n)
         IN  /\ SameButLogics(m, t)
             /\ \A o \in Objects : t.conns[o] = m.conns[o] \/ t.conns[o] = getMaxLogins(m.object[o])
             /\ OwnNames(m) /\ LogicsManaged(t) => \A i \in DOMAIN t.logics :
                  \/ t.logics[i] # a /\ i \in DOMAIN m.logics /\ t.logics[i] = m.logics[i]
                  \/ t.logics[i] = a /\ t.conns[a] = getMaxLogins(m.object[a])
<1> DEFINE a == getSite(m, n)
           g == getSiteLogic(m, n)
           i == FoundLogic(g, n)
           t == siteUpdated(g, n)
<1>1. m.managed \subseteq Objects /\ \A o \in Objects : m.object[o] \in SiteObject /\ getMaxLogins(m.object[o]) \in Int
  BY DEF SitesRec, SiteObject, getMaxLogins, Unlimited
<1>2. /\ SameButLogics(m, g) /\ \A o \in Objects : g.conns[o] = m.conns[o] \/ g.conns[o] = getMaxLogins(m.object[o])
      /\ a # NoSite => FoundLogic(m, n) # 0 \/ g.logics = Append(m.logics, a)
  <2>1. CASE FoundLogic(m, n) # 0 \/ a = NoSite
    BY <2>1 DEF getSiteLogic, SameButLogics
  <2>2. CASE FoundLogic(m, n) = 0 /\ a # NoSite
    <3>1. a \in m.managed /\ a \in Objects
      BY <1>1, <2>2, GetSite
    <3>2. g = [m EXCEPT !.logics = Append(@, a), !.conns[a] = getMaxLogins(m.object[a])]
      BY <2>2 DEF getSiteLogic
    <3> HIDE DEF g, a
    <3>3. m.logics \in Seq(Objects) /\ Append(m.logics, a) \in Seq(Objects) /\ getMaxLogins(m.object[a]) \in Int
      BY <1>1, <3>1 DEF SitesRec
    <3>4. g \in SitesRec /\ g.managed = m.managed /\ g.object = m.object /\ g.logics = Append(m.logics, a)
      BY <3>1, <3>2, <3>3 DEF SitesRec
    <3>5. \A o \in Objects : g.conns[o] = m.conns[o] \/ g.conns[o] = getMaxLogins(m.object[o])
      BY <3>1, <3>2 DEF SitesRec
    <3> QED BY <3>1, <3>4, <3>5 DEF SameButLogics
  <2> QED BY <2>1, <2>2
<1> HIDE DEF g
<1>3. /\ g \in SitesRec /\ g.object = m.object
      /\ i = 0 \/ (i \in DOMAIN g.logics /\ g.object[g.logics[i]].name = n)
      /\ i = 0 => \A j \in DOMAIN g.logics : g.object[g.logics[j]].name # n
  BY <1>2, Found DEF SameButLogics
<1>4. /\ t.managed = g.managed /\ t.object = g.object /\ t.logics = g.logics /\ t \in SitesRec
      /\ \A o \in Objects : t.conns[o] = IF i # 0 /\ o = g.logics[i] THEN getMaxLogins(m.object[o]) ELSE g.conns[o]
  <2>1. CASE i = 0
    BY <1>3, <2>1 DEF siteUpdated
  <2>2. CASE i # 0
    <3>1. t = [g EXCEPT !.conns[g.logics[i]] = getMaxLogins(g.object[g.logics[i]])]
      BY <2>2 DEF siteUpdated
    <3>2. g.logics[i] \in Objects
      BY <1>3, <2>2 DEF SitesRec
    <3>3. getMaxLogins(g.object[g.logics[i]]) \in Int
      BY <1>1, <1>3, <3>2
    <3> HIDE DEF t, i
    <3> QED BY <1>3, <2>2, <3>1, <3>2, <3>3 DEF SitesRec
  <2> QED BY <2>1, <2>2
<1> HIDE DEF t
<1>5. SameButLogics(m, t) /\ \A o \in Objects : t.conns[o] = m.conns[o] \/ t.conns[o] = getMaxLogins(m.object[o])
  BY <1>2, <1>4 DEF SameButLogics
<1>6. ASSUME OwnNames(m), LogicsManaged(t), NEW j \in DOMAIN t.logics
      PROVE  \/ t.logics[j] # a /\ j \in DOMAIN m.logics /\ t.logics[j] = m.logics[j]
             \/ t.logics[j] = a /\ t.conns[a] = getMaxLogins(m.object[a])
  <2>1. t.logics[j] \in m.managed /\ t.logics[j] \in Objects
    BY <1>1, <1>5, <1>6 DEF LogicsManaged, SameButLogics
  <2>2. CASE t.logics[j] = a
    <3>1. a # NoSite /\ m.object[a].name = n /\ a \in m.managed
      BY <2>1, <2>2, GetSite DEF Objects, NoSite
    <3>2. i # 0
      BY <1>3, <1>4, <2>2, <3>1
    <3>3. g.logics[i] \in m.managed /\ m.object[g.logics[i]].name = n
      BY <1>3, <1>4, <1>5, <1>6, <3>2 DEF LogicsManaged, SameButLogics
    <3>4. g.logics[i] = a
      BY <1>6, <3>1, <3>3 DEF OwnNames
    <3> QED BY <1>4, <2>1, <2>2, <3>2, <3>4
  <2>3. CASE t.logics[j] # a
    <3>1. CASE t.logics = m.logics
      BY <2>3, <3>1
    <3>2. CASE t.logics # m.logics
      <4>1. t.logics = Append(m.logics, a) /\ m.logics \in Seq(Objects)
        <5>1. g.logics # m.logics
          BY <1>4, <3>2
        <5>2. FoundLogic(m, n) = 0 /\ a # NoSite
          BY <5>1 DEF g, getSiteLogic
        <5> QED BY <1>2, <1>4, <5>2 DEF SitesRec
      <4> HIDE DEF a
      <4>2. /\ DOMAIN t.logics = 1..(Len(m.logics) + 1) /\ t.logics[Len(m.logics) + 1] = a
            /\ DOMAIN m.logics = 1..Len(m.logics) /\ Len(m.logics) \in Nat
            /\ \A k \in 1..Len(m.logics) : t.logics[k] = m.logics[k]
        BY <4>1
      <4> QED BY <2>3, <4>2
    <3> QED BY <3>1, <3>2
  <2> QED BY <2>2, <2>3
<1> QED BY <1>5, <1>6 DEF t, g

\* The settings that carrying a change over leaves alone.
SameSettings(s, t) ==
  /\ t.name = s.name /\ t.source = s.source /\ t.target = s.target /\ t.sections = s.sections
  /\ t.logins = s.logins /\ t.up = s.up /\ t.pre = s.pre

\* What carrying the changes of a site over leaves of the sites m.
Carried(m, t) ==
  /\ t \in SitesRec /\ t.managed = m.managed
  /\ \A x \in Objects : SameSettings(m.object[x], t.object[x])
  /\ \A x \in Objects \ m.managed : t.object[x] = m.object[x]
  /\ t.logics = m.logics \/ \E o \in m.managed : t.logics = Append(m.logics, o)

LEMMA LogicsPrefix ==
  ASSUME NEW m \in SitesRec, NEW t \in SitesRec, t.managed = m.managed,
         t.logics = m.logics \/ \E o \in m.managed : t.logics = Append(m.logics, o), LogicsManaged(t)
  PROVE  LogicsManaged(m)
<1>1. CASE t.logics = m.logics
  BY <1>1 DEF LogicsManaged
<1>2. CASE \E o \in m.managed : t.logics = Append(m.logics, o)
  <2>1. PICK o \in m.managed : t.logics = Append(m.logics, o)
    BY <1>2
  <2>2. m.logics \in Seq(Objects)
    BY DEF SitesRec
  <2>3. \A i \in DOMAIN m.logics : i \in DOMAIN t.logics /\ t.logics[i] = m.logics[i]
    BY <2>1, <2>2
  <2> QED BY <2>3 DEF LogicsManaged
<1> QED BY <1>1, <1>2

\* The pairs once the site that is paired anew is no longer loose.
LEMMA TightPairs ==
  ASSUME NEW m \in SitesRec, NEW a \in m.managed,
         NEW sources \in SUBSET (m.managed \cup {NoSite}), NEW targets \in SUBSET (m.managed \cup {NoSite})
  PROVE  LET p == addExceptForSite(resetSitePairsForSite(m, a), a, sources, targets)
             t == [p EXCEPT !.object[a].loose = FALSE]
         IN  /\ Carried(m, t) /\ t.logics = m.logics /\ t.conns = m.conns
             /\ \A x \in Objects \ {a} : t.object[x].loose = m.object[x].loose
             /\ Excepted(m) => Excepted(t)
             /\ Pairs(m) => Pairs(t)
<1> DEFINE p == addExceptForSite(resetSitePairsForSite(m, a), a, sources, targets)
           q == [p.object[a] EXCEPT !.loose = FALSE]
           t == [p EXCEPT !.object[a].loose = FALSE]
<1>1. /\ Repaired(m, p, a) /\ Agrees(p, a)
      /\ Excepted(m) => Excepted(p)
      /\ \A x, y \in m.managed : (Pairs(m) \/ a \in {x, y}) => PairOK(p, x, y)
  BY PairAnew
<1> HIDE DEF p
<1>2. p \in SitesRec /\ p.managed = m.managed /\ p.logics = m.logics /\ p.conns = m.conns /\ a \in Objects
      /\ m.managed \subseteq Objects
  BY <1>1 DEF Repaired, SitesRec
<1>3. q \in SiteObject /\ q.loose = FALSE /\ SameSettings(p.object[a], q)
      /\ q.exceptsource = p.object[a].exceptsource /\ q.excepttarget = p.object[a].excepttarget
  <2>1. p.object[a] \in SiteObject
    BY <1>2 DEF SitesRec
  <2> QED BY <2>1 DEF SiteObject, SameSettings
<1>4. t = [p EXCEPT !.object[a] = q]
  OBVIOUS
<1> HIDE DEF t, q
<1>5. /\ t \in SitesRec /\ t.managed = p.managed /\ t.logics = p.logics /\ t.conns = p.conns
      /\ t.object[a] = q /\ \A x \in Objects \ {a} : t.object[x] = p.object[x]
  BY <1>2, <1>3, <1>4 DEF SitesRec
<1>6. \A x \in Objects : /\ SameSettings(p.object[x], t.object[x])
                         /\ t.object[x].exceptsource = p.object[x].exceptsource
                         /\ t.object[x].excepttarget = p.object[x].excepttarget
  BY <1>3, <1>5 DEF SameSettings
<1>7. \A x \in Objects : SameSelf(m.object[x], p.object[x])
  BY <1>1 DEF Repaired
<1>8. \A x \in Objects : SameSettings(m.object[x], t.object[x])
  BY <1>6, <1>7 DEF SameSelf, SameSettings
<1>9. \A x \in Objects \ m.managed : t.object[x] = m.object[x]
  BY <1>1, <1>5 DEF Repaired
<1>10. Carried(m, t)
  BY <1>2, <1>5, <1>8, <1>9 DEF Carried
<1>11. \A x \in Objects \ {a} : t.object[x].loose = m.object[x].loose
  BY <1>5, <1>7 DEF SameSelf
<1>12. Excepted(m) => Excepted(t)
  BY <1>1, <1>2, <1>5, <1>6 DEF Excepted
<1>13. ASSUME Pairs(m), NEW x \in m.managed, NEW y \in m.managed
       PROVE  PairOK(t, x, y)
  <2>1. /\ Sends(t, x, y) = Sends(p, x, y) /\ Takes(t, y, x) = Takes(p, y, x)
    BY <1>2, <1>6 DEF Sends, Takes, SameSettings
  <2>2. CASE x = a \/ y = a
    <3>1. x # y => Sends(p, x, y) = Takes(p, y, x)
      BY <1>1, <1>2, <2>2 DEF Agrees
    <3> QED BY <2>1, <3>1 DEF PairOK
  <2>3. CASE x # a /\ y # a
    <3>1. PairOK(p, x, y) /\ t.object[x] = p.object[x] /\ t.object[y] = p.object[y]
      BY <1>1, <1>2, <1>5, <1>13, <2>3
    <3> QED BY <2>1, <3>1 DEF PairOK
  <2> QED BY <2>2, <2>3
<1>14. Pairs(m) => Pairs(t)
  BY <1>2, <1>5, <1>13 DEF Pairs
<1>15. /\ Carried(m, t) /\ t.logics = m.logics /\ t.conns = m.conns
       /\ \A x \in Objects \ {a} : t.object[x].loose = m.object[x].loose
       /\ Excepted(m) => Excepted(t)
       /\ Pairs(m) => Pairs(t)
  BY <1>2, <1>5, <1>10, <1>11, <1>12, <1>14
<1> QED BY <1>15 DEF t, p

LEMMA CarryShape ==
  ASSUME NEW m \in SitesRec, NEW o \in Objects, NEW sources, NEW targets
  PROVE  LET t == Carry(m, o, sources, targets)
         IN  /\ Carried(m, t)
             /\ Excepted(m) => Excepted(t)
             /\ Pairs(m) => Pairs(t)
             /\ OwnNames(m) /\ LogicsManaged(t) /\ Connected(m) => Connected(t)
<1> DEFINE n == m.object[o].name
           a == getSite(m, n)
           S == {getSite(m, x) : x \in sources}
           T == {getSite(m, x) : x \in targets}
           tight == IF a = NoSite THEN m
                    ELSE [addExceptForSite(resetSitePairsForSite(m, a), a, S, T) EXCEPT !.object[a].loose = FALSE]
           t == siteUpdated(getSiteLogic(tight, n), n)
           b == getSite(tight, n)
<1>1. Carry(m, o, sources, targets) = t
  BY DEF Carry
<1>2. /\ S \in SUBSET (m.managed \cup {NoSite}) /\ T \in SUBSET (m.managed \cup {NoSite})
      /\ a = NoSite \/ a \in m.managed
  BY GetSite
<1> HIDE DEF S, T
<1>3. /\ Carried(m, tight) /\ tight.logics = m.logics /\ tight.conns = m.conns
      /\ \A x \in Objects \ {a} : tight.object[x].loose = m.object[x].loose
      /\ Excepted(m) => Excepted(tight)
      /\ Pairs(m) => Pairs(tight)
  <2>1. CASE a = NoSite
    BY <2>1 DEF Carried, SameSettings
  <2>2. CASE a # NoSite
    <3>1. a \in m.managed
      BY <1>2, <2>2
    <3> DEFINE u == [addExceptForSite(resetSitePairsForSite(m, a), a, S, T) EXCEPT !.object[a].loose = FALSE]
    <3>2. tight = u
      BY <2>2
    <3> HIDE DEF a, tight
    <3>3. /\ Carried(m, u) /\ u.logics = m.logics /\ u.conns = m.conns
          /\ \A x \in Objects \ {a} : u.object[x].loose = m.object[x].loose
          /\ Excepted(m) => Excepted(u)
          /\ Pairs(m) => Pairs(u)
      BY ONLY <1>2, <3>1, TightPairs, m \in SitesRec
    <3> HIDE DEF u
    <3> QED BY <3>2, <3>3
  <2> QED BY <2>1, <2>2
<1>4. a = b
  <2>1. Named(tight, n) = Named(m, n)
    <3> HIDE DEF tight, n
    <3> QED BY <1>3 DEF Named, Carried, SameSettings, SitesRec
  <2> HIDE DEF tight, n
  <2> QED BY <2>1 DEF getSite
<1> HIDE DEF tight, n
<1>5. tight \in SitesRec /\ tight.managed = m.managed
  BY <1>3 DEF Carried
<1>6. /\ SameButLogics(tight, t)
      /\ \A x \in Objects : t.conns[x] = tight.conns[x] \/ t.conns[x] = getMaxLogins(tight.object[x])
      /\ OwnNames(tight) /\ LogicsManaged(t) => \A i \in DOMAIN t.logics :
           \/ t.logics[i] # b /\ i \in DOMAIN tight.logics /\ t.logics[i] = tight.logics[i]
           \/ t.logics[i] = b /\ t.conns[b] = getMaxLogins(tight.object[b])
  BY <1>5, LogicShape
<1> HIDE DEF t, a, b
<1>7. t \in SitesRec /\ t.managed = m.managed /\ t.object = tight.object
  BY <1>5, <1>6 DEF SameButLogics
<1>8. Carried(m, t)
  BY <1>3, <1>6, <1>7 DEF Carried, SameButLogics
<1>9. (Excepted(m) => Excepted(t)) /\ (Pairs(m) => Pairs(t))
  BY <1>3, <1>5, <1>7 DEF Excepted, Pairs, PairOK, Sends, Takes
<1>10. ASSUME OwnNames(m), LogicsManaged(t), Connected(m) PROVE Connected(t)
  <2>1. OwnNames(tight)
    BY <1>3, <1>5, <1>10 DEF OwnNames, Carried, SameSettings, SitesRec
  <2> SUFFICES ASSUME NEW i \in DOMAIN t.logics, t.logics[i] \in t.managed
               PROVE  t.object[t.logics[i]].loose \/ t.conns[t.logics[i]] = getMaxLogins(t.object[t.logics[i]])
    BY DEF Connected
  <2> DEFINE k == t.logics[i]
  <2>2. k \in Objects /\ k \in m.managed
    BY <1>7 DEF SitesRec
  <2> HIDE DEF k
  <2>3. \/ k # b /\ i \in DOMAIN tight.logics /\ k = tight.logics[i]
        \/ k = b /\ t.conns[b] = getMaxLogins(tight.object[b])
    BY <1>6, <1>10, <2>1 DEF k
  <2>4. CASE k = b /\ t.conns[b] = getMaxLogins(tight.object[b])
    BY <1>7, <2>4 DEF k
  <2>5. CASE k # b /\ i \in DOMAIN tight.logics /\ k = tight.logics[i]
    <3>1. m.object[k].loose \/ m.conns[k] = getMaxLogins(m.object[k])
      BY <1>3, <1>10, <2>2, <2>5 DEF Connected
    <3>2. tight.object[k].loose = m.object[k].loose /\ getMaxLogins(tight.object[k]) = getMaxLogins(m.object[k])
      BY <1>3, <1>4, <2>2, <2>5 DEF Carried, SameSettings, getMaxLogins
    <3>3. t.conns[k] = tight.conns[k] \/ t.conns[k] = getMaxLogins(tight.object[k])
      BY <1>6, <2>2
    <3> QED BY <1>3, <1>7, <3>1, <3>2, <3>3 DEF k
  <2> QED BY <2>3, <2>4, <2>5 DEF k
<1> QED BY <1>1, <1>8, <1>9, <1>10

-----------------------------------------------------------------------------
\* Steps

\* Dropping what nobody holds any more.
LEMMA ReleasedShape ==
  ASSUME NEW m \in SitesRec, NEW e
  PROVE  LET t == Released(m, e)
         IN  /\ t \in SitesRec /\ t.managed = m.managed /\ t.logics = m.logics
             /\ \A o \in m.managed : t.object[o] = m.object[o] /\ t.conns[o] = m.conns[o]
             /\ e \in Objects => t.object[e] = m.object[e]
             /\ AllTight(m) => AllTight(t)
<1> DEFINE New(o) == IF Unheld(m, e, o) THEN NewSite(CHOOSE n \in SiteNames : TRUE)
                     ELSE IF o \notin m.managed \cup {e} THEN NewSite(m.object[o].name) ELSE m.object[o]
           Conns(o) == IF o \notin m.managed THEN 0 ELSE m.conns[o]
           t == [m EXCEPT !.object = [o \in Objects |-> New(o)], !.conns = [o \in Objects |-> Conns(o)]]
<1>1. Released(m, e) = t
  BY DEF Released
<1>2. \A o \in Objects : m.object[o].name \in SiteNames /\ m.object[o] \in SiteObject
  BY DEF SitesRec, SiteObject
<1>3. (CHOOSE n \in SiteNames : TRUE) \in SiteNames
  BY SiteConfigAssumption
<1>4. \A o \in Objects : New(o) \in SiteObject /\ (Tight(m.object[o]) => Tight(New(o)))
  BY <1>2, <1>3, NewSiteShape
<1>5. \A o \in Objects : (o \in m.managed \/ o = e) => New(o) = m.object[o]
  BY DEF Unheld
<1>6. \A o \in Objects : Conns(o) \in Int /\ (o \in m.managed => Conns(o) = m.conns[o])
  BY DEF SitesRec
<1> HIDE DEF New, Conns
<1>7. /\ t.managed = m.managed /\ t.logics = m.logics /\ m.managed \subseteq Objects
      /\ \A o \in Objects : t.object[o] = New(o) /\ t.conns[o] = Conns(o)
  BY DEF SitesRec
<1>8. t \in SitesRec
  BY <1>4, <1>6 DEF SitesRec
<1> HIDE DEF t
<1> QED BY <1>1, <1>4, <1>5, <1>6, <1>7, <1>8 DEF AllTight

\* What makes the sites m a state that may follow.
Becoming(m) ==
  /\ m \in SitesRec /\ known' \in SUBSET SectionNames /\ editing' \in EditRec /\ aspect' \in Aspects
  /\ Excepted(m) /\ AllTight(m) /\ Pairs(m)
  /\ ~mishap.leftover /\ OwnNames(m) /\ LogicsManaged(m) => Connected(m)
  /\ ~mishap.overtaken => SectionsOf(m, known') /\ editing'.sections \subseteq known'
  /\ Adding(m, editing')

LEMMA StepStrong ==
  ASSUME Types, NEW m, Becoming(m), ConfigBecomes(m)
  PROVE  ConfigStrong'
<1> DEFINE e == editing'.site
           t == Released(m, e)
<1>1. sites' = t
  BY DEF ConfigBecomes
<1>2. mishap' = [mishap EXCEPT !.names = @ \/ \E a, b \in m.managed : a # b /\ m.object[a].name = m.object[b].name,
                               !.leftover = @ \/ \E i \in DOMAIN m.logics : m.logics[i] \notin m.managed]
  BY DEF ConfigBecomes
<1>3. m \in SitesRec
  BY DEF Becoming
<1>4. /\ t \in SitesRec /\ t.managed = m.managed /\ t.logics = m.logics
      /\ \A o \in m.managed : t.object[o] = m.object[o] /\ t.conns[o] = m.conns[o]
      /\ e \in Objects => t.object[e] = m.object[e]
      /\ AllTight(m) => AllTight(t)
  BY <1>3, ReleasedShape
<1> HIDE DEF t, e
<1>5. /\ mishap' \in MishapRec /\ mishap'.overtaken = mishap.overtaken
      /\ ~mishap'.names => OwnNames(m)
      /\ ~mishap'.leftover => LogicsManaged(m) /\ ~mishap.leftover
  <2> DEFINE N == \E a, b \in m.managed : a # b /\ m.object[a].name = m.object[b].name
             L == \E i \in DOMAIN m.logics : m.logics[i] \notin m.managed
             p == mishap.names \/ N
             q == mishap.leftover \/ L
  <2>1. mishap' = [mishap EXCEPT !.names = p, !.leftover = q]
    BY <1>2
  <2>2. p \in BOOLEAN /\ q \in BOOLEAN /\ mishap \in MishapRec
    BY DEF Types, MishapRec
  <2>3. (~p => OwnNames(m)) /\ (~q => LogicsManaged(m) /\ ~mishap.leftover)
    BY DEF OwnNames, LogicsManaged
  <2> HIDE DEF p, q
  <2>4. mishap' \in MishapRec /\ mishap'.names = p /\ mishap'.leftover = q /\ mishap'.overtaken = mishap.overtaken
    BY <2>1, <2>2 DEF MishapRec
  <2> QED BY <2>3, <2>4
<1>6. Types'
  BY <1>1, <1>4, <1>5 DEF Types, Becoming
<1>7. Excepted(t) /\ AllTight(t) /\ Pairs(t)
  BY <1>4 DEF Becoming, Excepted, Pairs, PairOK, Sends, Takes
<1>8. OwnNames(m) => OwnNames(t)
  BY <1>4 DEF OwnNames
<1>9. LogicsManaged(m) /\ Connected(m) => LogicsManaged(t) /\ Connected(t)
  BY <1>4 DEF LogicsManaged, Connected
<1>10. \A K : SectionsOf(m, K) => SectionsOf(t, K)
  BY <1>4 DEF SectionsOf
<1>11. Adding(t, editing')
  BY <1>4 DEF Becoming, Adding, e
<1>12. ~mishap'.names => Sound(t)
  BY <1>5, <1>7, <1>8 DEF Sound
<1>13. ~mishap'.names /\ ~mishap'.leftover => Served(t)
  BY <1>5, <1>9 DEF Served, Becoming
<1>14. ~mishap'.overtaken => SectionsOf(t, known') /\ editing'.sections \subseteq known'
  BY <1>5, <1>10 DEF Becoming
<1> HIDE DEF Types
<1>15. /\ Excepted(sites') /\ AllTight(sites') /\ Adding(sites', editing')
       /\ ~mishap'.names => Sound(sites')
       /\ ~mishap'.names /\ ~mishap'.leftover => Served(sites')
       /\ ~mishap'.overtaken => SectionsOf(sites', known') /\ editing'.sections \subseteq known'
  BY <1>1, <1>7, <1>11, <1>12, <1>13, <1>14
<1> QED BY <1>6, <1>15 DEF ConfigStrong

\* One site is changed without carrying the change over, or is not one of the sites.
Loosened(m, t, o) ==
  /\ t \in SitesRec /\ t.managed \in {m.managed, m.managed \cup {o}} /\ t.logics = m.logics
  /\ \A x \in Objects \ {o} : t.object[x] = m.object[x] /\ t.conns[x] = m.conns[x]
  /\ Tight(t.object[o])
  /\ o \in t.managed => /\ t.object[o].loose
                        /\ t.object[o].exceptsource \subseteq t.managed /\ t.object[o].excepttarget \subseteq t.managed

LEMMA LoosenedKeeps ==
  ASSUME NEW m \in SitesRec, NEW o \in Objects, NEW t, Loosened(m, t, o)
  PROVE  /\ Excepted(m) => Excepted(t)
         /\ AllTight(m) => AllTight(t)
         /\ Pairs(m) => Pairs(t)
         /\ Connected(m) => Connected(t)
         /\ \A K : SectionsOf(m, K) /\ (o \in t.managed => t.object[o].sections \subseteq K) => SectionsOf(t, K)
<1>1. t.managed \subseteq Objects /\ \A x \in t.managed : x # o => x \in m.managed
  BY DEF Loosened, SitesRec
<1>2. Excepted(m) => Excepted(t)
  BY <1>1 DEF Loosened, Excepted
<1>3. AllTight(m) => AllTight(t)
  BY DEF Loosened, AllTight
<1>4. ASSUME Pairs(m), NEW x \in t.managed, NEW y \in t.managed PROVE PairOK(t, x, y)
  <2>1. CASE x = o \/ y = o
    BY <2>1 DEF Loosened, PairOK
  <2>2. CASE x # o /\ y # o
    <3>1. PairOK(m, x, y) /\ t.object[x] = m.object[x] /\ t.object[y] = m.object[y]
      BY <1>1, <1>4, <2>2 DEF Loosened, Pairs
    <3> QED BY <3>1 DEF PairOK, Sends, Takes
  <2> QED BY <2>1, <2>2
<1>5. Pairs(m) => Pairs(t)
  BY <1>4 DEF Pairs
<1>6. Connected(m) => Connected(t)
  <2> SUFFICES ASSUME Connected(m), NEW i \in DOMAIN t.logics, t.logics[i] \in t.managed
               PROVE  t.object[t.logics[i]].loose \/ t.conns[t.logics[i]] = getMaxLogins(t.object[t.logics[i]])
    BY DEF Connected
  <2>1. CASE t.logics[i] = o
    BY <2>1 DEF Loosened
  <2>2. CASE t.logics[i] # o
    BY <1>1, <2>2 DEF Loosened, Connected
  <2> QED BY <2>1, <2>2
<1>7. \A K : SectionsOf(m, K) /\ (o \in t.managed => t.object[o].sections \subseteq K) => SectionsOf(t, K)
  BY <1>1 DEF Loosened, SectionsOf
<1> QED BY <1>2, <1>3, <1>5, <1>6, <1>7

\* Sites go, exceptions that name them go, and sections change.
Reduced(m, t) ==
  /\ t \in SitesRec /\ t.managed \subseteq m.managed /\ t.conns = m.conns
  /\ \A i \in DOMAIN t.logics : \E j \in DOMAIN m.logics : t.logics[i] = m.logics[j]
  /\ \A x \in Objects \ m.managed : t.object[x] = m.object[x]
  /\ \A x \in Objects :
       /\ t.object[x].name = m.object[x].name /\ t.object[x].loose = m.object[x].loose
       /\ t.object[x].source = m.object[x].source /\ t.object[x].target = m.object[x].target
       /\ t.object[x].logins = m.object[x].logins /\ t.object[x].up = m.object[x].up
       /\ t.object[x].pre = m.object[x].pre
       /\ \A y \in t.managed :
            /\ y \in t.object[x].exceptsource <=> y \in m.object[x].exceptsource
            /\ y \in t.object[x].excepttarget <=> y \in m.object[x].excepttarget

LEMMA ReducedKeeps ==
  ASSUME NEW m \in SitesRec, NEW t, Reduced(m, t)
  PROVE  /\ AllTight(m) => AllTight(t)
         /\ Pairs(m) => Pairs(t)
         /\ Connected(m) => Connected(t)
         /\ OwnNames(m) => OwnNames(t)
<1>1. t.managed \subseteq Objects /\ m.managed \subseteq Objects
  BY DEF Reduced, SitesRec
<1>2. AllTight(m) => AllTight(t)
  BY DEF Reduced, AllTight, Tight
<1>3. ASSUME Pairs(m), NEW x \in t.managed, NEW y \in t.managed PROVE PairOK(t, x, y)
  <2>1. PairOK(m, x, y)
    BY <1>3 DEF Reduced, Pairs
  <2>2. Sends(t, x, y) = Sends(m, x, y) /\ Takes(t, y, x) = Takes(m, y, x)
    BY <1>1 DEF Reduced, Sends, Takes
  <2> QED BY <1>1, <2>1, <2>2 DEF PairOK, Reduced
<1>4. Connected(m) => Connected(t)
  <2> SUFFICES ASSUME Connected(m), NEW i \in DOMAIN t.logics, t.logics[i] \in t.managed
               PROVE  t.object[t.logics[i]].loose \/ t.conns[t.logics[i]] = getMaxLogins(t.object[t.logics[i]])
    BY DEF Connected
  <2> DEFINE k == t.logics[i]
  <2>1. k \in Objects /\ k \in m.managed /\ \E j \in DOMAIN m.logics : k = m.logics[j]
    BY <1>1 DEF Reduced
  <2> HIDE DEF k
  <2>2. m.object[k].loose \/ m.conns[k] = getMaxLogins(m.object[k])
    BY <2>1 DEF Connected
  <2>3. t.object[k].loose \/ t.conns[k] = getMaxLogins(t.object[k])
    BY <2>1, <2>2 DEF Reduced, getMaxLogins
  <2> QED BY <2>3 DEF k
<1>5. OwnNames(m) => OwnNames(t)
  BY <1>1 DEF Reduced, OwnNames
<1> QED BY <1>2, <1>3, <1>4, <1>5 DEF Pairs

LEMMA CarriedBecoming ==
  ASSUME NEW m, Becoming(m), NEW o \in Objects, NEW sources, NEW targets
  PROVE  Becoming(Carry(m, o, sources, targets))
<1> DEFINE t == Carry(m, o, sources, targets)
<1>1. m \in SitesRec
  BY DEF Becoming
<1>2. /\ Carried(m, t)
      /\ Excepted(m) => Excepted(t)
      /\ Pairs(m) => Pairs(t)
      /\ OwnNames(m) /\ LogicsManaged(t) /\ Connected(m) => Connected(t)
  BY <1>1, CarryShape
<1> HIDE DEF t
<1>3. /\ t \in SitesRec /\ t.managed = m.managed /\ m.managed \subseteq Objects
      /\ \A x \in Objects : SameSettings(m.object[x], t.object[x])
      /\ \A x \in Objects \ m.managed : t.object[x] = m.object[x]
      /\ t.logics = m.logics \/ \E x \in m.managed : t.logics = Append(m.logics, x)
  BY <1>1, <1>2 DEF Carried, SitesRec
<1>4. AllTight(m) => AllTight(t)
  BY <1>3 DEF AllTight, Tight, SameSettings
<1>5. OwnNames(t) => OwnNames(m)
  BY <1>3 DEF OwnNames, SameSettings
<1>6. LogicsManaged(t) => LogicsManaged(m)
  BY <1>1, <1>3, LogicsPrefix
<1>7. \A K : SectionsOf(m, K) => SectionsOf(t, K)
  BY <1>3 DEF SectionsOf, SameSettings
<1>8. Adding(m, editing') => Adding(t, editing')
  BY <1>3 DEF Adding
<1>9. t \in SitesRec
  BY <1>3
<1>10. Becoming(t)
  BY <1>2, <1>4, <1>5, <1>6, <1>7, <1>8, <1>9 DEF Becoming
<1> QED BY <1>10 DEF t

LEMMA UpdateStrong ==
  ASSUME Types, NEW m, NEW o \in Objects, NEW b, updateSite(m, o, b),
         Becoming([m EXCEPT !.object[o] = Apply(m.object[o], b)])
  PROVE  ConfigStrong'
<1> DEFINE d == [m EXCEPT !.object[o] = Apply(m.object[o], b)]
<1>1. \/ ConfigBecomes(d)
      \/ \E sources, targets : ConfigBecomes(Carry(d, o, sources, targets))
  BY DEF updateSite
<1> HIDE DEF d
<1>2. Becoming(d)
  BY DEF d
<1>3. CASE ConfigBecomes(d)
  BY <1>2, <1>3, StepStrong
<1>4. CASE \E sources, targets : ConfigBecomes(Carry(d, o, sources, targets))
  <2>1. PICK sources, targets : ConfigBecomes(Carry(d, o, sources, targets))
    BY <1>4
  <2> DEFINE t == Carry(d, o, sources, targets)
  <2>2. Becoming(t)
    BY <1>2, CarriedBecoming
  <2>3. ConfigBecomes(t)
    BY <2>1
  <2> HIDE DEF t
  <2> QED BY <2>2, <2>3, StepStrong
<1> QED BY <1>1, <1>3, <1>4

\* As long as no two sites have one name.
LEMMA Now ==
  ASSUME ConfigStrong, ~mishap.names
  PROVE  /\ Types /\ sites \in SitesRec /\ sites.managed \subseteq Objects
         /\ \A o \in Objects : sites.object[o] \in SiteObject /\ Tight(sites.object[o])
         /\ Excepted(sites) /\ AllTight(sites) /\ Pairs(sites) /\ Adding(sites, editing)
         /\ ~mishap.leftover => Connected(sites)
         /\ ~mishap.overtaken => SectionsOf(sites, known) /\ editing.sections \subseteq known
BY DEF ConfigStrong, Types, Sound, Served, SitesRec, AllTight

\* A change of one site, from the state there is.
LEMMA LoosenedBecoming ==
  ASSUME ConfigStrong, ~mishap.names, aspect' = aspect, NEW o \in Objects, NEW t, Loosened(sites, t, o),
         known' \in SUBSET SectionNames, editing' \in EditRec,
         ~mishap.overtaken => /\ known \subseteq known' /\ editing'.sections \subseteq known'
                              /\ o \in t.managed => t.object[o].sections \subseteq known',
         Adding(t, editing')
  PROVE  Becoming(t)
<1>1. /\ sites \in SitesRec /\ aspect \in Aspects
      /\ Excepted(sites) /\ AllTight(sites) /\ Pairs(sites)
      /\ ~mishap.leftover => Connected(sites)
      /\ ~mishap.overtaken => SectionsOf(sites, known)
  BY Now DEF Types
<1>2. /\ Excepted(t) /\ AllTight(t) /\ Pairs(t)
      /\ ~mishap.leftover => Connected(t)
      /\ \A K : SectionsOf(sites, K) /\ (o \in t.managed => t.object[o].sections \subseteq K) => SectionsOf(t, K)
  BY <1>1, LoosenedKeeps
<1>3. ~mishap.overtaken => SectionsOf(sites, known')
  BY <1>1 DEF SectionsOf
<1>4. ~mishap.overtaken => SectionsOf(t, known') /\ editing'.sections \subseteq known'
  BY <1>2, <1>3
<1>5. t \in SitesRec
  BY DEF Loosened
<1> QED BY <1>1, <1>2, <1>4, <1>5 DEF Becoming

\* Fewer sites or exceptions, from the state there is.
LEMMA ReducedBecoming ==
  ASSUME ConfigStrong, ~mishap.names, aspect' = aspect, NEW t, Reduced(sites, t), Excepted(t),
         known' \in SUBSET SectionNames, editing' \in EditRec,
         ~mishap.overtaken => SectionsOf(t, known') /\ editing'.sections \subseteq known',
         Adding(t, editing')
  PROVE  Becoming(t)
<1>1. /\ sites \in SitesRec /\ aspect \in Aspects
      /\ AllTight(sites) /\ Pairs(sites)
      /\ ~mishap.leftover => Connected(sites)
  BY Now DEF Types
<1>2. AllTight(t) /\ Pairs(t) /\ (~mishap.leftover => Connected(t))
  BY <1>1, ReducedKeeps
<1>3. t \in SitesRec
  BY DEF Reduced
<1> QED BY <1>1, <1>2, <1>3 DEF Becoming

LEMMA UnchangedBecoming ==
  ASSUME ConfigStrong, ~mishap.names, aspect' = aspect, known' = known, editing' \in EditRec,
         editing'.sections \subseteq known \/ editing'.sections = editing.sections,
         Adding(sites, editing')
  PROVE  Becoming(sites)
<1>1. /\ Types /\ sites \in SitesRec /\ Excepted(sites)
      /\ ~mishap.overtaken => SectionsOf(sites, known) /\ editing.sections \subseteq known
  BY Now
<1>2. Reduced(sites, sites)
  BY <1>1 DEF Reduced
<1>3. known' \in SUBSET SectionNames
  BY <1>1 DEF Types
<1> QED BY <1>1, <1>2, <1>3, ReducedBecoming

LEMMA AnnounceShape ==
  ASSUME Types, NEW b, BodyRec(b), Announce(b)
  PROVE  /\ known' \in SUBSET SectionNames /\ known \subseteq known'
         /\ (IF Reads(b, "sections") THEN UNION b.sections ELSE {}) \subseteq known'
<1>1. UNION b.sections \subseteq SectionNames
  BY DEF BodyRec, Optional
<1> QED BY <1>1 DEF Announce, Types

LEMMA PatchStrong ==
  ASSUME ConfigStrong, ~mishap.names, aspect' = aspect, NEW o \in Objects, NEW b, BodyRec(b), handleSitePatch(o, b)
  PROVE  ConfigStrong'
<1> DEFINE q == Apply(sites.object[o], b)
           t == [sites EXCEPT !.object[o] = q]
<1>1. /\ Types /\ sites \in SitesRec /\ o \in sites.managed /\ Excepted(sites) /\ Adding(sites, editing)
      /\ sites.object[o] \in SiteObject /\ Tight(sites.object[o])
      /\ ~mishap.overtaken => SectionsOf(sites, known) /\ editing.sections \subseteq known
      /\ editing' = editing /\ updateSite(sites, o, b)
  BY Now DEF handleSitePatch
<1>2. /\ q \in SiteObject /\ Tight(q) /\ q.loose
      /\ q.exceptsource = sites.object[o].exceptsource /\ q.excepttarget = sites.object[o].excepttarget
      /\ q.sections \subseteq sites.object[o].sections \cup (IF Reads(b, "sections") THEN UNION b.sections ELSE {})
  BY <1>1, ApplyShape
<1>3. Announce(b)
  BY <1>1 DEF updateSite
<1>4. /\ known' \in SUBSET SectionNames /\ known \subseteq known'
      /\ (IF Reads(b, "sections") THEN UNION b.sections ELSE {}) \subseteq known'
  BY <1>1, <1>3, AnnounceShape
<1> HIDE DEF q
<1>5. /\ t \in SitesRec /\ t.managed = sites.managed /\ t.logics = sites.logics /\ t.conns = sites.conns
      /\ t.object[o] = q /\ \A x \in Objects \ {o} : t.object[x] = sites.object[x]
  BY <1>1, <1>2 DEF SitesRec
<1> HIDE DEF t
<1>6. Loosened(sites, t, o)
  BY <1>1, <1>2, <1>5 DEF Loosened, Excepted
<1>7. Adding(t, editing')
  BY <1>1, <1>5 DEF Adding
<1>8. editing' \in EditRec
  BY <1>1 DEF Types
<1>9. ~mishap.overtaken => /\ known \subseteq known' /\ editing'.sections \subseteq known'
                           /\ o \in t.managed => t.object[o].sections \subseteq known'
  BY <1>1, <1>2, <1>4, <1>5 DEF SectionsOf
<1>10. Becoming(t)
  BY <1>4, <1>6, <1>7, <1>8, <1>9, LoosenedBecoming
<1>11. Becoming([sites EXCEPT !.object[o] = Apply(sites.object[o], b)])
  BY <1>10 DEF t, q
<1> QED BY <1>1, <1>11, UpdateStrong

LEMMA PostStrong ==
  ASSUME ConfigStrong, ~mishap.names, aspect' = aspect, NEW o \in Objects, NEW b, BodyRec(b), handleSitesPost(o, b)
  PROVE  ConfigStrong'
<1> DEFINE n == Get(b.name, "")
           new == [sites EXCEPT !.object[o] = NewSite(n), !.conns[o] = 0, !.managed = @ \cup {o}]
           q == Apply(NewSite(n), b)
           t == [new EXCEPT !.object[o] = q]
<1>1. /\ Types /\ sites \in SitesRec /\ Excepted(sites) /\ Adding(sites, editing)
      /\ ~mishap.overtaken => SectionsOf(sites, known) /\ editing.sections \subseteq known
      /\ editing' = editing /\ Fresh(o) /\ b.name # {}
      /\ Announce(b)
      /\ \/ updateSite([[sites EXCEPT !.object[o] = NewSite(n), !.conns[o] = 0] EXCEPT !.managed = @ \cup {o}], o, b)
         \/ ConfigBecomes(sites)
  BY Now DEF handleSitesPost, updateSite
<1>2. n \in SiteNames
  BY <1>1, GetShape DEF BodyRec
<1>3. /\ known' \in SUBSET SectionNames /\ known \subseteq known'
      /\ (IF Reads(b, "sections") THEN UNION b.sections ELSE {}) \subseteq known'
  BY <1>1, AnnounceShape
<1>4. o \notin sites.managed /\ o # editing.site
  BY <1>1 DEF Fresh, Unheld
<1>5. editing' \in EditRec
  BY <1>1 DEF Types
<1> HIDE DEF n
<1>6. NewSite(n) \in SiteObject /\ Tight(NewSite(n)) /\ NewSite(n).sections = {}
      /\ NewSite(n).exceptsource = {} /\ NewSite(n).excepttarget = {}
  BY <1>2, NewSiteShape
<1>7. /\ q \in SiteObject /\ Tight(q) /\ q.loose
      /\ q.exceptsource = NewSite(n).exceptsource /\ q.excepttarget = NewSite(n).excepttarget
      /\ q.sections \subseteq NewSite(n).sections \cup (IF Reads(b, "sections") THEN UNION b.sections ELSE {})
  BY <1>6, ApplyShape
<1> HIDE DEF q
<1>8. CASE ConfigBecomes(sites)
  <2>1. Reduced(sites, sites)
    BY <1>1 DEF Reduced
  <2>2. ~mishap.overtaken => SectionsOf(sites, known') /\ editing'.sections \subseteq known'
    BY <1>1, <1>3 DEF SectionsOf
  <2>3. Adding(sites, editing')
    BY <1>1
  <2>4. Becoming(sites)
    BY <1>1, <1>3, <1>5, <2>1, <2>2, <2>3, ReducedBecoming
  <2> QED BY <1>1, <1>8, <2>4, StepStrong
<1>9. CASE updateSite([[sites EXCEPT !.object[o] = NewSite(n), !.conns[o] = 0] EXCEPT !.managed = @ \cup {o}], o, b)
  <2>1. /\ new \in SitesRec /\ new.managed = sites.managed \cup {o} /\ new.logics = sites.logics
        /\ new.object[o] = NewSite(n)
        /\ \A x \in Objects \ {o} : new.object[x] = sites.object[x] /\ new.conns[x] = sites.conns[x]
    <3> DEFINE O == [sites.object EXCEPT ![o] = NewSite(n)]
               C == [sites.conns EXCEPT ![o] = 0]
               M == sites.managed \cup {o}
    <3>1. /\ O \in [Objects -> SiteObject] /\ O[o] = NewSite(n) /\ \A x \in Objects \ {o} : O[x] = sites.object[x]
          /\ C \in [Objects -> Int] /\ \A x \in Objects \ {o} : C[x] = sites.conns[x]
          /\ M \in SUBSET Objects
      BY <1>1, <1>6 DEF SitesRec
    <3>2. new = [sites EXCEPT !.object = O, !.conns = C, !.managed = M]
      OBVIOUS
    <3> HIDE DEF new, O, C
    <3> QED BY <1>1, <3>1, <3>2 DEF SitesRec
  <2>2. new = [[sites EXCEPT !.object[o] = NewSite(n), !.conns[o] = 0] EXCEPT !.managed = @ \cup {o}]
    BY <1>1 DEF SitesRec
  <2> HIDE DEF new
  <2>3. /\ t \in SitesRec /\ t.managed = sites.managed \cup {o} /\ t.logics = sites.logics /\ t.object[o] = q
        /\ \A x \in Objects \ {o} : t.object[x] = sites.object[x] /\ t.conns[x] = sites.conns[x]
    BY <1>7, <2>1 DEF SitesRec
  <2> HIDE DEF t
  <2>4. Loosened(sites, t, o)
    BY <1>6, <1>7, <2>3 DEF Loosened
  <2>5. Adding(t, editing')
    BY <1>1, <1>4, <2>3 DEF Adding
  <2>6. ~mishap.overtaken => /\ known \subseteq known' /\ editing'.sections \subseteq known'
                             /\ o \in t.managed => t.object[o].sections \subseteq known'
    BY <1>1, <1>3, <1>6, <1>7, <2>3
  <2>7. Becoming(t)
    BY <1>3, <1>5, <2>4, <2>5, <2>6, LoosenedBecoming
  <2>8. Becoming([new EXCEPT !.object[o] = Apply(new.object[o], b)])
    BY <2>1, <2>7 DEF t, q
  <2>9. updateSite(new, o, b)
    BY <1>9, <2>2
  <2> QED BY <1>1, <2>8, <2>9, UpdateStrong
<1> QED BY <1>1, <1>8, <1>9

LEMMA DeleteShape ==
  ASSUME NEW m \in SitesRec, NEW o \in m.managed, NEW g \in SitesRec,
         g.managed = m.managed, g.object = m.object, g.conns = m.conns,
         \A i \in DOMAIN g.logics : \E j \in DOMAIN m.logics : g.logics[i] = m.logics[j]
  PROVE  LET t == deleteSite(g, o)
         IN  /\ Reduced(m, t)
             /\ Excepted(m) => Excepted(t)
             /\ \A K : SectionsOf(m, K) => SectionsOf(t, K)
             /\ \A e : Adding(m, e) => Adding(t, e)
<1> DEFINE Cut(x) == [g.object[x] EXCEPT !.exceptsource = @ \ {o}, !.excepttarget = @ \ {o}]
           New(x) == IF x \in g.managed THEN Cut(x) ELSE g.object[x]
           O == [x \in Objects |-> New(x)]
           M == g.managed \ {o}
           t == [g EXCEPT !.managed = M, !.object = O]
<1>1. deleteSite(g, o) = t
  BY DEF deleteSite
<1>2. ASSUME NEW x \in Objects
      PROVE  /\ New(x) \in SiteObject /\ (x \notin m.managed => New(x) = m.object[x])
             /\ SameSelf(m.object[x], New(x))
             /\ \A y : y # o => /\ y \in New(x).exceptsource <=> y \in m.object[x].exceptsource
                                /\ y \in New(x).excepttarget <=> y \in m.object[x].excepttarget
             /\ x \in m.managed => New(x).exceptsource = m.object[x].exceptsource \ {o}
                                   /\ New(x).excepttarget = m.object[x].excepttarget \ {o}
  <2> DEFINE s == m.object[x]
             A == s.exceptsource \ {o}
             B == s.excepttarget \ {o}
  <2>1. s \in SiteObject
    BY DEF SitesRec
  <2>2. A \in SUBSET Objects /\ B \in SUBSET Objects
    BY <2>1 DEF SiteObject
  <2>3. Cut(x) = [s EXCEPT !.exceptsource = A, !.excepttarget = B]
    OBVIOUS
  <2>4. /\ \A y : y # o => (y \in A <=> y \in s.exceptsource) /\ (y \in B <=> y \in s.excepttarget)
        /\ A = s.exceptsource \ {o} /\ B = s.excepttarget \ {o}
    OBVIOUS
  <2> HIDE DEF A, B, s
  <2>5. Cut(x) \in SiteObject /\ SameSelf(s, Cut(x)) /\ Cut(x).exceptsource = A /\ Cut(x).excepttarget = B
    BY <2>1, <2>2, <2>3 DEF SiteObject, SameSelf
  <2> HIDE DEF Cut
  <2>6. SameSelf(s, s)
    BY DEF SameSelf
  <2> QED BY <2>1, <2>4, <2>5, <2>6 DEF s
<1>3. M \subseteq m.managed /\ m.managed \subseteq Objects /\ M \in SUBSET Objects
  BY DEF SitesRec
<1> HIDE DEF New
<1>4. O \in [Objects -> SiteObject] /\ \A x \in Objects : O[x] = New(x)
  BY <1>2
<1> HIDE DEF O
<1>5. t \in SitesRec /\ t.managed = M /\ t.object = O /\ t.logics = g.logics /\ t.conns = m.conns
  BY <1>3, <1>4 DEF SitesRec
<1> HIDE DEF t
<1>6. Reduced(m, t)
  <2>1. \A x \in Objects : SameSelf(m.object[x], t.object[x])
    BY <1>2, <1>4, <1>5
  <2>2. \A x \in Objects : \A y \in t.managed :
            /\ y \in t.object[x].exceptsource <=> y \in m.object[x].exceptsource
            /\ y \in t.object[x].excepttarget <=> y \in m.object[x].excepttarget
    BY <1>2, <1>4, <1>5
  <2>3. \A x \in Objects \ m.managed : t.object[x] = m.object[x]
    BY <1>2, <1>4, <1>5
  <2> QED BY <1>3, <1>5, <2>1, <2>2, <2>3 DEF Reduced, SameSelf
<1>7. Excepted(m) => Excepted(t)
  <2> SUFFICES ASSUME Excepted(m), NEW x \in M
               PROVE  t.object[x].exceptsource \subseteq M /\ t.object[x].excepttarget \subseteq M
    BY <1>5 DEF Excepted
  <2>1. x \in m.managed /\ x \in Objects
    BY <1>3
  <2>2. t.object[x].exceptsource = m.object[x].exceptsource \ {o} /\ t.object[x].excepttarget = m.object[x].excepttarget \ {o}
    BY <1>2, <1>4, <1>5, <2>1
  <2>3. m.object[x].exceptsource \subseteq m.managed /\ m.object[x].excepttarget \subseteq m.managed
    BY <2>1 DEF Excepted
  <2> QED BY <2>2, <2>3
<1>8. \A K : SectionsOf(m, K) => SectionsOf(t, K)
  <2> SUFFICES ASSUME NEW K, SectionsOf(m, K), NEW x \in M PROVE t.object[x].sections \subseteq K
    BY <1>5 DEF SectionsOf
  <2>1. SameSelf(m.object[x], t.object[x]) /\ m.object[x].sections \subseteq K
    BY <1>2, <1>3, <1>4, <1>5 DEF SectionsOf
  <2> QED BY <2>1 DEF SameSelf
<1>9. \A e : Adding(m, e) => Adding(t, e)
  BY <1>3, <1>5, <1>6 DEF Adding, Reduced
<1> QED BY <1>1, <1>6, <1>7, <1>8, <1>9

LEMMA DeleteStrong ==
  ASSUME ConfigStrong, ~mishap.names, aspect' = aspect, NEW o \in Objects, handleSiteDelete(o) \/ DeleteSite(o)
  PROVE  ConfigStrong'
<1> DEFINE i == FoundLogic(sites, sites.object[o].name)
           g == IF DeleteSite(o) /\ i # 0 THEN [sites EXCEPT !.logics = RemoveAt(@, i)] ELSE sites
           t == deleteSite(g, o)
<1>1. /\ Types /\ sites \in SitesRec /\ Excepted(sites) /\ Adding(sites, editing)
      /\ ~mishap.overtaken => SectionsOf(sites, known) /\ editing.sections \subseteq known
  BY Now
<1>2. o \in sites.managed /\ editing' = editing /\ known' = known
  BY DEF handleSiteDelete, DeleteSite
<1>4. /\ g \in SitesRec /\ g.managed = sites.managed /\ g.object = sites.object /\ g.conns = sites.conns
      /\ \A k \in DOMAIN g.logics : \E j \in DOMAIN sites.logics : g.logics[k] = sites.logics[j]
  <2>1. CASE g = sites
    BY <1>1, <2>1
  <2>2. CASE DeleteSite(o) /\ i # 0
    <3>1. g = [sites EXCEPT !.logics = RemoveAt(@, i)]
      BY <2>2
    <3>2. i \in DOMAIN sites.logics
      BY <1>1, <2>2, Found
    <3> DEFINE s == sites.logics
               r == RemoveAt(s, i)
    <3>3. s \in Seq(Objects)
      BY <1>1 DEF SitesRec
    <3> HIDE DEF s, i
    <3>4. i \in 1..Len(s) /\ Len(s) \in Nat
      BY <3>2, <3>3 DEF s
    <3>5. r = SubSeq(s, 1, i - 1) \o SubSeq(s, i + 1, Len(s))
      BY DEF RemoveAt
    <3>6. /\ SubSeq(s, 1, i - 1) \in Seq(Objects) /\ SubSeq(s, i + 1, Len(s)) \in Seq(Objects)
          /\ Len(SubSeq(s, 1, i - 1)) = i - 1 /\ Len(SubSeq(s, i + 1, Len(s))) = Len(s) - i
          /\ \A k \in 1..(i - 1) : SubSeq(s, 1, i - 1)[k] = s[k]
          /\ \A k \in 1..(Len(s) - i) : SubSeq(s, i + 1, Len(s))[k] = s[i + k]
      BY <3>3, <3>4
    <3>7. /\ r \in Seq(Objects) /\ DOMAIN r = 1..(Len(s) - 1)
          /\ \A k \in DOMAIN r : r[k] = IF k < i THEN s[k] ELSE s[k + 1]
      <4> DEFINE p == SubSeq(s, 1, i - 1)
                 q == SubSeq(s, i + 1, Len(s))
      <4>1. p \in Seq(Objects) /\ q \in Seq(Objects) /\ Len(p) = i - 1 /\ Len(q) = Len(s) - i /\ r = p \o q
        BY <3>5, <3>6
      <4>2. (\A k \in 1..(i - 1) : p[k] = s[k]) /\ (\A k \in 1..(Len(s) - i) : q[k] = s[i + k])
        BY <3>6
      <4> HIDE DEF p, q, r
      <4>3. r \in Seq(Objects) /\ Len(r) = Len(s) - 1 /\ DOMAIN r = 1..(Len(s) - 1)
        <5>1. r \in Seq(Objects) /\ Len(r) = Len(p) + Len(q)
          BY <4>1, ConcatProperties
        <5>2. Len(r) = Len(s) - 1
          BY <3>4, <4>1, <5>1
        <5> QED BY <5>1, <5>2
      <4>4. \A k \in 1..(Len(s) - 1) : r[k] = IF k < i THEN p[k] ELSE q[k - (i - 1)]
        BY <3>4, <4>1
      <4>5. ASSUME NEW k \in 1..(Len(s) - 1) PROVE r[k] = IF k < i THEN s[k] ELSE s[k + 1]
        <5>1. CASE k < i
          BY <3>4, <4>2, <4>4, <5>1
        <5>2. CASE ~(k < i)
          <6>1. k - (i - 1) \in 1..(Len(s) - i) /\ i + (k - (i - 1)) = k + 1
            BY <3>4, <5>2
          <6>2. q[k - (i - 1)] = s[i + (k - (i - 1))]
            BY <4>2, <6>1
          <6> QED BY <4>4, <5>2, <6>1, <6>2
        <5> QED BY <5>1, <5>2
      <4> QED BY <4>3, <4>5
    <3>8. \A k \in DOMAIN r : \E j \in DOMAIN s : r[k] = s[j]
      <4> SUFFICES ASSUME NEW k \in DOMAIN r PROVE \E j \in DOMAIN s : r[k] = s[j]
        OBVIOUS
      <4>1. k \in 1..(Len(s) - 1) /\ DOMAIN s = 1..Len(s)
        BY <3>3, <3>7
      <4>2. CASE k < i
        BY <3>4, <3>7, <4>1, <4>2
      <4>3. CASE ~(k < i)
        BY <3>4, <3>7, <4>1, <4>3
      <4> QED BY <4>2, <4>3
    <3>9. g = [sites EXCEPT !.logics = r]
      BY <3>1 DEF s
    <3> HIDE DEF g, r
    <3> QED BY <1>1, <3>7, <3>8, <3>9 DEF SitesRec, s
  <2> QED BY <2>1, <2>2
<1>5. ConfigBecomes(t)
  <2>1. CASE DeleteSite(o)
    BY <2>1 DEF DeleteSite
  <2>2. CASE ~DeleteSite(o)
    BY <2>2 DEF handleSiteDelete
  <2> QED BY <2>1, <2>2
<1> HIDE DEF g
<1>6. /\ Reduced(sites, t) /\ Excepted(t)
      /\ \A K : SectionsOf(sites, K) => SectionsOf(t, K)
      /\ Adding(t, editing)
  BY <1>1, <1>2, <1>4, DeleteShape
<1> HIDE DEF t
<1>7. /\ known' \in SUBSET SectionNames /\ editing' \in EditRec
  BY <1>1, <1>2 DEF Types
<1>8. Becoming(t)
  BY <1>1, <1>2, <1>6, <1>7, ReducedBecoming
<1> QED BY <1>1, <1>5, <1>8, StepStrong

LEMMA SectionStep ==
  ASSUME ConfigStrong, ~mishap.names, NEW F \in [Objects -> SUBSET SectionNames]
  PROVE  LET t == [sites EXCEPT !.object = [x \in Objects |->
                     IF x \in sites.managed THEN [sites.object[x] EXCEPT !.sections = F[x]] ELSE sites.object[x]]]
         IN  /\ Reduced(sites, t) /\ Excepted(t) /\ t.managed = sites.managed
             /\ \A x \in sites.managed : t.object[x].sections = F[x]
             /\ Adding(t, editing)
             /\ t \in SitesRec /\ t.logics = sites.logics /\ t.conns = sites.conns
             /\ \A x \in Objects : t.object[x].loose = sites.object[x].loose
<1> DEFINE New(x) == IF x \in sites.managed THEN [sites.object[x] EXCEPT !.sections = F[x]] ELSE sites.object[x]
           O == [x \in Objects |-> New(x)]
           t == [sites EXCEPT !.object = O]
<1>1. /\ sites \in SitesRec /\ Excepted(sites) /\ Adding(sites, editing) /\ sites.managed \subseteq Objects
      /\ \A x \in Objects : sites.object[x] \in SiteObject
  BY Now
<1>2. \A x \in Objects : /\ New(x) \in SiteObject
                         /\ New(x).name = sites.object[x].name /\ New(x).loose = sites.object[x].loose
                         /\ New(x).source = sites.object[x].source /\ New(x).target = sites.object[x].target
                         /\ New(x).logins = sites.object[x].logins /\ New(x).up = sites.object[x].up
                         /\ New(x).pre = sites.object[x].pre
                         /\ New(x).exceptsource = sites.object[x].exceptsource
                         /\ New(x).excepttarget = sites.object[x].excepttarget
                         /\ x \in sites.managed => New(x).sections = F[x]
                         /\ x \notin sites.managed => New(x) = sites.object[x]
  BY <1>1 DEF SiteObject
<1> HIDE DEF New
<1>3. O \in [Objects -> SiteObject] /\ \A x \in Objects : O[x] = New(x)
  BY <1>2
<1> HIDE DEF O
<1>4. t \in SitesRec /\ t.managed = sites.managed /\ t.logics = sites.logics /\ t.conns = sites.conns /\ t.object = O
  BY <1>1, <1>3 DEF SitesRec
<1> HIDE DEF t
<1>5. Reduced(sites, t)
  <2>1. \A i \in DOMAIN t.logics : \E j \in DOMAIN sites.logics : t.logics[i] = sites.logics[j]
    BY <1>4
  <2>2. \A x \in Objects : t.object[x] = New(x)
    BY <1>3, <1>4
  <2>3. \A x \in Objects \ sites.managed : t.object[x] = sites.object[x]
    BY <1>2, <2>2
  <2>4. \A x \in Objects :
          /\ t.object[x].name = sites.object[x].name /\ t.object[x].loose = sites.object[x].loose
          /\ t.object[x].source = sites.object[x].source /\ t.object[x].target = sites.object[x].target
          /\ t.object[x].logins = sites.object[x].logins /\ t.object[x].up = sites.object[x].up
          /\ t.object[x].pre = sites.object[x].pre
          /\ t.object[x].exceptsource = sites.object[x].exceptsource
          /\ t.object[x].excepttarget = sites.object[x].excepttarget
    BY <1>2, <2>2
  <2> QED BY <1>4, <2>1, <2>3, <2>4 DEF Reduced
<1>6. Excepted(t) /\ Adding(t, editing) /\ \A x \in sites.managed : t.object[x].sections = F[x]
  <2>1. \A x \in Objects : t.object[x] = New(x)
    BY <1>3, <1>4
  <2>2. \A x \in Objects : t.object[x].exceptsource = sites.object[x].exceptsource
                         /\ t.object[x].excepttarget = sites.object[x].excepttarget
    BY <1>2, <2>1
  <2>3. Excepted(t)
    BY <1>1, <1>4, <2>2 DEF Excepted
  <2>4. Adding(t, editing)
    BY <1>1, <1>4, <2>2 DEF Adding
  <2>5. \A x \in sites.managed : t.object[x].sections = F[x]
    BY <1>1, <1>2, <2>1
  <2> QED BY <2>3, <2>4, <2>5
<1>7. \A x \in Objects : t.object[x].loose = sites.object[x].loose
  BY <1>2, <1>3, <1>4
<1> HIDE DEF Reduced, Excepted, Adding
<1>8. /\ Reduced(sites, t) /\ Excepted(t) /\ t.managed = sites.managed
      /\ \A x \in sites.managed : t.object[x].sections = F[x]
      /\ Adding(t, editing)
      /\ t \in SitesRec /\ t.logics = sites.logics /\ t.conns = sites.conns
      /\ \A x \in Objects : t.object[x].loose = sites.object[x].loose
  BY <1>4, <1>5, <1>6, <1>7
<1> QED BY <1>8 DEF t, O, New

\* The state after a change of sections that leaves the logics and what they serve alone.
LEMMA SiteSectionStrong ==
  ASSUME ConfigStrong, ~mishap.names, aspect' = aspect, NEW o \in Objects, NEW x \in SectionNames,
         handleSiteSectionPost(o, x) \/ handleSiteSectionDelete(o, x)
  PROVE  ConfigStrong'
<1> DEFINE S == IF handleSiteSectionPost(o, x) THEN sites.object[o].sections \cup {x}
                ELSE sites.object[o].sections \ {x}
           F == [y \in Objects |-> IF y = o THEN S ELSE sites.object[y].sections]
           u == [sites EXCEPT !.object[o].sections = S]
           t == [sites EXCEPT !.object = [y \in Objects |->
                   IF y \in sites.managed THEN [sites.object[y] EXCEPT !.sections = F[y]] ELSE sites.object[y]]]
<1>1. /\ Types /\ sites \in SitesRec /\ sites.managed \subseteq Objects
      /\ \A y \in Objects : sites.object[y] \in SiteObject
      /\ ~mishap.overtaken => SectionsOf(sites, known) /\ editing.sections \subseteq known
  BY Now
<1>2. /\ o \in sites.managed /\ editing' = editing
      /\ known' \in {known, known \cup {x}} /\ (handleSiteSectionPost(o, x) => known' = known \cup {x})
  BY DEF handleSiteSectionPost, handleSiteSectionDelete
<1>3. ConfigBecomes(u)
  BY DEF handleSiteSectionPost, handleSiteSectionDelete
<1>4. S \in SUBSET SectionNames /\ S \subseteq sites.object[o].sections \cup (known' \cap {x})
  BY <1>1, <1>2 DEF SiteObject
<1> HIDE DEF S
<1>5. F \in [Objects -> SUBSET SectionNames] /\ F[o] = S /\ \A y \in Objects \ {o} : F[y] = sites.object[y].sections
  BY <1>1, <1>4 DEF SiteObject
<1>6. u = t
  <2> DEFINE O == [y \in Objects |->
                IF y \in sites.managed THEN [sites.object[y] EXCEPT !.sections = F[y]] ELSE sites.object[y]]
             P == [sites.object EXCEPT ![o].sections = S]
  <2> HIDE DEF F
  <2>1. \A y \in Objects \ {o} : [sites.object[y] EXCEPT !.sections = F[y]] = sites.object[y]
    BY <1>1, <1>5 DEF SiteObject
  <2>2. sites.object \in [Objects -> SiteObject]
    BY <1>1 DEF SitesRec
  <2>3. O = P
    BY <1>1, <1>2, <1>5, <2>1, <2>2
  <2> HIDE DEF O
  <2>4. u = [sites EXCEPT !.object = P]
    BY <1>1 DEF SitesRec
  <2> QED BY <2>3, <2>4 DEF O
<1> HIDE DEF u, F
<1>7. /\ Reduced(sites, t) /\ Excepted(t) /\ t.managed = sites.managed
      /\ \A y \in sites.managed : t.object[y].sections = F[y]
      /\ Adding(t, editing)
  BY <1>5, SectionStep
<1> HIDE DEF t
<1>8. /\ known' \in SUBSET SectionNames /\ editing' \in EditRec
  BY <1>1, <1>2 DEF Types
<1>9. ~mishap.overtaken => SectionsOf(t, known') /\ editing'.sections \subseteq known'
  BY <1>1, <1>2, <1>4, <1>5, <1>7 DEF SectionsOf
<1>10. Becoming(t)
  BY <1>2, <1>7, <1>8, <1>9, ReducedBecoming
<1> QED BY <1>1, <1>3, <1>6, <1>10, StepStrong

LEMMA SectionStrong ==
  ASSUME ConfigStrong, ~mishap.names, aspect' = aspect, editing' = editing, known' \in SUBSET SectionNames,
         NEW F \in [Objects -> SUBSET SectionNames],
         sites' = [sites EXCEPT !.object = [x \in Objects |->
                     IF x \in sites.managed THEN [sites.object[x] EXCEPT !.sections = F[x]] ELSE sites.object[x]]],
         mishap' \in MishapRec, mishap'.names = mishap.names, mishap'.leftover = mishap.leftover,
         ~mishap'.overtaken => (\A o \in sites.managed : F[o] \subseteq known') /\ editing.sections \subseteq known'
  PROVE  ConfigStrong'
<1> DEFINE t == [sites EXCEPT !.object = [x \in Objects |->
                   IF x \in sites.managed THEN [sites.object[x] EXCEPT !.sections = F[x]] ELSE sites.object[x]]]
<1>1. /\ Types /\ sites \in SitesRec /\ AllTight(sites) /\ Pairs(sites)
      /\ ~mishap.names => Sound(sites)
      /\ ~mishap.names /\ ~mishap.leftover => Served(sites)
  BY Now DEF ConfigStrong
<1>2. sites' = t
  OBVIOUS
<1>3. /\ Reduced(sites, t) /\ Excepted(t) /\ t.managed = sites.managed
      /\ \A x \in sites.managed : t.object[x].sections = F[x]
      /\ Adding(t, editing)
      /\ t \in SitesRec /\ t.logics = sites.logics
  BY SectionStep
<1> HIDE DEF t
<1>4. /\ AllTight(t) /\ Pairs(t)
      /\ Connected(sites) => Connected(t)
      /\ OwnNames(sites) => OwnNames(t)
  BY <1>1, <1>3, ReducedKeeps
<1>5. LogicsManaged(sites) => LogicsManaged(t)
  BY <1>3 DEF LogicsManaged
<1>6. ~mishap'.overtaken => SectionsOf(t, known')
  BY <1>3 DEF SectionsOf
<1>7. Types'
  BY <1>1, <1>2, <1>3 DEF Types
<1> HIDE DEF Types
<1>8. /\ Excepted(sites') /\ AllTight(sites') /\ Adding(sites', editing')
      /\ ~mishap'.names => Sound(sites')
      /\ ~mishap'.names /\ ~mishap'.leftover => Served(sites')
      /\ ~mishap'.overtaken => SectionsOf(sites', known') /\ editing'.sections \subseteq known'
  BY <1>1, <1>2, <1>3, <1>4, <1>5, <1>6 DEF Sound, Served
<1> QED BY <1>7, <1>8 DEF ConfigStrong

LEMMA RemoveStrong ==
  ASSUME ConfigStrong, ~mishap.names, aspect' = aspect, NEW x \in SectionNames, removeSection(x)
  PROVE  ConfigStrong'
<1> DEFINE F == [o \in Objects |-> sites.object[o].sections \ {x}]
           over == mishap.overtaken \/ x \in editing.sections
<1>1. /\ Types /\ \A o \in Objects : sites.object[o] \in SiteObject
      /\ sites.managed \subseteq Objects
      /\ ~mishap.overtaken => SectionsOf(sites, known) /\ editing.sections \subseteq known
  BY Now
<1>2. F \in [Objects -> SUBSET SectionNames] /\ \A o \in Objects : F[o] = sites.object[o].sections \ {x}
  BY <1>1 DEF SiteObject
<1> HIDE DEF F
<1>3. sites' = [sites EXCEPT !.object = [o \in Objects |->
                  IF o \in sites.managed THEN [sites.object[o] EXCEPT !.sections = F[o]] ELSE sites.object[o]]]
  BY <1>2 DEF removeSection
<1>4. known' = known \ {x} /\ editing' = editing /\ mishap' = [mishap EXCEPT !.overtaken = over]
  BY DEF removeSection, Overtakes
<1>5. over \in BOOLEAN /\ mishap \in MishapRec /\ known' \in SUBSET SectionNames
  BY <1>1, <1>4 DEF Types, MishapRec
<1>6. ~over => ~mishap.overtaken /\ x \notin editing.sections
  OBVIOUS
<1> HIDE DEF over
<1>7. /\ mishap' \in MishapRec /\ mishap'.names = mishap.names /\ mishap'.leftover = mishap.leftover
      /\ mishap'.overtaken = over
  BY <1>4, <1>5 DEF MishapRec
<1>8. ~mishap'.overtaken => (\A o \in sites.managed : F[o] \subseteq known') /\ editing.sections \subseteq known'
  BY <1>1, <1>2, <1>4, <1>6, <1>7 DEF SectionsOf
<1> QED BY <1>2, <1>3, <1>4, <1>5, <1>7, <1>8, SectionStrong

LEMMA ReplaceStrong ==
  ASSUME ConfigStrong, ~mishap.names, aspect' = aspect, NEW x \in SectionNames, NEW y \in SectionNames,
         replaceSection(x, y)
  PROVE  ConfigStrong'
<1> DEFINE G(o) == IF x \in sites.object[o].sections THEN (sites.object[o].sections \ {x}) \cup {y}
                   ELSE sites.object[o].sections
           F == [o \in Objects |-> G(o)]
           over == mishap.overtaken \/ x \in editing.sections
<1>1. /\ Types /\ \A o \in Objects : sites.object[o] \in SiteObject
      /\ sites.managed \subseteq Objects
      /\ ~mishap.overtaken => SectionsOf(sites, known) /\ editing.sections \subseteq known
  BY Now
<1>2. F \in [Objects -> SUBSET SectionNames] /\ \A o \in Objects : F[o] = G(o)
  BY <1>1 DEF SiteObject
<1> HIDE DEF F
<1>3. sites' = [sites EXCEPT !.object = [o \in Objects |->
                  IF o \in sites.managed THEN [sites.object[o] EXCEPT !.sections = F[o]] ELSE sites.object[o]]]
  <2> DEFINE A(o) == IF o \in sites.managed /\ x \in sites.object[o].sections
                       THEN [sites.object[o] EXCEPT !.sections = (@ \ {x}) \cup {y}] ELSE sites.object[o]
             B(o) == IF o \in sites.managed THEN [sites.object[o] EXCEPT !.sections = F[o]] ELSE sites.object[o]
  <2>1. sites' = [sites EXCEPT !.object = [o \in Objects |-> A(o)]]
    BY DEF replaceSection
  <2>2. ASSUME NEW o \in Objects PROVE A(o) = B(o)
    <3>1. CASE x \in sites.object[o].sections
      BY <1>2, <3>1
    <3>2. CASE x \notin sites.object[o].sections
      <4>1. F[o] = sites.object[o].sections
        BY <1>2, <3>2
      <4>2. [sites.object[o] EXCEPT !.sections = F[o]] = sites.object[o]
        BY <1>1, <4>1 DEF SiteObject
      <4> QED BY <3>2, <4>2
    <3> QED BY <3>1, <3>2
  <2> HIDE DEF A, B
  <2>3. [o \in Objects |-> A(o)] = [o \in Objects |-> B(o)]
    BY <2>2
  <2>4. sites' = [sites EXCEPT !.object = [o \in Objects |-> B(o)]]
    BY <2>1, <2>3
  <2> QED BY <2>4 DEF B
<1>4. known' = (known \ {x}) \cup {y} /\ editing' = editing /\ mishap' = [mishap EXCEPT !.overtaken = over]
  BY DEF replaceSection, Overtakes
<1>5. over \in BOOLEAN /\ mishap \in MishapRec /\ known' \in SUBSET SectionNames
  BY <1>1, <1>4 DEF Types, MishapRec
<1>6. ~over => ~mishap.overtaken /\ x \notin editing.sections
  OBVIOUS
<1> HIDE DEF over
<1>7. /\ mishap' \in MishapRec /\ mishap'.names = mishap.names /\ mishap'.leftover = mishap.leftover
      /\ mishap'.overtaken = over
  BY <1>4, <1>5 DEF MishapRec
<1>8. ~mishap'.overtaken => (\A o \in sites.managed : F[o] \subseteq known') /\ editing.sections \subseteq known'
  BY <1>1, <1>2, <1>4, <1>6, <1>7 DEF SectionsOf
<1> QED BY <1>2, <1>3, <1>4, <1>5, <1>7, <1>8, SectionStrong

LEMMA SectionPostStrong ==
  ASSUME ConfigStrong, ~mishap.names, aspect' = aspect, NEW x \in SectionNames, handleSectionPost(x)
  PROVE  ConfigStrong'
<1>1. /\ known' = known \cup {x} /\ sites' = sites /\ editing' = editing /\ mishap' = mishap
  BY DEF handleSectionPost
<1>2. Types'
  BY <1>1 DEF ConfigStrong, Types
<1>3. ~mishap.overtaken => SectionsOf(sites, known') /\ editing.sections \subseteq known'
  BY <1>1 DEF ConfigStrong, SectionsOf
<1> QED BY <1>1, <1>2, <1>3 DEF ConfigStrong

LEMMA CopyStrong ==
  ASSUME ConfigStrong, ~mishap.names, aspect' = aspect, NEW o \in Objects, NEW c \in Objects, NEW n \in SiteNames,
         CopySite(o, c, n)
  PROVE  ConfigStrong'
<1> DEFINE q == [sites.object[o] EXCEPT !.name = n, !.exceptsource = {}, !.excepttarget = {}, !.loose = TRUE]
           t == [sites EXCEPT !.object[c] = q, !.managed = @ \cup {c}, !.conns[c] = 0]
<1>1. /\ Types /\ sites \in SitesRec /\ Adding(sites, editing) /\ sites.managed \subseteq Objects
      /\ sites.object[o] \in SiteObject /\ Tight(sites.object[o])
      /\ ~mishap.overtaken => SectionsOf(sites, known) /\ editing.sections \subseteq known
  BY Now
<1>2. o \in sites.managed /\ c # editing.site /\ c \notin sites.managed /\ editing' = editing /\ known' = known
      /\ ConfigBecomes(t)
  BY DEF CopySite, Fresh, Unheld
<1>3. /\ q \in SiteObject /\ Tight(q) /\ q.loose /\ q.exceptsource = {} /\ q.excepttarget = {}
      /\ q.sections = sites.object[o].sections
  BY <1>1 DEF SiteObject, Tight
<1> HIDE DEF q
<1>4. /\ t \in SitesRec /\ t.managed = sites.managed \cup {c} /\ t.logics = sites.logics /\ t.object[c] = q
      /\ \A x \in Objects \ {c} : t.object[x] = sites.object[x] /\ t.conns[x] = sites.conns[x]
  <2> DEFINE O == [sites.object EXCEPT ![c] = q]
             C == [sites.conns EXCEPT ![c] = 0]
             M == sites.managed \cup {c}
  <2>1. /\ O \in [Objects -> SiteObject] /\ O[c] = q /\ \A x \in Objects \ {c} : O[x] = sites.object[x]
        /\ C \in [Objects -> Int] /\ \A x \in Objects \ {c} : C[x] = sites.conns[x]
        /\ M \in SUBSET Objects
    BY <1>1, <1>3 DEF SitesRec
  <2>2. t = [sites EXCEPT !.object = O, !.managed = M, !.conns = C]
    OBVIOUS
  <2> HIDE DEF t, O, C
  <2> QED BY <1>1, <2>1, <2>2 DEF SitesRec
<1> HIDE DEF t
<1>5. Loosened(sites, t, c)
  BY <1>3, <1>4 DEF Loosened
<1>6. known' \in SUBSET SectionNames /\ editing' \in EditRec
  BY <1>1, <1>2 DEF Types
<1>7. Adding(t, editing')
  BY <1>1, <1>2, <1>4 DEF Adding
<1>8. ~mishap.overtaken => /\ known \subseteq known' /\ editing'.sections \subseteq known'
                           /\ c \in t.managed => t.object[c].sections \subseteq known'
  BY <1>1, <1>2, <1>3, <1>4 DEF SectionsOf
<1>9. Becoming(t)
  BY <1>5, <1>6, <1>7, <1>8, LoosenedBecoming
<1> QED BY <1>1, <1>2, <1>9, StepStrong

LEMMA EditStrong ==
  ASSUME ConfigStrong, ~mishap.names, aspect' = aspect, NEW o \in Objects, EditSite(o)
  PROVE  ConfigStrong'
<1>1. /\ Types /\ sites \in SitesRec /\ sites.object[o] \in SiteObject
      /\ ~mishap.overtaken => SectionsOf(sites, known)
  BY Now
<1>2. /\ o \in sites.managed /\ known' = known /\ sites' = sites /\ mishap' = mishap
      /\ editing' = [site |-> o, add |-> FALSE, sections |-> sites.object[o].sections, pre |-> sites.object[o].pre]
  BY DEF EditSite
<1>3. editing' \in EditRec
  BY <1>1, <1>2 DEF EditRec, SiteObject
<1>4. Types'
  BY <1>1, <1>2, <1>3 DEF Types
<1>5. ~mishap.overtaken => SectionsOf(sites, known) /\ editing'.sections \subseteq known
  BY <1>1, <1>2 DEF SectionsOf
<1>6. Adding(sites, editing')
  BY <1>2 DEF Adding
<1> QED BY <1>2, <1>4, <1>5, <1>6 DEF ConfigStrong

LEMMA AddStrong ==
  ASSUME ConfigStrong, ~mishap.names, aspect' = aspect, NEW o \in Objects, NEW n \in SiteNames, AddSite(o, n)
  PROVE  ConfigStrong'
<1> DEFINE t == [sites EXCEPT !.object[o] = NewSite(n), !.conns[o] = 0]
<1>1. /\ Types /\ sites \in SitesRec
      /\ Excepted(sites) /\ AllTight(sites) /\ Pairs(sites)
      /\ ~mishap.names => Sound(sites)
      /\ ~mishap.names /\ ~mishap.leftover => Served(sites)
      /\ ~mishap.overtaken => SectionsOf(sites, known)
  BY Now DEF ConfigStrong
<1>2. /\ o \notin sites.managed /\ known' = known /\ sites' = t /\ mishap' = mishap
      /\ editing' = [site |-> o, add |-> TRUE, sections |-> {}, pre |-> -2]
  BY DEF AddSite, Fresh, Unheld
<1>3. NewSite(n) \in SiteObject /\ Tight(NewSite(n)) /\ NewSite(n).exceptsource = {} /\ NewSite(n).excepttarget = {}
  BY NewSiteShape
<1>4. /\ t \in SitesRec /\ t.managed = sites.managed /\ t.logics = sites.logics /\ t.object[o] = NewSite(n)
      /\ \A x \in Objects \ {o} : t.object[x] = sites.object[x] /\ t.conns[x] = sites.conns[x]
  <2> DEFINE O == [sites.object EXCEPT ![o] = NewSite(n)]
             C == [sites.conns EXCEPT ![o] = 0]
  <2>1. /\ O \in [Objects -> SiteObject] /\ O[o] = NewSite(n) /\ \A x \in Objects \ {o} : O[x] = sites.object[x]
        /\ C \in [Objects -> Int] /\ \A x \in Objects \ {o} : C[x] = sites.conns[x]
    BY <1>1, <1>3 DEF SitesRec
  <2>2. t = [sites EXCEPT !.object = O, !.conns = C]
    OBVIOUS
  <2> HIDE DEF t, O, C
  <2> QED BY <1>1, <2>1, <2>2 DEF SitesRec
<1> HIDE DEF t
<1>5. Loosened(sites, t, o)
  BY <1>2, <1>3, <1>4 DEF Loosened
<1>6. /\ Excepted(t) /\ AllTight(t) /\ Pairs(t)
      /\ Connected(sites) => Connected(t)
      /\ \A K : SectionsOf(sites, K) /\ (o \in t.managed => t.object[o].sections \subseteq K) => SectionsOf(t, K)
  BY <1>1, <1>5, LoosenedKeeps
<1>7. OwnNames(sites) => OwnNames(t)
  BY <1>1, <1>2, <1>4 DEF OwnNames, SitesRec
<1>8. LogicsManaged(sites) => LogicsManaged(t)
  BY <1>4 DEF LogicsManaged
<1>9. editing' \in EditRec
  BY <1>2 DEF EditRec
<1>10. Types'
  BY <1>1, <1>2, <1>4, <1>9 DEF Types
<1>11. Adding(t, editing')
  BY <1>2, <1>3, <1>4 DEF Adding
<1>12. ~mishap.overtaken => SectionsOf(t, known) /\ editing'.sections \subseteq known
  BY <1>1, <1>2, <1>4, <1>6
<1> HIDE DEF Types
<1>13. /\ Excepted(sites') /\ AllTight(sites') /\ Adding(sites', editing')
       /\ ~mishap'.names => Sound(sites')
       /\ ~mishap'.names /\ ~mishap'.leftover => Served(sites')
       /\ ~mishap'.overtaken => SectionsOf(sites', known') /\ editing'.sections \subseteq known'
  BY <1>1, <1>2, <1>6, <1>7, <1>8, <1>11, <1>12 DEF Sound, Served
<1> QED BY <1>10, <1>13 DEF ConfigStrong

LEMMA SectionsStrong ==
  ASSUME ConfigStrong, ~mishap.names, aspect' = aspect, NEW S \in SUBSET SectionNames, EditSections(S)
  PROVE  ConfigStrong'
<1>1. /\ editing' = [editing EXCEPT !.sections = S] /\ known' = known \cup S /\ sites' = sites /\ mishap' = mishap
  BY DEF EditSections
<1>2. editing \in EditRec
  BY DEF ConfigStrong, Types
<1>3. editing' \in EditRec /\ editing'.site = editing.site /\ editing'.add = editing.add /\ editing'.sections = S
  BY <1>1, <1>2 DEF EditRec
<1>4. Types'
  BY <1>1, <1>3 DEF ConfigStrong, Types
<1>5. ~mishap.overtaken => SectionsOf(sites, known') /\ editing'.sections \subseteq known'
  BY <1>1, <1>3 DEF ConfigStrong, SectionsOf
<1>6. Adding(sites, editing')
  BY <1>3 DEF ConfigStrong, Adding
<1> QED BY <1>1, <1>4, <1>5, <1>6 DEF ConfigStrong

LEMMA CancelStrong ==
  ASSUME ConfigStrong, ~mishap.names, aspect' = aspect, EditCancel
  PROVE  ConfigStrong'
<1>1. editing' = NotEditing /\ known' = known /\ ConfigBecomes(sites)
  BY DEF EditCancel
<1>2. editing' \in EditRec /\ editing'.sections \subseteq known /\ Adding(sites, editing')
  BY <1>1 DEF NotEditing, EditRec, Adding
<1>3. Becoming(sites)
  BY <1>1, <1>2, UnchangedBecoming
<1> QED BY <1>1, <1>3, StepStrong DEF ConfigStrong

LEMMA DoneStrong ==
  ASSUME ConfigStrong, ~mishap.names, aspect' = aspect, NEW b, BodyRec(b), EditDone(b)
  PROVE  ConfigStrong'
<1> DEFINE o == editing.site
           s == sites.object[o]
           base == [s EXCEPT !.sections = editing.sections]
           field == Apply(base, b)
           q == setMaxDnPre(field, editing.pre)
           M == IF editing.add THEN sites.managed \cup {o} ELSE sites.managed
           t == [sites EXCEPT !.object[o] = q, !.managed = IF editing.add THEN @ \cup {o} ELSE @]
<1>1. /\ Types /\ sites \in SitesRec /\ Adding(sites, editing) /\ sites.managed \subseteq Objects /\ Excepted(sites)
      /\ \A x \in Objects : sites.object[x] \in SiteObject /\ Tight(sites.object[x])
      /\ ~mishap.overtaken => SectionsOf(sites, known) /\ editing.sections \subseteq known
  BY Now
<1>2. editing \in EditRec /\ o \in Objects /\ editing' = NotEditing /\ known' = known /\ b.sections = {}
  BY <1>1 DEF EditDone, Types, EditRec
<1>3. \E sources, targets : ConfigBecomes(Carry(t, o, sources, targets))
  BY DEF EditDone
<1>4. s \in SiteObject /\ Tight(s) /\ editing.sections \in SUBSET SectionNames /\ editing.pre \in Int
  BY <1>1, <1>2 DEF EditRec
<1> HIDE DEF s
<1>5. base \in SiteObject /\ Tight(base) /\ base.sections = editing.sections
      /\ base.exceptsource = s.exceptsource /\ base.excepttarget = s.excepttarget
  BY <1>4 DEF SiteObject, Tight
<1> HIDE DEF base
<1>6. /\ field \in SiteObject /\ Tight(field) /\ field.loose
      /\ field.exceptsource = base.exceptsource /\ field.excepttarget = base.excepttarget
      /\ field.sections \subseteq base.sections \cup (IF Reads(b, "sections") THEN UNION b.sections ELSE {})
  BY <1>5, ApplyShape
<1> HIDE DEF field
<1>7. /\ q \in SiteObject /\ Tight(q) /\ q.loose /\ q.sections \subseteq editing.sections
      /\ q.exceptsource = s.exceptsource /\ q.excepttarget = s.excepttarget
  BY <1>2, <1>4, <1>5, <1>6, SettersTight DEF SameLinks
<1> HIDE DEF q
<1>8. /\ t \in SitesRec /\ t.managed = M /\ t.logics = sites.logics /\ t.object[o] = q
      /\ \A x \in Objects \ {o} : t.object[x] = sites.object[x] /\ t.conns[x] = sites.conns[x]
  <2> DEFINE O == [sites.object EXCEPT ![o] = q]
  <2>1. /\ O \in [Objects -> SiteObject] /\ O[o] = q /\ \A x \in Objects \ {o} : O[x] = sites.object[x]
        /\ M \in SUBSET Objects
    BY <1>1, <1>2, <1>7 DEF SitesRec
  <2>2. t = [sites EXCEPT !.object = O, !.managed = M]
    OBVIOUS
  <2> HIDE DEF t, O, M
  <2> QED BY <1>1, <2>1, <2>2 DEF SitesRec
<1>9. o \in M => q.exceptsource \subseteq M /\ q.excepttarget \subseteq M
  BY <1>1, <1>7 DEF Excepted, Adding, s
<1> HIDE DEF t
<1>10. Loosened(sites, t, o)
  BY <1>7, <1>8, <1>9 DEF Loosened
<1>11. known' \in SUBSET SectionNames /\ editing' \in EditRec /\ Adding(t, editing') /\ editing'.sections = {}
  BY <1>1, <1>2 DEF Types, NotEditing, EditRec, Adding
<1>12. ~mishap.overtaken => /\ known \subseteq known' /\ editing'.sections \subseteq known'
                            /\ o \in t.managed => t.object[o].sections \subseteq known'
  BY <1>1, <1>2, <1>7, <1>8, <1>11
<1>13. Becoming(t)
  BY <1>2, <1>10, <1>11, <1>12, LoosenedBecoming
<1>14. PICK sources, targets : ConfigBecomes(Carry(t, o, sources, targets))
  BY <1>3
<1> DEFINE v == Carry(t, o, sources, targets)
<1>15. Becoming(v)
  BY <1>2, <1>13, CarriedBecoming
<1>16. ConfigBecomes(v)
  BY <1>14
<1> HIDE DEF v
<1> QED BY <1>1, <1>15, <1>16, StepStrong

-----------------------------------------------------------------------------
LEMMA InitStrong == ASSUME ConfigInit PROVE ConfigStrong
<1> DEFINE n == CHOOSE x \in SiteNames : TRUE
<1>1. n \in SiteNames
  BY SiteConfigAssumption
<1> HIDE DEF n
<1>2. /\ NewSite(n) \in SiteObject /\ Tight(NewSite(n))
  BY <1>1, NewSiteShape
<1>3. /\ aspect \in Aspects /\ known = {} /\ editing = NotEditing
      /\ mishap = [names |-> FALSE, overtaken |-> FALSE, leftover |-> FALSE]
      /\ sites = [managed |-> {}, object |-> [o \in Objects |-> NewSite(n)], logics |-> << >>,
                  conns |-> [o \in Objects |-> 0]]
  BY DEF ConfigInit, n
<1>4. /\ sites \in SitesRec /\ sites.managed = {} /\ sites.logics = << >>
      /\ \A o \in Objects : sites.object[o] = NewSite(n)
  BY <1>2, <1>3 DEF SitesRec
<1>5. /\ editing \in EditRec /\ editing.sections = {} /\ editing.add = FALSE
      /\ mishap \in MishapRec
  BY <1>3 DEF NotEditing, EditRec, MishapRec
<1>6. Types
  BY <1>3, <1>4, <1>5 DEF Types
<1>7. Excepted(sites) /\ AllTight(sites) /\ Pairs(sites) /\ OwnNames(sites) /\ LogicsManaged(sites) /\ Connected(sites)
      /\ SectionsOf(sites, known)
  BY <1>2, <1>4 DEF Excepted, AllTight, Pairs, OwnNames, LogicsManaged, Connected, SectionsOf
<1> QED BY <1>5, <1>6, <1>7 DEF ConfigStrong, Sound, Served, Adding

LEMMA NextStrong == ASSUME ConfigStrong, ConfigNext PROVE ConfigStrong'
<1>1. ~mishap.names /\ aspect' = aspect /\ \A b \in Body : BodyRec(b)
  BY BodyShape DEF ConfigNext, ConfigStrong, Types
<1>2. CASE RestChanges
  <2>1. ASSUME NEW o \in Objects, handleSiteDelete(o) PROVE ConfigStrong'
    BY <1>1, <2>1, DeleteStrong
  <2>2. ASSUME NEW o \in Objects, NEW b \in Body, handleSitesPost(o, b) \/ handleSitePatch(o, b) PROVE ConfigStrong'
    BY <1>1, <2>2, PostStrong, PatchStrong
  <2>3. ASSUME NEW x \in SectionNames,
               \/ handleSectionPost(x) \/ removeSection(x)
               \/ \E y \in SectionNames : replaceSection(x, y)
               \/ \E o \in Objects : handleSiteSectionPost(o, x) \/ handleSiteSectionDelete(o, x)
        PROVE  ConfigStrong'
    BY <1>1, <2>3, SectionPostStrong, RemoveStrong, ReplaceStrong, SiteSectionStrong
  <2> QED BY <1>2, <2>1, <2>2, <2>3 DEF RestChanges
<1>3. CASE UiChanges
  <2>1. ASSUME NEW o \in Objects, EditSite(o) \/ DeleteSite(o) PROVE ConfigStrong'
    BY <1>1, <2>1, EditStrong, DeleteStrong
  <2>2. ASSUME NEW o \in Objects, NEW n \in SiteNames, AddSite(o, n) \/ \E c \in Objects : CopySite(o, c, n)
        PROVE  ConfigStrong'
    BY <1>1, <2>2, AddStrong, CopyStrong
  <2>3. CASE EditCancel
    BY <1>1, <2>3, CancelStrong
  <2>4. ASSUME NEW S \in SUBSET SectionNames, EditSections(S) PROVE ConfigStrong'
    BY <1>1, <2>4, SectionsStrong
  <2>5. ASSUME NEW b \in Body, EditDone(b) PROVE ConfigStrong'
    BY <1>1, <2>5, DoneStrong
  <2> QED BY <1>3, <2>1, <2>2, <2>3, <2>4, <2>5 DEF UiChanges
<1> QED BY <1>2, <1>3 DEF ConfigNext

\* The sites, sections and slots stay consistent in every state, for any number of Site
\* objects, names, sections and numbers of slots (SiteManager, SectionManager,
\* SiteLogicManager, changed by the screens and by the HTTPS interface).
THEOREM ConfigCorrect == ConfigSpec => []ConfigInv
<1>1. ConfigInit => ConfigStrong
  BY InitStrong
<1>2. ConfigStrong /\ [ConfigNext]_configVars => ConfigStrong'
  <2>1. CASE ConfigNext
    BY <2>1, NextStrong
  <2>2. CASE UNCHANGED configVars
    BY <2>2 DEF configVars, ConfigStrong, Types
  <2> QED BY <2>1, <2>2
<1>3. ConfigStrong => ConfigInv
  BY StrongInv
<1> QED BY <1>1, <1>2, <1>3, PTL DEF ConfigSpec

-----------------------------------------------------------------------------
(* Ui *)

\* Which window may lie below which: Level rises from below to above, but for the
\* screens that may be there twice, and nothing lies on top of a question.
Status == {"RaceStatus", "SiteStatus", "AllSpreadJobs"}
Level(w) ==
  IF w = "Login" THEN 0 ELSE IF w = "Main" THEN 1 ELSE IF w \in Status THEN 2
  ELSE IF w = "AllTransferJobs" THEN 3 ELSE IF w = "TransferJobStatus" THEN 4
  ELSE IF w \in {"Browse", "EditSite", "GlobalOptions"} THEN 5
  ELSE IF w \in {"SiteSections", "Transfers"} THEN 6
  ELSE IF w \in {"EditSiteSection", "TransfersFilter", "SpreadJobsFilter", "TransferJobsFilter", "ProxyOptions"} THEN 7
  ELSE IF w = "Sections" THEN 8 ELSE IF w = "EditSection" THEN 9
  ELSE IF w \in {"Confirmation", "SelectSites"} THEN 11 ELSE IF w = "KeyBinds" THEN 12 ELSE 10

Below(v, w) ==
  /\ v # "Confirmation"
  /\ \/ Level(v) < Level(w)
     \/ v \in Status /\ w \in Status
     \/ v = "KeyBinds" /\ w = "KeyBinds"

\* A stack of windows S, from the bottom.
StackOK(S) ==
  /\ S \in Seq(Window) /\ Len(S) >= 1
  /\ \A i, j \in 1..Len(S) : i < j => Below(S[i], S[j])
  /\ S[1] \in {"Login", "Main"}
  /\ Len(S) >= 2 /\ S[1] = "Login" => S[2] = "Main"
  /\ \A i \in 1..(Len(S) - 1) : S[i] = "RaceStatus" => S[i + 1] \notin {"SelectJobs", "Sections"}

\* Window w may be open while the data file is in state d.
RightData(w, d) ==
  /\ w = "NewKey" => d = "EXISTS_PLAIN"
  /\ w \in {"ChangeKey", "DisableEncryption"} => d = "EXISTS_DECRYPTED"
  /\ w # "Login" => d # "EXISTS_ENCRYPTED"
FitsAll(S, d) == \A i \in 1..Len(S) : RightData(S[i], d)

Watchers == {"EventLog", "RawData", "RawCommand"}
Watching(S, W, c) ==
  /\ \A b \in W : \E i \in 1..Len(S) : S[i] \in Watchers /\ b = Buffer(S[i], c)
  /\ \A i \in 1..Len(S) : S[i] \in {"EventLog", "RawData"} => Buffer(S[i], c) \in W

\* What is asked is what the answer will be about.
RaceQuestions == {"removeSite", "removeSiteDeleteOwn", "removeSiteDeleteAll", "abortRace",
                  "deleteOwnIncomplete", "deleteOwnAll", "removeSiteFromAll"}
Asking(dl) == dl.mode \in {"NORMAL", "STRONG"}
Pending(S, dl, a) ==
  /\ a["RaceStatus"] # {} =>
       Len(S) >= 2 /\ S[Len(S)] = "Confirmation" /\ S[Len(S) - 1] = "RaceStatus" /\ Asking(dl)
  /\ Len(S) >= 2 /\ S[Len(S)] = "Confirmation" /\ Asking(dl) =>
       /\ S[Len(S) - 1] = "RaceStatus" => a["RaceStatus"] = {dl.about} /\ dl.about \in RaceQuestions
       /\ Keeper(S[Len(S) - 1]) = "other" => a["other"] = {dl.about}
  /\ \A i \in 1..(Len(S) - 1) : S[i] = "RaceStatus" /\ S[i + 1] = "SelectSites" =>
       dl.mode = "SELECT" /\ a["select"] = {dl.about}

FrameOK(f) ==
  /\ f.main = f.rows - (IF f.info THEN 2 ELSE 0) - (IF f.legend THEN 2 ELSE 0)
  /\ f.legend => f.mode # "DISABLED"
\* Window w draws in a frame f with the height the windows know, and the bars are there.
Framed(w, h, f) ==
  w # "Login" =>
    /\ h["listed"] = f.main
    /\ ~f.full => f.info /\ (f.legend <=> f.mode # "DISABLED")

UiRec == [top : Window, history : Seq(Window), split : BOOLEAN, height : [HeightKeys -> Int]]
FrameRec == [rows : Rows, main : Int, info : BOOLEAN, legend : BOOLEAN, mode : LegendModes, full : BOOLEAN]
DialogRec == [mode : {None, "INFO", "NORMAL", "STRONG", "SELECT"}, about : Questions \cup SelectModes \cup {None}, step : 0..2]
AskedRec == [{"Main", "AllSpreadJobs", "RaceStatus", "select", "other"} -> SUBSET (Questions \cup SelectModes)]

UiShape ==
  /\ ui \in UiRec /\ frame \in FrameRec /\ dialog \in DialogRec /\ asked \in AskedRec
  /\ browse \in [opened : BOOLEAN, split : BOOLEAN]
  /\ sections \in {"EDIT", "SELECT"} /\ connid \in {0, 1} /\ watched \subseteq Buffers
  /\ data \in DataFileStates /\ did \in Questions \cup SelectModes \cup {None}

UiStrong ==
  /\ UiShape
  /\ StackOK(Stack) /\ FitsAll(Stack, data) /\ Watching(Stack, watched, connid) /\ Pending(Stack, dialog, asked)
  /\ FrameOK(frame) /\ Framed(ui.top, ui.height, frame)
  /\ ui.split <=> ui.top = "Browse" /\ browse.split

LEMMA StackIs ==
  ASSUME NEW u \in UiRec
  PROVE  LET S == Append(u.history, u.top)
         IN  /\ S \in Seq(Window) /\ Len(S) = Len(u.history) + 1 /\ Len(u.history) \in Nat
             /\ S[Len(S)] = u.top /\ \A i \in 1..Len(u.history) : S[i] = u.history[i]
<1>1. u.history \in Seq(Window) /\ u.top \in Window
  BY DEF UiRec
<1> QED BY <1>1

LEMMA UiStrongInv == ASSUME UiStrong PROVE UiInv
<1>1. /\ Stack \in Seq(Window) /\ Len(Stack) = Len(ui.history) + 1 /\ Len(ui.history) \in Nat
      /\ Stack[Len(Stack)] = ui.top /\ \A i \in 1..Len(ui.history) : Stack[i] = ui.history[i]
      /\ DOMAIN Stack = 1..Len(Stack) /\ ui.history \in Seq(Window)
  <2>1. ui \in UiRec
    BY DEF UiStrong, UiShape
  <2> QED BY <2>1, StackIs DEF Stack, UiRec
<1>2. StackOK(Stack)
  BY DEF UiStrong
<1> HIDE DEF Stack
<1>3. UiTypeOK
  BY DEF UiStrong, UiShape, UiRec, FrameRec, DialogRec, AskedRec, UiTypeOK
<1>4. ReturnPossible
  <2>1. ui.top \in Window
    BY DEF UiStrong, UiShape, UiRec
  <2>2. ui.top # None
    BY <2>1 DEF None, Window, mainwindows, Unlisted
  <2>3. ui.history = << >> => ui.top \in {"Login", "Main"}
    BY <1>1, <1>2 DEF StackOK
  <2>4. ASSUME NEW i \in DOMAIN Stack, Stack[i] = "Main" PROVE i = 1 \/ (i = 2 /\ Stack[1] = "Login")
    <3>1. i \in 1..Len(Stack) /\ 1 \in 1..Len(Stack)
      BY <1>1
    <3>2. CASE i > 1
      <4>1. Below(Stack[1], "Main")
        BY <1>2, <2>4, <3>1, <3>2 DEF StackOK
      <4>2. Stack[1] = "Login"
        BY <1>2, <4>1 DEF StackOK, Below, Level, Status
      <4>3. CASE i > 2
        <5>1. Stack[2] = "Main" /\ Below(Stack[2], Stack[i])
          BY <1>1, <1>2, <3>1, <4>2, <4>3 DEF StackOK
        <5> QED BY <2>4, <5>1 DEF Below, Level, Status
      <4> QED BY <3>1, <3>2, <4>2, <4>3
    <3> QED BY <3>1, <3>2
  <2> QED BY <2>2, <2>3, <2>4 DEF ReturnPossible
<1>5. FormsOnce
  <2> SUFFICES ASSUME NEW i \in DOMAIN Stack, NEW j \in DOMAIN Stack, Stack[i] = Stack[j], i # j
               PROVE  Stack[i] \in {"RaceStatus", "SiteStatus", "AllSpreadJobs", "KeyBinds"}
    BY DEF FormsOnce
  <2>1. i \in 1..Len(Stack) /\ j \in 1..Len(Stack)
    BY <1>1
  <2>2. Below(Stack[i], Stack[i])
    BY <1>2, <2>1 DEF StackOK
  <2>3. ~(Level(Stack[i]) < Level(Stack[i]))
    BY DEF Level
  <2> QED BY <2>2, <2>3 DEF Below, Status
<1>6. Layout
  <2>1. ui.top \in mainwindows => ui.top # "Login"
    BY DEF mainwindows
  <2> QED BY <2>1 DEF UiStrong, FrameOK, Framed, Layout
<1>7. BarsShown /\ SplitShown
  BY DEF UiStrong, Framed, BarsShown, SplitShown
<1>8. WatchedOpen
  BY <1>1 DEF UiStrong, Watching, WatchedOpen
<1>9. EncryptionScreens
  BY <1>1 DEF UiStrong, FitsAll, RightData, EncryptionScreens
<1> QED BY <1>3, <1>4, <1>5, <1>6, <1>7, <1>8, <1>9 DEF UiInv

-----------------------------------------------------------------------------
\* Stacks

LEMMA BelowTrans ==
  ASSUME NEW u, NEW v, NEW w, Below(u, v), Below(v, w)
  PROVE  Below(u, w)
<1>1. Level(u) \in Nat /\ Level(v) \in Nat /\ Level(w) \in Nat
  BY DEF Level
<1>2. \A x \in Status : Level(x) = 2
  BY DEF Level, Status
<1>3. "KeyBinds" \notin Status
  BY DEF Status
<1> HIDE DEF Level, Status
<1> QED BY <1>1, <1>2, <1>3 DEF Below

LEMMA PushStack ==
  ASSUME NEW S, StackOK(S), NEW w \in Window, Below(S[Len(S)], w),
         S[Len(S)] = "Login" => w = "Main",
         S[Len(S)] = "RaceStatus" => w \notin {"SelectJobs", "Sections"}
  PROVE  StackOK(Append(S, w))
<1> DEFINE T == Append(S, w)
           n == Len(S)
<1>1. S \in Seq(Window) /\ n \in Nat /\ n >= 1
  BY DEF StackOK
<1>2. /\ T \in Seq(Window) /\ Len(T) = n + 1 /\ T[n + 1] = w
      /\ \A i \in 1..n : T[i] = S[i]
  BY <1>1
<1> HIDE DEF T
<1>3. ASSUME NEW i \in 1..(n + 1), NEW j \in 1..(n + 1), i < j PROVE Below(T[i], T[j])
  <2>1. i \in 1..n /\ T[i] = S[i]
    BY <1>1, <1>2, <1>3
  <2>2. CASE j \in 1..n
    BY <1>2, <1>3, <2>1, <2>2 DEF StackOK
  <2>3. CASE j = n + 1
    <3>1. CASE i = n
      BY <1>2, <2>1, <2>3, <3>1
    <3>2. CASE i < n
      <4>1. Below(S[i], S[n])
        BY <1>1, <2>1, <3>2 DEF StackOK
      <4>2. Below(S[i], w)
        BY <4>1, BelowTrans
      <4> QED BY <1>2, <2>1, <2>3, <4>2
    <3> QED BY <1>1, <2>1, <3>1, <3>2
  <2> QED BY <1>1, <1>3, <2>2, <2>3
<1>4. T[1] \in {"Login", "Main"}
  BY <1>1, <1>2 DEF StackOK
<1>5. T[1] = "Login" => T[2] = "Main"
  <2>1. CASE n = 1
    BY <1>1, <1>2, <2>1
  <2>2. CASE n > 1
    <3>1. T[1] = S[1] /\ T[2] = S[2] /\ Len(S) >= 2
      BY <1>1, <1>2, <2>2
    <3>2. S[1] = "Login" => S[2] = "Main"
      BY <3>1 DEF StackOK
    <3> QED BY <3>1, <3>2
  <2>3. n = 1 \/ n > 1
    <3> HIDE DEF n
    <3> QED BY ONLY <1>1
  <2> QED BY ONLY <2>1, <2>2, <2>3
<1>6. ASSUME NEW i \in 1..n, T[i] = "RaceStatus" PROVE T[i + 1] \notin {"SelectJobs", "Sections"}
  <2>1. CASE i = n
    BY <1>2, <1>6, <2>1
  <2>2. CASE i < n
    <3>1. i \in 1..(Len(S) - 1) /\ T[i] = S[i] /\ T[i + 1] = S[i + 1]
      BY <1>1, <1>2, <2>2
    <3> QED BY <1>6, <3>1 DEF StackOK
  <2> QED BY <1>1, <2>1, <2>2
<1>7. StackOK(T)
  BY <1>1, <1>2, <1>3, <1>4, <1>5, <1>6 DEF StackOK
<1> QED BY <1>7 DEF T

\* T is S without its top.
Popped(S, T) ==
  /\ T \in Seq(Window) /\ Len(S) = Len(T) + 1 /\ \A i \in 1..Len(T) : T[i] = S[i]

LEMMA PopStack ==
  ASSUME NEW S, StackOK(S), NEW T, Popped(S, T), S[Len(S)] \notin {"Login", "Main"}
  PROVE  StackOK(T) /\ T[Len(T)] \in Window /\ T[Len(T)] = S[Len(S) - 1] /\ Len(T) >= 1
<1>1. S \in Seq(Window) /\ Len(S) \in Nat /\ Len(S) >= 1 /\ T \in Seq(Window) /\ Len(T) \in Nat /\ Len(S) = Len(T) + 1
  BY DEF StackOK, Popped
<1>2. Len(T) >= 1
  <2>1. Len(S) # 1
    BY DEF StackOK
  <2> QED BY <1>1, <2>1
<1>3. \A i \in 1..Len(T) : T[i] = S[i] /\ i \in 1..Len(S)
  BY <1>1 DEF Popped
<1>4. \A i, j \in 1..Len(T) : i < j => Below(T[i], T[j])
  BY <1>3 DEF StackOK
<1>5. T[1] \in {"Login", "Main"} /\ (Len(T) >= 2 /\ T[1] = "Login" => T[2] = "Main")
  BY <1>1, <1>2, <1>3 DEF StackOK
<1>6. \A i \in 1..(Len(T) - 1) : i \in 1..(Len(S) - 1) /\ T[i] = S[i] /\ T[i + 1] = S[i + 1]
  BY <1>1, <1>3
<1>7. \A i \in 1..(Len(T) - 1) : T[i] = "RaceStatus" => T[i + 1] \notin {"SelectJobs", "Sections"}
  BY <1>6 DEF StackOK
<1>8. StackOK(T)
  BY <1>1, <1>2, <1>4, <1>5, <1>7 DEF StackOK
<1> QED BY <1>1, <1>2, <1>3, <1>8

\* What a step of the stack keeps, part by part.
LEMMA FitsPush ==
  ASSUME NEW S \in Seq(Window), NEW w \in Window, NEW d, FitsAll(S, d), RightData(w, d)
  PROVE  FitsAll(Append(S, w), d)
<1>1. ASSUME NEW i \in 1..Len(Append(S, w)) PROVE RightData(Append(S, w)[i], d)
  <2>1. CASE i \in 1..Len(S)
    <3>1. Append(S, w)[i] = S[i]
      BY <2>1
    <3> QED BY <2>1, <3>1 DEF FitsAll
  <2>2. CASE i = Len(S) + 1
    BY <2>2
  <2> QED BY <2>1, <2>2
<1> QED BY <1>1 DEF FitsAll

LEMMA FitsPop ==
  ASSUME NEW S \in Seq(Window), NEW T, NEW d, FitsAll(S, d), Popped(S, T)
  PROVE  FitsAll(T, d)
BY DEF FitsAll, Popped

LEMMA WatchPush ==
  ASSUME NEW S \in Seq(Window), NEW w \in Window \ {"EventLog", "RawData"}, NEW W, NEW c, Watching(S, W, c)
  PROVE  Watching(Append(S, w), W, c)
<1> DEFINE T == Append(S, w)
<1>1. Len(S) \in Nat /\ Len(T) = Len(S) + 1 /\ T[Len(S) + 1] = w /\ \A i \in 1..Len(S) : T[i] = S[i]
  OBVIOUS
<1> HIDE DEF T
<1>2. \A b \in W : \E i \in 1..Len(T) : T[i] \in Watchers /\ b = Buffer(T[i], c)
  <2> SUFFICES ASSUME NEW b \in W PROVE \E i \in 1..Len(T) : T[i] \in Watchers /\ b = Buffer(T[i], c)
    OBVIOUS
  <2>1. PICK i \in 1..Len(S) : S[i] \in Watchers /\ b = Buffer(S[i], c)
    BY DEF Watching
  <2>2. i \in 1..Len(T) /\ T[i] = S[i]
    BY <1>1
  <2> QED BY <2>1, <2>2
<1>3. \A i \in 1..Len(T) : T[i] \in {"EventLog", "RawData"} => i \in 1..Len(S) /\ T[i] = S[i]
  BY <1>1
<1>4. Watching(T, W, c)
  BY <1>2, <1>3 DEF Watching
<1> QED BY <1>4 DEF T

LEMMA WatchPop ==
  ASSUME NEW S \in Seq(Window), NEW T, NEW W, NEW c, Watching(S, W, c), Popped(S, T), S[Len(S)] \notin Watchers
  PROVE  Watching(T, W, c)
<1>1. Len(T) \in Nat /\ Len(S) = Len(T) + 1 /\ \A i \in 1..Len(T) : T[i] = S[i] /\ i \in 1..Len(S)
  BY DEF Popped
<1>2. \A b \in W : \E i \in 1..Len(T) : T[i] \in Watchers /\ b = Buffer(T[i], c)
  <2> SUFFICES ASSUME NEW b \in W PROVE \E i \in 1..Len(T) : T[i] \in Watchers /\ b = Buffer(T[i], c)
    OBVIOUS
  <2>1. PICK i \in 1..Len(S) : S[i] \in Watchers /\ b = Buffer(S[i], c)
    BY DEF Watching
  <2>2. i \in 1..Len(T) /\ T[i] = S[i]
    BY <1>1, <2>1
  <2> QED BY <2>1, <2>2
<1>3. \A i \in 1..Len(T) : S[i] \in {"EventLog", "RawData"} => Buffer(S[i], c) \in W
  BY <1>1 DEF Watching
<1> QED BY <1>1, <1>2, <1>3 DEF Watching

\* Below a window of a level there is none of that level, the status screens
\* and the key binds aside.
LEMMA LevelsBelow ==
  ASSUME NEW S, StackOK(S), NEW i \in 1..(Len(S) - 1), S[Len(S)] \notin Status, S[Len(S)] # "KeyBinds"
  PROVE  Level(S[i]) < Level(S[Len(S)]) /\ S[i] # "Confirmation"
<1>1. Len(S) \in Nat /\ i \in 1..Len(S) /\ Len(S) \in 1..Len(S) /\ i < Len(S)
  BY DEF StackOK
<1>2. Below(S[i], S[Len(S)])
  BY <1>1 DEF StackOK
<1> QED BY <1>2 DEF Below

\* At or below a window of which w may be on top there is no window as high as w.
LEMMA LevelsUnder ==
  ASSUME NEW S, StackOK(S), NEW i \in 1..Len(S), NEW w, w \notin Status, w # "KeyBinds", Below(S[Len(S)], w)
  PROVE  Level(S[i]) < Level(w) /\ S[i] # "Confirmation"
<1>1. Len(S) \in Nat /\ Len(S) \in 1..Len(S) /\ (i = Len(S) \/ i < Len(S))
  BY DEF StackOK
<1>2. Below(S[i], w)
  <2>1. CASE i < Len(S)
    <3>1. Below(S[i], S[Len(S)])
      BY <1>1, <2>1 DEF StackOK
    <3> QED BY <3>1, BelowTrans
  <2> QED BY <1>1, <2>1
<1> QED BY <1>2 DEF Below

LEMMA PendPush ==
  ASSUME NEW S, StackOK(S), NEW w \in Window \ {"Confirmation", "SelectSites"}, Below(S[Len(S)], w),
         NEW dl, NEW a, Pending(S, dl, a)
  PROVE  Pending(Append(S, w), dl, a)
<1> DEFINE T == Append(S, w)
<1>1. /\ S \in Seq(Window) /\ Len(S) \in Nat /\ Len(S) >= 1
      /\ Len(T) = Len(S) + 1 /\ T[Len(S) + 1] = w /\ \A i \in 1..Len(S) : T[i] = S[i]
  BY DEF StackOK
<1> HIDE DEF T
<1>2. S[Len(S)] # "Confirmation" /\ a["RaceStatus"] = {}
  BY DEF Below, Pending
<1>3. T[Len(T)] = w
  BY <1>1
<1>4. ASSUME NEW i \in 1..(Len(T) - 1), T[i] = "RaceStatus", T[i + 1] = "SelectSites"
      PROVE  dl.mode = "SELECT" /\ a["select"] = {dl.about}
  <2>1. i # Len(S)
    BY <1>1, <1>4
  <2>2. i \in 1..(Len(S) - 1) /\ S[i] = T[i] /\ S[i + 1] = T[i + 1]
    BY <1>1, <2>1
  <2> QED BY <1>4, <2>2 DEF Pending
<1>5. Pending(T, dl, a)
  BY <1>2, <1>3, <1>4 DEF Pending
<1> QED BY <1>5 DEF T

\* T has neither a question on top nor a selection of sites.
NothingAsked(T) == T[Len(T)] # "Confirmation" /\ \A j \in 1..Len(T) : T[j] # "SelectSites"

LEMMA PendSettled ==
  ASSUME NEW T \in Seq(Window), NothingAsked(T), NEW dl, NEW a, a["RaceStatus"] = {}
  PROVE  Pending(T, dl, a)
<1>1. \A i \in 1..(Len(T) - 1) : i + 1 \in 1..Len(T)
  OBVIOUS
<1> QED BY <1>1 DEF Pending, NothingAsked

LEMMA PendPop ==
  ASSUME NEW S, StackOK(S), NEW T, Popped(S, T), Len(T) >= 1, S[Len(S)] # "Confirmation",
         NEW dl, NEW a, Pending(S, dl, a)
  PROVE  Pending(T, dl, a)
<1>1. /\ S \in Seq(Window) /\ Len(S) \in Nat /\ Len(T) \in Nat /\ Len(S) = Len(T) + 1
      /\ \A i \in 1..Len(T) : T[i] = S[i]
  BY DEF StackOK, Popped
<1>2. a["RaceStatus"] = {}
  BY DEF Pending
<1>3. T[Len(T)] # "Confirmation"
  <2>1. Len(T) \in 1..Len(S) /\ Len(S) \in 1..Len(S) /\ Len(T) < Len(S) /\ T[Len(T)] = S[Len(T)]
    BY <1>1
  <2>2. Below(S[Len(T)], S[Len(S)])
    BY <2>1 DEF StackOK
  <2> QED BY <2>1, <2>2 DEF Below
<1>4. \A i \in 1..(Len(T) - 1) : i \in 1..(Len(S) - 1) /\ T[i] = S[i] /\ T[i + 1] = S[i + 1]
  BY <1>1
<1>5. \A i \in 1..(Len(T) - 1) : T[i] = "RaceStatus" /\ T[i + 1] = "SelectSites" =>
        dl.mode = "SELECT" /\ a["select"] = {dl.about}
  BY <1>4 DEF Pending
<1> QED BY <1>2, <1>3, <1>5 DEF Pending

\* What a question or a selection on top of S must fit.
Questioned(S, dl, a) ==
  /\ a["RaceStatus"] # {} => S[Len(S)] = "RaceStatus" /\ Asking(dl)
  /\ Asking(dl) =>
       /\ S[Len(S)] = "RaceStatus" => a["RaceStatus"] = {dl.about} /\ dl.about \in RaceQuestions
       /\ Keeper(S[Len(S)]) = "other" => a["other"] = {dl.about}

LEMMA PendQuestion ==
  ASSUME NEW S, StackOK(S), Below(S[Len(S)], "Confirmation"), NEW dl, NEW a, Questioned(S, dl, a)
  PROVE  Pending(Append(S, "Confirmation"), dl, a)
<1> DEFINE T == Append(S, "Confirmation")
<1>0. "Confirmation" \in Window
  BY DEF Window, mainwindows
<1>1. /\ S \in Seq(Window) /\ Len(S) \in Nat /\ Len(S) >= 1
      /\ Len(T) = Len(S) + 1 /\ T[Len(S) + 1] = "Confirmation" /\ \A i \in 1..Len(S) : T[i] = S[i]
  BY <1>0 DEF StackOK
<1> HIDE DEF T
<1>2. T[Len(T)] = "Confirmation" /\ T[Len(T) - 1] = S[Len(S)] /\ Len(T) >= 2
  BY <1>1
<1>3. ASSUME NEW j \in 1..Len(T), T[j] = "SelectSites" PROVE FALSE
  <2>1. j \in 1..Len(S) /\ S[j] = "SelectSites"
    BY <1>1, <1>3
  <2>2. Level("SelectSites") < Level("Confirmation")
    BY <2>1, LevelsUnder DEF Status
  <2> QED BY <2>2 DEF Level, Status
<1>4. \A i \in 1..(Len(T) - 1) : i + 1 \in 1..Len(T)
  BY <1>1
<1>5. Pending(T, dl, a)
  BY <1>2, <1>3, <1>4 DEF Pending, Questioned
<1> QED BY <1>5 DEF T

LEMMA PendSelect ==
  ASSUME NEW S, StackOK(S), Below(S[Len(S)], "SelectSites"), NEW dl, NEW a, a["RaceStatus"] = {},
         S[Len(S)] = "RaceStatus" => dl.mode = "SELECT" /\ a["select"] = {dl.about}
  PROVE  Pending(Append(S, "SelectSites"), dl, a)
<1> DEFINE T == Append(S, "SelectSites")
<1>0. "SelectSites" \in Window
  BY DEF Window, mainwindows
<1>1. /\ S \in Seq(Window) /\ Len(S) \in Nat /\ Len(S) >= 1
      /\ Len(T) = Len(S) + 1 /\ T[Len(S) + 1] = "SelectSites" /\ \A i \in 1..Len(S) : T[i] = S[i]
  BY <1>0 DEF StackOK
<1> HIDE DEF T
<1>2. T[Len(T)] = "SelectSites"
  BY <1>1
<1>3. ASSUME NEW i \in 1..(Len(T) - 1), T[i] = "RaceStatus", T[i + 1] = "SelectSites"
      PROVE  dl.mode = "SELECT" /\ a["select"] = {dl.about}
  <2>1. CASE i = Len(S)
    BY <1>1, <1>3, <2>1
  <2>2. CASE i # Len(S)
    <3>1. i + 1 \in 1..Len(S) /\ S[i + 1] = "SelectSites"
      BY <1>1, <1>3, <2>2
    <3>2. Level("SelectSites") < Level("SelectSites")
      BY <3>1, LevelsUnder DEF Status
    <3> QED BY <3>2 DEF Level, Status
  <2> QED BY <2>1, <2>2
<1>4. Pending(T, dl, a)
  BY <1>2, <1>3 DEF Pending
<1> QED BY <1>4 DEF T

-----------------------------------------------------------------------------
\* The record of the interface

LEMMA KeyIs ==
  /\ "listed" \in HeightKeys
  /\ \A w \in Window : HeightKey(w) \in HeightKeys /\ (HeightKey(w) = "listed" <=> w \notin Unlisted)
<1>1. "listed" \notin Unlisted
  BY DEF Unlisted
<1> QED BY <1>1 DEF HeightKeys, HeightKey

LEMMA InitializedIs ==
  ASSUME NEW u \in UiRec, NEW w \in Window, frame \in FrameRec,
         NEW v, v = Initialized(u, w)
  PROVE  /\ v \in UiRec /\ v.top = u.top /\ v.history = u.history /\ v.split = u.split
         /\ u.height["listed"] = frame.main => v.height["listed"] = frame.main
<1>1. frame.main \in Int /\ HeightKey(w) \in HeightKeys /\ "listed" \in HeightKeys
  BY KeyIs DEF FrameRec
<1> QED BY <1>1 DEF Initialized, UiRec

LEMMA SwitchIs ==
  ASSUME NEW u \in UiRec, NEW w \in Window, NEW allow \in BOOLEAN,
         NEW v, v = switchToWindow(u, w, allow)
  PROVE  /\ v \in UiRec /\ v.top = w /\ v.history = Append(u.history, u.top)
         /\ v.split = (u.split /\ allow) /\ v.height = u.height
<1>1. Append(u.history, u.top) \in Seq(Window)
  BY DEF UiRec
<1> QED BY <1>1 DEF switchToWindow, UiRec

LEMMA LastIs ==
  ASSUME NEW u \in UiRec, u.history # << >>, NEW v, v = switchToLast(u)
  PROVE  /\ v \in UiRec /\ Append(v.history, v.top) = u.history /\ v.split = FALSE
         /\ v.top = u.history[Len(u.history)]
         /\ v.height["listed"] = u.height["listed"]
<1> DEFINE h == u.history
<1>1. h \in Seq(Window) /\ Len(h) \in Nat /\ Len(h) >= 1 /\ u.top \in Window
  BY EmptySeq DEF UiRec
<1>2. h[Len(h)] \in Window /\ SubSeq(h, 1, Len(h) - 1) \in Seq(Window)
  BY <1>1
<1>3. Append(SubSeq(h, 1, Len(h) - 1), h[Len(h)]) = h
  BY <1>1
<1>4. v.top = h[Len(h)] /\ v.history = SubSeq(h, 1, Len(h) - 1) /\ v.split = FALSE
  BY DEF switchToLast, UiRec
<1>5. v.height = [u.height EXCEPT ![HeightKey(u.top)] = IF u.top \in Unlisted THEN 0 ELSE @]
  BY DEF switchToLast, UiRec
<1>6. v.height \in [HeightKeys -> Int] /\ v.height["listed"] = u.height["listed"]
  BY <1>1, <1>5, KeyIs DEF UiRec
<1>7. v \in UiRec
  BY <1>2, <1>4, <1>6 DEF switchToLast, UiRec
<1> QED BY <1>3, <1>4, <1>6, <1>7

LEMMA DrawnIs ==
  ASSUME NEW u \in UiRec, browse.split \in BOOLEAN, NEW v, v = Drawn(u)
  PROVE  /\ v \in UiRec /\ v.top = u.top /\ v.history = u.history /\ v.height = u.height
         /\ u.split = FALSE => (v.split <=> v.top = "Browse" /\ browse.split)
BY DEF Drawn, UiRec

LEMMA RedrawnIs ==
  ASSUME NEW u \in UiRec, NEW f \in FrameRec, NEW v, v = redrawAll(u, f)
  PROVE  /\ v \in UiRec /\ v.top = u.top /\ v.history = u.history /\ v.split = u.split
         /\ v.height["listed"] = f.main
<1>1. f.main \in Int /\ "listed" \in HeightKeys
  BY KeyIs DEF FrameRec
<1>2. v.height = [k \in HeightKeys |-> IF k \in {"listed", HeightKey(u.top)} THEN f.main ELSE u.height[k]]
  BY DEF redrawAll, UiRec
<1>3. v.height \in [HeightKeys -> Int] /\ v.height["listed"] = f.main
  BY <1>1, <1>2 DEF UiRec
<1> QED BY <1>3 DEF redrawAll, UiRec

-----------------------------------------------------------------------------
\* The frame

\* The bars are there as they are outside full screen.
Barred(f) == f.info /\ (f.legend <=> f.mode # "DISABLED")

LEMMA RowsInt == ASSUME NEW f \in FrameRec PROVE f.rows \in Int
<1>1. f.rows \in Rows
  BY DEF FrameRec
<1>2. Rows \subseteq Nat
  BY RowsAssumption
<1>3. f.rows \in Nat
  BY <1>1, <1>2
<1> QED BY <1>3

LEMMA MainInt == ASSUME NEW f \in FrameRec PROVE f.main + 2 \in Int /\ f.main - 2 \in Int
<1>1. f.main \in Int
  BY DEF FrameRec
<1> QED BY <1>1

LEMMA FrameInfo ==
  ASSUME NEW f \in FrameRec, FrameOK(f)
  PROVE  /\ enableInfo(f) \in FrameRec /\ FrameOK(enableInfo(f)) /\ enableInfo(f).info
         /\ enableInfo(f).full = f.full /\ enableInfo(f).mode = f.mode
         /\ disableInfo(f) \in FrameRec /\ FrameOK(disableInfo(f)) /\ disableInfo(f).full = f.full
         /\ disableInfo(f).mode = f.mode
<1>1. f.rows \in Int
  BY RowsInt
<1>2. CASE f.info
  <2>1. enableInfo(f) = f
    BY <1>2 DEF enableInfo
  <2> DEFINE g == disableInfo(f)
  <2> DEFINE m == f.main + 2
  <2>2. g = [f EXCEPT !.info = FALSE, !.main = m] /\ m \in Int
    BY <1>2, MainInt DEF disableInfo
  <2> HIDE DEF g, m
  <2>3. g \in FrameRec /\ g.main = m /\ g.rows = f.rows /\ g.mode = f.mode /\ g.full = f.full
    BY <2>2 DEF FrameRec
  <2>5. g.info = FALSE /\ g.legend = f.legend
    BY <2>2 DEF FrameRec
  <2>4. FrameOK(g)
    BY <1>1, <1>2, <2>3, <2>5 DEF FrameOK, FrameRec, m
  <2> QED BY <1>2, <2>1, <2>3, <2>4, <2>5 DEF g
<1>3. CASE ~f.info
  <2>1. disableInfo(f) = f
    BY <1>3 DEF disableInfo
  <2> DEFINE g == enableInfo(f)
  <2> DEFINE m == f.main - 2
  <2>2. g = [f EXCEPT !.info = TRUE, !.main = m] /\ m \in Int
    BY <1>3, MainInt DEF enableInfo
  <2> HIDE DEF g, m
  <2>3. g \in FrameRec /\ g.main = m /\ g.rows = f.rows /\ g.mode = f.mode /\ g.full = f.full
    BY <2>2 DEF FrameRec
  <2>5. g.info = TRUE /\ g.legend = f.legend
    BY <2>2 DEF FrameRec
  <2>4. FrameOK(g)
    BY <1>1, <1>3, <2>3, <2>5 DEF FrameOK, FrameRec, m
  <2> QED BY <2>1, <2>3, <2>4, <2>5 DEF g
<1> QED BY <1>2, <1>3

LEMMA FrameLegend ==
  ASSUME NEW f \in FrameRec, FrameOK(f)
  PROVE  /\ enableLegend(f) \in FrameRec /\ FrameOK(enableLegend(f))
         /\ enableLegend(f).info = f.info /\ enableLegend(f).full = f.full /\ enableLegend(f).mode = f.mode
         /\ enableLegend(f).legend <=> f.mode # "DISABLED"
<1>1. f.rows \in Int
  BY RowsInt
<1>2. CASE f.legend \/ f.mode = "DISABLED"
  <2>1. enableLegend(f) = f
    BY <1>2 DEF enableLegend
  <2> QED BY <1>2, <2>1 DEF FrameOK
<1>3. CASE ~(f.legend \/ f.mode = "DISABLED")
  <2> DEFINE g == enableLegend(f)
  <2> DEFINE m == f.main - 2
  <2>2. g = [f EXCEPT !.legend = TRUE, !.main = m] /\ m \in Int
    BY <1>3, MainInt DEF enableLegend
  <2> HIDE DEF g, m
  <2>3. g \in FrameRec /\ g.main = m /\ g.rows = f.rows /\ g.mode = f.mode /\ g.full = f.full
    BY <2>2 DEF FrameRec
  <2>5. g.info = f.info /\ g.legend = TRUE
    BY <2>2 DEF FrameRec
  <2>4. FrameOK(g)
    BY <1>1, <1>3, <2>3, <2>5 DEF FrameOK, FrameRec, m
  <2> QED BY <1>3, <2>3, <2>4, <2>5 DEF g
<1> QED BY <1>2, <1>3

\* Hiding the legend leaves a frame whose mode says nothing of the legend.
LEMMA FrameNoLegend ==
  ASSUME NEW f \in FrameRec, f.main = f.rows - (IF f.info THEN 2 ELSE 0) - (IF f.legend THEN 2 ELSE 0)
  PROVE  /\ disableLegend(f) \in FrameRec /\ FrameOK(disableLegend(f)) /\ disableLegend(f).full = f.full
         /\ disableLegend(f).mode = f.mode /\ disableLegend(f).info = f.info /\ ~disableLegend(f).legend
<1>1. f.rows \in Int
  BY RowsInt
<1>2. CASE ~f.legend
  <2>1. disableLegend(f) = f
    BY <1>2 DEF disableLegend
  <2> QED BY <1>2, <2>1 DEF FrameOK
<1>3. CASE f.legend
  <2> DEFINE g == disableLegend(f)
  <2> DEFINE m == f.main + 2
  <2>2. g = [f EXCEPT !.legend = FALSE, !.main = m] /\ m \in Int
    BY <1>3, MainInt DEF disableLegend
  <2> HIDE DEF g, m
  <2>3. g \in FrameRec /\ g.main = m /\ g.rows = f.rows /\ g.mode = f.mode /\ g.full = f.full
    BY <2>2 DEF FrameRec
  <2>5. g.info = f.info /\ g.legend = FALSE
    BY <2>2 DEF FrameRec
  <2>4. FrameOK(g)
    BY <1>1, <1>3, <2>3, <2>5 DEF FrameOK, FrameRec, m
  <2> QED BY <2>3, <2>4, <2>5 DEF g
<1> QED BY <1>2, <1>3

LEMMA FrameMode ==
  ASSUME NEW f \in FrameRec, FrameOK(f), NEW mode \in LegendModes, mode # f.mode
  PROVE  LET g == setLegendMode(f, mode)
         IN  /\ g \in FrameRec /\ FrameOK(g) /\ g.full = f.full /\ g.mode = mode
             /\ Barred(f) => Barred(g)
<1>1. f.rows \in Int
  BY RowsInt
<1>2. f.mode = "DISABLED" => ~f.legend
  BY DEF FrameOK
<1> DEFINE h == [f EXCEPT !.mode = mode]
<1>3. h \in FrameRec /\ h.mode = mode /\ h.legend = f.legend /\ h.info = f.info /\ h.full = f.full
      /\ h.main = f.main /\ h.rows = f.rows
  BY DEF FrameRec
<1> HIDE DEF h
<1>4. CASE f.mode = "DISABLED"
  <2>1. setLegendMode(f, mode) = enableLegend(h)
    BY <1>4 DEF setLegendMode, h
  <2>2. FrameOK(h)
    BY <1>2, <1>3, <1>4 DEF FrameOK
  <2> QED BY <1>3, <2>1, <2>2, FrameLegend DEF Barred
<1>5. CASE f.mode # "DISABLED" /\ mode = "DISABLED"
  <2>1. setLegendMode(f, mode) = disableLegend(h)
    BY <1>5 DEF setLegendMode, h
  <2>2. h.main = h.rows - (IF h.info THEN 2 ELSE 0) - (IF h.legend THEN 2 ELSE 0)
    BY <1>3 DEF FrameOK
  <2> QED BY <1>3, <1>5, <2>1, <2>2, FrameNoLegend DEF Barred
<1>6. CASE f.mode # "DISABLED" /\ mode # "DISABLED"
  <2>1. setLegendMode(f, mode) = h
    BY <1>6 DEF setLegendMode, h
  <2> QED BY <1>3, <1>6, <2>1 DEF FrameOK, Barred
<1> QED BY <1>4, <1>5, <1>6

-----------------------------------------------------------------------------
\* Opening a window and returning from one

LEMMA StackNow ==
  ASSUME UiStrong
  PROVE  /\ ui \in UiRec /\ Stack \in Seq(Window) /\ Len(Stack) \in Nat /\ Len(Stack) >= 1
         /\ Stack[Len(Stack)] = ui.top /\ ui.top \in Window
         /\ Popped(Stack, ui.history)
         /\ StackOK(Stack) /\ FitsAll(Stack, data)
<1>1. ui \in UiRec
  BY DEF UiStrong, UiShape
<1>2. ui.history \in Seq(Window) /\ ui.top \in Window
  BY <1>1 DEF UiRec
<1> QED BY <1>1, <1>2, StackIs DEF UiStrong, Stack, Popped, StackOK

\* u is the interface with window w opened on top.
OpenedIs(u, w) ==
  u \in UiRec /\ u.top = w /\ u.history = Stack /\ u.height["listed"] = frame.main

\* Window w may be opened on the top one.
MayOpen(w) ==
  /\ w \in Window \ {"Login", "Main"} /\ ui.top # "Login"
  /\ Below(ui.top, w) /\ RightData(w, data)
  /\ ui.top = "RaceStatus" => w \notin {"SelectJobs", "Sections"}

LEMMA OpenIs ==
  ASSUME UiStrong, NEW w, MayOpen(w), NEW u, u = switchToWindow(Initialized(ui, w), w, FALSE)
  PROVE  OpenedIs(u, w) /\ u.split = FALSE
<1> DEFINE v == Initialized(ui, w)
<1>1. ui \in UiRec /\ frame \in FrameRec /\ w \in Window /\ FALSE \in BOOLEAN
  BY DEF UiStrong, UiShape, MayOpen
<1>2. ui.height["listed"] = frame.main
  BY DEF UiStrong, Framed, MayOpen
<1>3. v \in UiRec /\ v.top = ui.top /\ v.history = ui.history /\ v.height["listed"] = frame.main
  BY <1>1, <1>2, InitializedIs
<1>4. u = switchToWindow(v, w, FALSE)
  OBVIOUS
<1> HIDE DEF v
<1>5. u \in UiRec /\ u.top = w /\ u.history = Append(v.history, v.top) /\ u.split = FALSE /\ u.height = v.height
  <2>1. Append(v.history, v.top) \in Seq(Window)
    BY <1>3 DEF UiRec
  <2> QED BY <1>1, <1>3, <1>4, <2>1 DEF switchToWindow, UiRec
<1> QED BY <1>3, <1>5 DEF OpenedIs, Stack

LEMMA Opened ==
  ASSUME UiStrong, NEW w, MayOpen(w), OpenedIs(ui', w), frame' = frame, data' = data
  PROVE  /\ ui' \in UiRec /\ Stack' = Append(Stack, w) /\ StackOK(Stack') /\ FitsAll(Stack', data')
         /\ FrameOK(frame') /\ Framed(ui'.top, ui'.height, frame')
<1>1. ui' \in UiRec /\ ui'.top = w /\ Stack' = Append(Stack, w) /\ ui'.height["listed"] = frame.main
  BY DEF OpenedIs, Stack
<1> DEFINE S == Stack
<1>2. /\ StackOK(S) /\ S \in Seq(Window) /\ S[Len(S)] = ui.top /\ FitsAll(S, data)
  BY StackNow
<1>3. w \in Window /\ Below(ui.top, w) /\ RightData(w, data) /\ (ui.top = "Login" => w = "Main")
      /\ (ui.top = "RaceStatus" => w \notin {"SelectJobs", "Sections"})
  BY DEF MayOpen
<1> HIDE DEF S
<1>4. StackOK(Append(S, w))
  BY <1>2, <1>3, PushStack
<1>5. FitsAll(Append(S, w), data)
  BY <1>2, <1>3, FitsPush
<1>6. FrameOK(frame) /\ Framed(w, ui'.height, frame)
  BY <1>1 DEF UiStrong, Framed, MayOpen
<1> QED BY <1>1, <1>4, <1>5, <1>6 DEF S

\* u is the interface after the return from the top window of v.
ReturnedIs(u) ==
  /\ u \in UiRec /\ Append(u.history, u.top) = ui.history /\ u.height["listed"] = frame.main
  /\ u.split <=> u.top = "Browse" /\ browse.split

LEMMA ReturnIs ==
  ASSUME UiStrong, ui.top \notin {"Login", "Main"}, NEW v \in UiRec, v.history = ui.history, v.top = ui.top,
         NEW f, v.height["listed"] = f.main,
         NEW u, u = Drawn(switchToLast(v))
  PROVE  /\ u \in UiRec /\ Append(u.history, u.top) = ui.history /\ u.height["listed"] = f.main
         /\ u.split <=> u.top = "Browse" /\ browse.split
         /\ ui.history # << >> /\ u.top = ui.history[Len(ui.history)] /\ u.top # "Login"
         /\ u.top = switchToLast(v).top /\ u.top = Stack[Len(Stack) - 1] /\ Len(Stack) >= 2
<1> DEFINE h == ui.history
           S == Stack
           x == switchToLast(v)
<1>1. StackOK(S) /\ Popped(S, h) /\ S[Len(S)] = ui.top /\ browse.split \in BOOLEAN
  BY StackNow DEF UiStrong, UiShape
<1>2. h \in Seq(Window) /\ Len(h) >= 1 /\ h[Len(h)] = S[Len(S) - 1] /\ StackOK(h) /\ Len(S) = Len(h) + 1
  <2> HIDE DEF h, S
  <2> QED BY <1>1, PopStack DEF Popped
<1>3. h # << >>
  BY <1>2
<1>4. x \in UiRec /\ Append(x.history, x.top) = h /\ x.split = FALSE /\ x.top = h[Len(h)] /\ x.height["listed"] = f.main
  BY <1>3, LastIs
<1>5. u = Drawn(x)
  OBVIOUS
<1> HIDE DEF x
<1>6. u \in UiRec /\ u.top = x.top /\ u.history = x.history /\ u.height = x.height
      /\ (u.split <=> u.top = "Browse" /\ browse.split)
  BY <1>1, <1>4, <1>5, DrawnIs
<1>7. h[Len(h)] # "Login"
  <2>1. Len(h) \in 1..Len(S) /\ S[Len(h)] = h[Len(h)] /\ Len(S) \in 1..Len(S) /\ Len(h) \in Nat /\ Len(h) < Len(S)
    <3> HIDE DEF h, S
    <3>1. Len(h) \in Nat
      BY <1>2
    <3> QED BY <3>1, <1>1, <1>2 DEF Popped
  <2> HIDE DEF h, S
  <2>2. SUFFICES ASSUME h[Len(h)] = "Login" PROVE FALSE
    OBVIOUS
  <2>3. CASE Len(h) = 1
    <3>1. S[1] = "Login" /\ Len(S) = 2
      BY <1>2, <2>1, <2>2, <2>3
    <3>2. S[2] = "Main"
      BY <1>1, <3>1 DEF StackOK
    <3> QED BY <1>1, <3>1, <3>2
  <2>4. CASE Len(h) > 1
    <3>1. Below(S[1], "Login")
      BY <1>1, <2>1, <2>2, <2>4 DEF StackOK
    <3> QED BY <3>1 DEF Below, Level, Status
  <2>5. Len(h) = 1 \/ Len(h) > 1
    <3>1. Len(h) \in Nat
      BY ONLY <2>1
    <3>2. Len(h) >= 1
      BY ONLY <1>2
    <3> QED BY ONLY <3>1, <3>2
  <2> QED BY ONLY <2>3, <2>4, <2>5
<1>8. Len(S) >= 2
  <2> HIDE DEF h, S
  <2>1. Len(h) \in Nat
    BY <1>2
  <2> QED BY <1>2, <2>1
<1> HIDE DEF h, S
<1> QED BY <1>2, <1>3, <1>4, <1>6, <1>7, <1>8 DEF h, S, x

LEMMA Returned ==
  ASSUME UiStrong, ui.top \notin {"Login", "Main"}, ui' \in UiRec, Append(ui'.history, ui'.top) = ui.history
  PROVE  /\ Stack' = ui.history /\ StackOK(Stack') /\ Popped(Stack, Stack') /\ FitsAll(Stack', data)
         /\ Len(Stack') >= 1 /\ Stack'[Len(Stack')] = ui'.top /\ Stack' \in Seq(Window)
<1> DEFINE S == Stack
           T == Stack'
<1>1. /\ StackOK(S) /\ S \in Seq(Window) /\ S[Len(S)] = ui.top /\ FitsAll(S, data) /\ Popped(S, ui.history)
  BY StackNow
<1>2. T = ui.history
  BY DEF Stack
<1>3. ui'.history \in Seq(Window) /\ ui'.top \in Window
  BY DEF UiRec
<1>4. T[Len(T)] = ui'.top
  BY <1>3 DEF Stack
<1> HIDE DEF S, T
<1>5. StackOK(T) /\ Len(T) >= 1 /\ FitsAll(T, data) /\ T \in Seq(Window)
  BY <1>1, <1>2, PopStack, FitsPop DEF Popped
<1> QED BY <1>1, <1>2, <1>4, <1>5 DEF S, T

\* What most steps leave alone.
Settled == dialog' = dialog /\ asked' = asked /\ sections' \in {"EDIT", "SELECT"} /\ did' = None

LEMMA NoneIn == None \in Questions \cup SelectModes \cup {None}
OBVIOUS

LEMMA OpenStep ==
  ASSUME UiStrong, NEW w, MayOpen(w), OpenedIs(ui', w), w \notin {"EventLog", "RawData", "Confirmation", "SelectSites"},
         frame' = frame, data' = data, Settled, browse' \in [opened : BOOLEAN, split : BOOLEAN],
         ui'.split <=> w = "Browse" /\ browse'.split,
         connid' = connid, watched' = watched
  PROVE  UiStrong'
<1>1. /\ ui' \in UiRec /\ Stack' = Append(Stack, w) /\ StackOK(Stack') /\ FitsAll(Stack', data')
      /\ FrameOK(frame') /\ Framed(ui'.top, ui'.height, frame') /\ ui'.top = w
  BY Opened DEF OpenedIs
<1>2. UiShape'
  BY <1>1, NoneIn DEF UiStrong, UiShape, Settled
<1>3. StackOK(Stack) /\ Stack \in Seq(Window) /\ Stack[Len(Stack)] = ui.top
  BY StackNow
<1>4. w \in Window \ {"Confirmation", "SelectSites"} /\ w \in Window \ {"EventLog", "RawData"} /\ Below(ui.top, w)
  BY DEF MayOpen
<1>5. Watching(Stack', watched', connid')
  BY <1>1, <1>3, <1>4, WatchPush DEF UiStrong
<1>6. Pending(Stack', dialog', asked')
  BY <1>1, <1>3, <1>4, PendPush DEF UiStrong, Settled
<1> QED BY <1>1, <1>2, <1>5, <1>6 DEF UiStrong

LEMMA GoStep ==
  ASSUME UiStrong, NEW w, MayOpen(w), w \notin {"EventLog", "RawData", "Confirmation", "SelectSites", "Browse"}, Go(w)
  PROVE  UiStrong'
<1>1. OpenedIs(ui', w) /\ ui'.split = FALSE
  BY OpenIs DEF Go
<1>2. frame' = frame /\ data' = data /\ Settled /\ browse' \in [opened : BOOLEAN, split : BOOLEAN]
      /\ connid' = connid /\ watched' = watched
  BY DEF Go, Settled, UiStrong, UiShape
<1> QED BY <1>1, <1>2, OpenStep

\* No window above which w may be opened watches a buffer, if w is one that does.
LEMMA NoneWatches ==
  ASSUME UiStrong, NEW w, MayOpen(w), Level(w) <= 10, w \notin Status
  PROVE  watched = {} /\ \A i \in 1..Len(Stack) : Stack[i] \notin Watchers
<1>1. ASSUME NEW i \in 1..Len(Stack) PROVE Stack[i] \notin Watchers
  <2>1. w # "KeyBinds"
    BY DEF Level, Status
  <2>2. Level(Stack[i]) < Level(w)
    <3>1. StackOK(Stack) /\ Below(Stack[Len(Stack)], w)
      BY StackNow DEF MayOpen
    <3> HIDE DEF Stack
    <3> QED BY <2>1, <3>1, LevelsUnder
  <2>3. Level(w) \in Nat
    BY DEF Level
  <2>4. \A v \in Watchers : Level(v) = 10
    BY DEF Level, Watchers, Status
  <2> QED BY <2>2, <2>3, <2>4
<1> QED BY <1>1 DEF UiStrong, Watching

LEMMA GoWatchingStep ==
  ASSUME UiStrong, NEW w \in Watchers, MayOpen(w), GoWatching(w)
  PROVE  UiStrong'
<1>1. OpenedIs(ui', w) /\ ui'.split = FALSE
  BY OpenIs DEF GoWatching
<1>2. frame' = frame /\ data' = data /\ Settled /\ browse' = browse
      /\ connid' = 0 /\ watched' = watched \cup {Buffer(w, 0)}
  BY DEF GoWatching, Settled, UiStrong, UiShape
<1>3. w \notin {"Confirmation", "SelectSites", "Browse"} /\ Level(w) <= 10 /\ w \notin Status /\ Buffer(w, 0) \in Buffers
  BY DEF Watchers, Level, Status, Buffer, Buffers
<1>4. /\ ui' \in UiRec /\ Stack' = Append(Stack, w) /\ StackOK(Stack') /\ FitsAll(Stack', data')
      /\ FrameOK(frame') /\ Framed(ui'.top, ui'.height, frame') /\ ui'.top = w
  BY <1>1, <1>2, Opened DEF OpenedIs
<1>5. UiShape'
  BY <1>2, <1>3, <1>4, NoneIn DEF UiStrong, UiShape, Settled
<1>6. StackOK(Stack) /\ Stack \in Seq(Window) /\ Stack[Len(Stack)] = ui.top /\ w \in Window /\ Below(ui.top, w)
  BY StackNow DEF MayOpen
<1>7. Watching(Stack', watched', connid')
  <2>1. watched = {} /\ \A i \in 1..Len(Stack) : Stack[i] \notin Watchers
    BY <1>3, NoneWatches
  <2> DEFINE S == Stack
             T == Append(S, w)
  <2>2. Len(S) \in Nat /\ Len(T) = Len(S) + 1 /\ T[Len(S) + 1] = w /\ \A i \in 1..Len(S) : T[i] = S[i]
    BY <1>6
  <2> HIDE DEF T, S
  <2>3. \A i \in 1..Len(T) : T[i] \in Watchers => T[i] = w
    BY <2>1, <2>2 DEF S
  <2>4. Len(T) \in 1..Len(T) /\ T[Len(T)] = w
    BY <2>2
  <2>5. Watching(T, {Buffer(w, 0)}, 0)
    BY <2>3, <2>4 DEF Watching, Watchers
  <2>6. watched' = {Buffer(w, 0)}
    BY <1>2, <2>1
  <2> QED BY <1>2, <1>4, <2>5, <2>6 DEF T, S
<1>8. Pending(Stack', dialog', asked')
  BY <1>2, <1>3, <1>4, <1>6, PendPush DEF UiStrong, Settled
<1> QED BY <1>1, <1>3, <1>4, <1>5, <1>7, <1>8 DEF UiStrong

LEMMA GoBrowseStep ==
  ASSUME UiStrong, MayOpen("Browse"), (\E twosides \in BOOLEAN : GoBrowse(twosides)) \/ goContinueBrowsing
  PROVE  UiStrong'
<1>0. ui \in UiRec /\ "Browse" \in Window /\ TRUE \in BOOLEAN /\ frame \in FrameRec /\ browse.split \in BOOLEAN
  BY DEF UiStrong, UiShape, Window, mainwindows
<1>1. ASSUME NEW twosides \in BOOLEAN, GoBrowse(twosides) PROVE UiStrong'
  <2> DEFINE u == Initialized(ui, "Browse")
             v == [u EXCEPT !.split = twosides]
  <2>1. u \in UiRec /\ u.top = ui.top /\ u.history = ui.history /\ u.height["listed"] = frame.main
    BY <1>0, InitializedIs DEF UiStrong, Framed, MayOpen
  <2>2. ui' = switchToWindow(v, "Browse", twosides) /\ browse' = [opened |-> TRUE, split |-> twosides]
    BY <1>1 DEF GoBrowse
  <2> HIDE DEF u
  <2>3. v \in UiRec /\ v.top = u.top /\ v.history = u.history /\ v.height = u.height /\ v.split = twosides
    BY <2>1 DEF UiRec
  <2> HIDE DEF v
  <2>4. ui' \in UiRec /\ ui'.top = "Browse" /\ ui'.history = Append(v.history, v.top)
        /\ ui'.split = (v.split /\ twosides) /\ ui'.height = v.height
    BY <1>0, <2>2, <2>3, SwitchIs
  <2>5. OpenedIs(ui', "Browse")
    BY <2>1, <2>3, <2>4 DEF OpenedIs, Stack
  <2>6. browse' \in [opened : BOOLEAN, split : BOOLEAN] /\ (ui'.split <=> browse'.split)
    BY <2>2, <2>3, <2>4
  <2>7. frame' = frame /\ data' = data /\ Settled /\ connid' = connid /\ watched' = watched
    BY <1>1 DEF GoBrowse, Settled, UiStrong, UiShape
  <2> QED BY <2>5, <2>6, <2>7, OpenStep
<1>2. ASSUME goContinueBrowsing PROVE UiStrong'
  <2> DEFINE v == switchToWindow(ui, "Browse", TRUE)
  <2>1. v \in UiRec /\ v.top = "Browse" /\ v.history = Append(ui.history, ui.top) /\ v.height = ui.height
    <3>1. Append(ui.history, ui.top) \in Seq(Window)
      BY <1>0 DEF UiRec
    <3> QED BY <1>0, <3>1 DEF switchToWindow, UiRec
  <2>2. ui' = [v EXCEPT !.split = browse.split] /\ browse' = browse
    BY <1>2 DEF goContinueBrowsing
  <2> HIDE DEF v
  <2>3. ui' \in UiRec /\ ui'.top = v.top /\ ui'.history = v.history /\ ui'.height = v.height /\ ui'.split = browse.split
    BY <1>0, <2>1, <2>2 DEF UiRec
  <2>4. ui.height["listed"] = frame.main
    BY DEF UiStrong, Framed, MayOpen
  <2>5. OpenedIs(ui', "Browse")
    BY <2>1, <2>3, <2>4 DEF OpenedIs, Stack
  <2>6. browse' \in [opened : BOOLEAN, split : BOOLEAN] /\ (ui'.split <=> browse'.split)
    BY <2>2, <2>3 DEF UiStrong, UiShape
  <2>7. frame' = frame /\ data' = data /\ Settled /\ connid' = connid /\ watched' = watched
    BY <1>2 DEF goContinueBrowsing, Settled, UiStrong, UiShape
  <2> QED BY <2>5, <2>6, <2>7, OpenStep
<1> QED BY <1>1, <1>2

\* u is the interface after the return from the top window, to be drawn in frame f.
BackIn(u, f) ==
  /\ u \in UiRec /\ Append(u.history, u.top) = ui.history /\ u.height["listed"] = f.main
  /\ u.top # "Login" /\ (u.split <=> u.top = "Browse" /\ browse.split)

LEMMA BackStep ==
  ASSUME UiStrong, ui.top \notin {"Login", "Main"}, BackIn(ui', frame'),
         frame' \in FrameRec, FrameOK(frame'), ~frame'.full => Barred(frame'),
         browse' = browse, sections' = sections, data' \in DataFileStates, FitsAll(Stack', data'),
         dialog' \in DialogRec, asked' \in AskedRec, did' \in Questions \cup SelectModes \cup {None},
         connid' \in {0, 1}, watched' \subseteq Buffers,
         Watching(Stack', watched', connid'), Pending(Stack', dialog', asked')
  PROVE  UiStrong'
<1>1. ui' \in UiRec /\ Append(ui'.history, ui'.top) = ui.history
  BY DEF BackIn
<1>2. StackOK(Stack')
  BY <1>1, Returned
<1>3. UiShape'
  BY <1>1 DEF UiStrong, UiShape
<1>4. Framed(ui'.top, ui'.height, frame')
  BY DEF BackIn, Framed, Barred
<1>5. ui'.split <=> ui'.top = "Browse" /\ browse'.split
  BY DEF BackIn
<1> QED BY <1>2, <1>3, <1>4, <1>5 DEF UiStrong

LEMMA BackFrame ==
  ASSUME UiStrong, ui.top # "Login"
  PROVE  frame \in FrameRec /\ FrameOK(frame) /\ (~frame.full => Barred(frame)) /\ ui.height["listed"] = frame.main
BY DEF UiStrong, UiShape, Framed, Barred

\* A return that leaves what is watched and what is asked alone.
LEMMA ReturnStep ==
  ASSUME UiStrong, ui.top \notin {"Login", "Main", "Confirmation"}, ui.top \notin Watchers,
         BackIn(ui', frame'), frame' \in FrameRec, FrameOK(frame'), ~frame'.full => Barred(frame'),
         browse' = browse, sections' = sections, data' \in DataFileStates, FitsAll(Stack', data'),
         Settled, connid' = connid, watched' = watched
  PROVE  UiStrong'
<1>1. /\ Popped(Stack, Stack') /\ Len(Stack') >= 1 /\ StackOK(Stack) /\ Stack[Len(Stack)] = ui.top
      /\ Stack \in Seq(Window)
  BY Returned, StackNow DEF BackIn
<1>2. Watching(Stack', watched, connid) /\ Pending(Stack', dialog, asked)
  <2>1. Watching(Stack, watched, connid) /\ Pending(Stack, dialog, asked)
    BY DEF UiStrong
  <2> DEFINE S == Stack
             T == Stack'
  <2>2. /\ Popped(S, T) /\ Len(T) >= 1 /\ StackOK(S) /\ S[Len(S)] = ui.top /\ S \in Seq(Window)
        /\ Watching(S, watched, connid) /\ Pending(S, dialog, asked)
    BY <1>1, <2>1
  <2> HIDE DEF S, T
  <2>3. Watching(T, watched, connid) /\ Pending(T, dialog, asked)
    BY <2>2, WatchPop, PendPop
  <2> QED BY <2>3 DEF T
<1>3. /\ dialog' \in DialogRec /\ asked' \in AskedRec /\ did' \in Questions \cup SelectModes \cup {None}
      /\ connid' \in {0, 1} /\ watched' \subseteq Buffers
  BY NoneIn DEF UiStrong, UiShape, Settled
<1>4. Watching(Stack', watched', connid') /\ Pending(Stack', dialog', asked')
  BY <1>2 DEF Settled
<1> QED BY <1>3, <1>4, BackStep

LEMMA BackIs ==
  ASSUME UiStrong, ui.top \notin {"Login", "Main"}, NEW v \in UiRec, v.history = ui.history, v.top = ui.top,
         NEW f, v.height["listed"] = f.main, ui' = Drawn(switchToLast(v))
  PROVE  /\ BackIn(ui', f) /\ ui.history # << >> /\ ui'.top = ui.history[Len(ui.history)]
         /\ ui'.top = switchToLast(v).top /\ ui'.top = Stack[Len(Stack) - 1] /\ Len(Stack) >= 2
BY ReturnIs DEF BackIn

LEMMA returnToLastStep ==
  ASSUME UiStrong, ui.top \notin {"Login", "Main", "Confirmation"}, ui.top \notin Watchers, returnToLast
  PROVE  UiStrong'
<1>1. ui \in UiRec /\ sections \in {"EDIT", "SELECT"} /\ data \in DataFileStates
  BY DEF UiStrong, UiShape
<1>2. ui' = Drawn(switchToLast(ui)) /\ frame' = frame /\ browse' = browse /\ sections' = sections /\ data' = data
      /\ connid' = connid /\ watched' = watched /\ Settled
  BY <1>1 DEF returnToLast, Settled
<1>3. BackIn(ui', frame)
  BY <1>1, <1>2, BackIs, BackFrame
<1>4. FitsAll(Stack', data)
  BY <1>3, Returned DEF BackIn
<1> QED BY <1>1, <1>2, <1>3, <1>4, BackFrame, ReturnStep

LEMMA returnFiltersStep ==
  ASSUME UiStrong, ui.top \notin {"Login", "Main", "Confirmation"}, ui.top \notin Watchers,
         NEW list \in Window, returnFilters(list)
  PROVE  UiStrong'
<1> DEFINE v == Initialized(ui, list)
<1>1. ui \in UiRec /\ sections \in {"EDIT", "SELECT"} /\ data \in DataFileStates /\ frame \in FrameRec
  BY DEF UiStrong, UiShape
<1>2. ui' = Drawn(switchToLast(v)) /\ frame' = frame /\ browse' = browse /\ sections' = sections /\ data' = data
      /\ connid' = connid /\ watched' = watched /\ Settled
  BY <1>1 DEF returnFilters, Settled
<1>3. v \in UiRec /\ v.history = ui.history /\ v.top = ui.top /\ v.height["listed"] = frame.main
  BY <1>1, BackFrame, InitializedIs
<1> HIDE DEF v
<1>4. BackIn(ui', frame)
  BY <1>2, <1>3, BackIs
<1>5. FitsAll(Stack', data)
  BY <1>4, Returned DEF BackIn
<1> QED BY <1>1, <1>2, <1>4, <1>5, BackFrame, ReturnStep

\* Only one window that watches is open at a time.
LEMMA OneWatches ==
  ASSUME UiStrong, ui.top \in Watchers
  PROVE  /\ watched \subseteq {Buffer(ui.top, connid)}
         /\ \A i \in 1..(Len(Stack) - 1) : Stack[i] \notin Watchers
<1>1. /\ Stack \in Seq(Window) /\ StackOK(Stack) /\ Stack[Len(Stack)] = ui.top /\ Len(Stack) \in Nat
  BY StackNow
<1>2. Watching(Stack, watched, connid)
  BY DEF UiStrong
<1>3. ui.top \notin Status /\ ui.top # "KeyBinds"
  BY DEF Watchers, Status
<1> HIDE DEF Stack
<1>4. ASSUME NEW i \in 1..(Len(Stack) - 1) PROVE Stack[i] \notin Watchers
  <2>1. Level(Stack[i]) < Level(ui.top)
    BY <1>1, <1>3, LevelsBelow
  <2>2. \A v \in Watchers : Level(v) = 10
    BY DEF Level, Watchers, Status
  <2> QED BY <2>1, <2>2
<1>5. ASSUME NEW b \in watched PROVE b = Buffer(ui.top, connid)
  <2>1. PICK i \in 1..Len(Stack) : Stack[i] \in Watchers /\ b = Buffer(Stack[i], connid)
    BY <1>2 DEF Watching
  <2>2. i = Len(Stack)
    BY <1>1, <1>4, <2>1
  <2> QED BY <1>1, <2>1, <2>2
<1> QED BY <1>4, <1>5

LEMMA ReturnUnwatchingStep ==
  ASSUME UiStrong, ui.top \in Watchers, ReturnUnwatching
  PROVE  UiStrong'
<1>1. ui \in UiRec /\ sections \in {"EDIT", "SELECT"} /\ data \in DataFileStates /\ dialog \in DialogRec /\ asked \in AskedRec
  BY DEF UiStrong, UiShape
<1>2. ui.top \notin {"Login", "Main", "Confirmation"}
  BY DEF Watchers
<1>3. ui' = Drawn(switchToLast(ui)) /\ frame' = frame /\ browse' = browse /\ sections' = sections /\ data' = data
      /\ connid' = 0 /\ watched' = watched \ {Buffer(ui.top, connid)} /\ dialog' = dialog /\ asked' = asked /\ did' = None
  BY <1>1 DEF ReturnUnwatching
<1>4. BackIn(ui', frame)
  BY <1>1, <1>2, <1>3, BackIs, BackFrame
<1>5. /\ FitsAll(Stack', data) /\ Popped(Stack, Stack') /\ Len(Stack') >= 1
  BY <1>2, <1>4, Returned DEF BackIn
<1>6. watched' = {} /\ \A i \in 1..(Len(Stack) - 1) : Stack[i] \notin Watchers
  BY <1>3, OneWatches
<1>7. StackOK(Stack) /\ Stack[Len(Stack)] = ui.top
  BY StackNow
<1>8. Watching(Stack', {}, 0) /\ Pending(Stack', dialog, asked)
  <2>1. Pending(Stack, dialog, asked)
    BY DEF UiStrong
  <2> DEFINE S == Stack
             T == Stack'
  <2>2. /\ Popped(S, T) /\ Len(T) >= 1 /\ StackOK(S) /\ S[Len(S)] # "Confirmation" /\ Pending(S, dialog, asked)
        /\ \A i \in 1..(Len(S) - 1) : S[i] \notin Watchers
    BY <1>2, <1>5, <1>6, <1>7, <2>1
  <2> HIDE DEF S, T
  <2>3. \A i \in 1..Len(T) : i \in 1..(Len(S) - 1) /\ T[i] = S[i]
    BY <2>2 DEF Popped
  <2>4. Watching(T, {}, 0)
    BY <2>2, <2>3 DEF Watching, Watchers
  <2>5. Pending(T, dialog, asked)
    BY <2>2, PendPop
  <2> QED BY <2>4, <2>5 DEF T
<1> QED BY <1>1, <1>2, <1>3, <1>4, <1>5, <1>6, <1>8, NoneIn, BackFrame, BackStep

LEMMA goRawDataJumpStep ==
  ASSUME UiStrong, ui.top = "RawData", goRawDataJump(1 - connid)
  PROVE  UiStrong'
<1> DEFINE c == 1 - connid
<1>1. ui \in UiRec /\ frame \in FrameRec /\ connid \in {0, 1} /\ "RawData" \in Window
  BY DEF UiStrong, UiShape, Window, mainwindows
<1>2. c \in {0, 1}
  BY <1>1
<1>3. /\ ui' = Initialized(ui, "RawData") /\ frame' = frame /\ browse' = browse /\ sections' = sections /\ data' = data
      /\ connid' = c /\ watched' = (watched \ {Buffer("RawData", connid)}) \cup {Buffer("RawData", c)}
      /\ dialog' = dialog /\ asked' = asked /\ did' = None
  BY DEF goRawDataJump
<1>4. watched' = {Buffer("RawData", c)} /\ \A i \in 1..(Len(Stack) - 1) : Stack[i] \notin Watchers
  BY <1>3, OneWatches DEF Watchers
<1> HIDE DEF c
<1>5. /\ ui' \in UiRec /\ ui'.top = ui.top /\ ui'.history = ui.history /\ ui'.split = ui.split
      /\ ui'.height["listed"] = frame.main
  BY <1>1, <1>3, InitializedIs, BackFrame
<1>6. Stack' = Stack
  BY <1>5 DEF Stack
<1>7. Buffer("RawData", c) \in Buffers
  BY <1>2 DEF Buffer, Buffers
<1>8. UiShape'
  BY <1>2, <1>3, <1>4, <1>5, <1>7, NoneIn DEF UiStrong, UiShape
<1>9. Watching(Stack, {Buffer("RawData", c)}, c)
  <2>1. Stack[Len(Stack)] = "RawData" /\ Len(Stack) \in Nat /\ Len(Stack) >= 1
    BY StackNow
  <2> HIDE DEF Stack
  <2>2. Len(Stack) \in 1..Len(Stack) /\ \A i \in 1..Len(Stack) : i # Len(Stack) => i \in 1..(Len(Stack) - 1)
    BY <2>1
  <2>3. \A i \in 1..Len(Stack) : Stack[i] \in {"EventLog", "RawData"} => Stack[i] = "RawData"
    BY <1>4, <2>1, <2>2 DEF Watchers
  <2> QED BY <2>1, <2>2, <2>3 DEF Watching, Watchers
<1>10. Framed(ui'.top, ui'.height, frame')
  BY <1>3, <1>5 DEF UiStrong, Framed
<1>11. /\ StackOK(Stack) /\ FitsAll(Stack, data) /\ Pending(Stack, dialog, asked) /\ FrameOK(frame)
       /\ (ui.split <=> ui.top = "Browse" /\ browse.split)
  BY DEF UiStrong
<1> QED BY <1>3, <1>4, <1>5, <1>6, <1>8, <1>9, <1>10, <1>11 DEF UiStrong

-----------------------------------------------------------------------------
\* Questions and selections

LEMMA NotAsking ==
  ASSUME UiStrong, ui.top # "Confirmation"
  PROVE  asked["RaceStatus"] = {}
<1>1. Stack[Len(Stack)] # "Confirmation"
  BY StackNow
<1> QED BY <1>1 DEF UiStrong, Pending

\* A window that asks or lets select is opened on top.
LEMMA QuestionStep ==
  ASSUME UiStrong, NEW w, MayOpen(w), w \in {"Confirmation", "SelectSites"}, OpenedIs(ui', w), ui'.split = FALSE,
         frame' = frame, data' = data, sections' = sections, browse' = browse, connid' = connid, watched' = watched,
         did' = None, dialog' \in DialogRec, asked' \in AskedRec,
         w = "Confirmation" => Questioned(Stack, dialog', asked'),
         w = "SelectSites" => /\ asked'["RaceStatus"] = {}
                              /\ ui.top = "RaceStatus" => dialog'.mode = "SELECT" /\ asked'["select"] = {dialog'.about}
  PROVE  UiStrong'
<1>1. /\ ui' \in UiRec /\ Stack' = Append(Stack, w) /\ StackOK(Stack') /\ FitsAll(Stack', data')
      /\ FrameOK(frame') /\ Framed(ui'.top, ui'.height, frame') /\ ui'.top = w
  BY Opened DEF OpenedIs
<1>2. UiShape'
  BY <1>1, NoneIn DEF UiStrong, UiShape
<1>3. StackOK(Stack) /\ Stack \in Seq(Window) /\ Stack[Len(Stack)] = ui.top
  BY StackNow
<1>4. w \in Window \ {"EventLog", "RawData"} /\ Below(ui.top, w) /\ w # "Browse"
  BY DEF MayOpen
<1>5. Watching(Stack', watched', connid')
  BY <1>1, <1>3, <1>4, WatchPush DEF UiStrong
<1>6. Pending(Stack', dialog', asked')
  BY <1>1, <1>3, <1>4, PendQuestion, PendSelect
<1> QED BY <1>1, <1>2, <1>4, <1>5, <1>6 DEF UiStrong

LEMMA goInfoStep ==
  ASSUME UiStrong, MayOpen("Confirmation"), goInfo
  PROVE  UiStrong'
<1>1. OpenedIs(ui', "Confirmation") /\ ui'.split = FALSE
  BY OpenIs DEF goInfo
<1>2. /\ frame' = frame /\ data' = data /\ sections' = sections /\ browse' = browse /\ connid' = connid /\ watched' = watched
      /\ did' = None /\ dialog' = [mode |-> "INFO", about |-> None, step |-> 0] /\ asked' = asked
  BY DEF goInfo
<1>3. dialog' \in DialogRec /\ asked' \in AskedRec
  BY <1>2, NoneIn DEF UiStrong, UiShape, DialogRec
<1>4. asked["RaceStatus"] = {}
  BY NotAsking DEF MayOpen, Below
<1>5. ~Asking(dialog') /\ Questioned(Stack, dialog', asked')
  BY <1>2, <1>4 DEF Asking, Questioned
<1> QED BY <1>1, <1>2, <1>3, <1>5, QuestionStep

\* A question whose keeper is the top window's and, for a job's status, is new.
LEMMA AskStep ==
  ASSUME UiStrong, MayOpen("Confirmation"), NEW mode \in {"NORMAL", "STRONG"}, NEW q \in Questions,
         NEW who \in {"Main", "AllSpreadJobs", "RaceStatus", "other"}, NEW keep \in SUBSET (Questions \cup SelectModes),
         Ask(mode, q, who, keep), who = Keeper(ui.top),
         who = "RaceStatus" => keep = asked["RaceStatus"] \cup {q} /\ q \in RaceQuestions,
         who = "other" => keep = {q}
  PROVE  UiStrong'
<1>1. OpenedIs(ui', "Confirmation") /\ ui'.split = FALSE
  BY OpenIs DEF Ask
<1>2. /\ frame' = frame /\ data' = data /\ sections' = sections /\ browse' = browse /\ connid' = connid /\ watched' = watched
      /\ did' = None /\ dialog' = [mode |-> mode, about |-> q, step |-> 0] /\ asked' = [asked EXCEPT ![who] = keep]
  BY DEF Ask
<1>3. dialog' \in DialogRec /\ asked' \in AskedRec
  BY <1>2 DEF UiStrong, UiShape, DialogRec, AskedRec
<1>4. asked["RaceStatus"] = {}
  BY NotAsking DEF MayOpen, Below
<1>5. asked \in AskedRec /\ Stack[Len(Stack)] = ui.top
  BY StackNow DEF UiStrong, UiShape
<1>6. dialog'.about = q /\ Asking(dialog')
  BY <1>2 DEF Asking
<1>7. asked'[who] = keep /\ (who # "RaceStatus" => asked'["RaceStatus"] = {})
  BY <1>2, <1>4, <1>5 DEF AskedRec
<1>8. Questioned(Stack, dialog', asked')
  BY <1>4, <1>5, <1>6, <1>7 DEF Questioned, Keeper
<1> QED BY <1>1, <1>2, <1>3, <1>8, QuestionStep

LEMMA RememberStep ==
  ASSUME UiStrong, NEW who \in {"Main", "AllSpreadJobs"}, NEW keep \in SUBSET (Questions \cup SelectModes), Remember(who, keep)
  PROVE  UiStrong'
<1>1. /\ ui' = ui /\ frame' = frame /\ dialog' = dialog /\ browse' = browse /\ watched' = watched
      /\ sections' = sections /\ connid' = connid /\ data' = data /\ did' = None
      /\ asked' = [asked EXCEPT ![who] = keep]
  BY DEF Remember
<1>2. asked \in AskedRec
  BY DEF UiStrong, UiShape
<1>3. asked' \in AskedRec /\ asked'["RaceStatus"] = asked["RaceStatus"] /\ asked'["other"] = asked["other"]
      /\ asked'["select"] = asked["select"]
  BY <1>1, <1>2 DEF AskedRec
<1>4. Stack' = Stack
  BY <1>1 DEF Stack
<1>5. UiShape'
  BY <1>1, <1>3, NoneIn DEF UiStrong, UiShape
<1>6. Pending(Stack, dialog, asked')
  BY <1>3 DEF UiStrong, Pending
<1> QED BY <1>1, <1>4, <1>5, <1>6 DEF UiStrong

LEMMA goSelectSitesStep ==
  ASSUME UiStrong, MayOpen("SelectSites"), NEW mode \in SelectModes \cup {None}, goSelectSites(mode),
         ui.top = "RaceStatus" => mode \in SelectModes
  PROVE  UiStrong'
<1>1. OpenedIs(ui', "SelectSites") /\ ui'.split = FALSE
  BY OpenIs DEF goSelectSites
<1>2. /\ frame' = frame /\ data' = data /\ sections' = sections /\ browse' = browse /\ connid' = connid /\ watched' = watched
      /\ did' = None /\ dialog' = [mode |-> "SELECT", about |-> mode, step |-> 0]
      /\ asked' = [asked EXCEPT !["select"] = {mode} \ {None}]
  BY DEF goSelectSites
<1>3. asked \in AskedRec /\ {mode} \ {None} \in SUBSET (Questions \cup SelectModes)
  BY DEF UiStrong, UiShape
<1>4. dialog' \in DialogRec /\ asked' \in AskedRec /\ asked'["select"] = {mode} \ {None}
      /\ asked'["RaceStatus"] = asked["RaceStatus"]
  BY <1>2, <1>3 DEF DialogRec, AskedRec
<1>5. asked["RaceStatus"] = {}
  BY NotAsking DEF MayOpen, Below
<1>6. mode \in SelectModes => {mode} \ {None} = {mode}
  BY DEF SelectModes, None
<1>7. ui.top = "RaceStatus" => dialog'.mode = "SELECT" /\ asked'["select"] = {dialog'.about}
  BY <1>2, <1>4, <1>6
<1> QED BY <1>1, <1>2, <1>4, <1>5, <1>7, QuestionStep

\* Under a window other than the key binds there is no selection of sites.
LEMMA NoSelectionBelow ==
  ASSUME UiStrong, ui.top # "KeyBinds", NEW j \in 1..(Len(Stack) - 1)
  PROVE  Stack[j] # "SelectSites"
<1>1. StackOK(Stack) /\ Stack[Len(Stack)] = ui.top /\ Len(Stack) \in Nat
  BY StackNow
<1> HIDE DEF Stack
<1>2. j \in 1..Len(Stack) /\ Len(Stack) \in 1..Len(Stack) /\ j < Len(Stack)
  BY <1>1
<1>3. Below(Stack[j], ui.top)
  BY <1>1, <1>2 DEF StackOK
<1>4. SUFFICES ASSUME Stack[j] = "SelectSites" PROVE FALSE
  OBVIOUS
<1>5. Below("SelectSites", ui.top)
  BY <1>3, <1>4
<1> QED BY <1>5 DEF Below, Level, Status

LEMMA NothingAskedBelow ==
  ASSUME UiStrong, ui.top \notin {"Login", "Main", "KeyBinds"}, BackIn(ui', frame)
  PROVE  NothingAsked(Stack')
<1>1. /\ Popped(Stack, Stack') /\ Len(Stack') >= 1 /\ StackOK(Stack) /\ Stack[Len(Stack)] = ui.top
      /\ Stack \in Seq(Window)
  BY Returned, StackNow DEF BackIn
<1>2. \A j \in 1..(Len(Stack) - 1) : Stack[j] # "SelectSites"
  BY NoSelectionBelow
<1> DEFINE S == Stack
           T == Stack'
<1>3. /\ Popped(S, T) /\ Len(T) >= 1 /\ StackOK(S) /\ \A j \in 1..(Len(S) - 1) : S[j] # "SelectSites"
  BY <1>1, <1>2
<1> HIDE DEF S, T
<1>4. Len(T) \in Nat /\ Len(S) = Len(T) + 1 /\ \A j \in 1..Len(T) : j \in 1..(Len(S) - 1) /\ T[j] = S[j]
  BY <1>3 DEF Popped
<1>5. Below(S[Len(T)], S[Len(S)])
  <2>1. Len(T) \in 1..Len(S) /\ Len(S) \in 1..Len(S) /\ Len(T) < Len(S)
    BY <1>3, <1>4
  <2> QED BY <1>3, <2>1 DEF StackOK
<1>6. Len(T) \in 1..Len(T)
  BY <1>3, <1>4
<1>7. T[Len(T)] # "Confirmation"
  BY <1>4, <1>5, <1>6 DEF Below
<1>8. NothingAsked(T)
  BY <1>3, <1>4, <1>7 DEF NothingAsked
<1> QED BY <1>8 DEF T

\* A step after which nothing is asked.
LEMMA QuietStep ==
  ASSUME UiStrong, ui.top # "Login", ui' \in UiRec, ui'.top # "Login", ui'.height["listed"] = frame.main,
         ui'.split <=> ui'.top = "Browse" /\ browse.split,
         StackOK(Stack'), FitsAll(Stack', data), Watching(Stack', watched, connid), NothingAsked(Stack'),
         frame' = frame, data' = data, sections' = sections, browse' = browse, connid' = connid, watched' = watched,
         dialog' \in DialogRec, asked' \in AskedRec, asked'["RaceStatus"] = {},
         did' \in Questions \cup SelectModes \cup {None}
  PROVE  UiStrong'
<1>1. UiShape'
  BY DEF UiStrong, UiShape
<1>2. Pending(Stack', dialog', asked')
  <2>1. Stack' \in Seq(Window)
    BY DEF StackOK
  <2> DEFINE T == Stack'
  <2>2. T \in Seq(Window) /\ NothingAsked(T)
    BY <2>1
  <2> HIDE DEF T
  <2>3. Pending(T, dialog', asked')
    BY <2>2, PendSettled
  <2> QED BY <2>3 DEF T
<1>3. Framed(ui'.top, ui'.height, frame') /\ FrameOK(frame')
  BY BackFrame DEF Framed, Barred
<1> QED BY <1>1, <1>2, <1>3 DEF UiStrong

LEMMA AnswerStep ==
  ASSUME UiStrong, ui.top \in {"Confirmation", "SelectSites", "SelectJobs", "Sections"}, BackIn(ui', frame),
         frame' = frame, data' = data, sections' = sections, browse' = browse, connid' = connid, watched' = watched,
         dialog' \in DialogRec, asked' \in AskedRec, asked'["RaceStatus"] = {},
         did' \in Questions \cup SelectModes \cup {None}
  PROVE  UiStrong'
<1>1. ui.top \notin {"Login", "Main", "KeyBinds"} /\ ui.top \notin Watchers
  BY DEF Watchers
<1>2. NothingAsked(Stack')
  BY <1>1, NothingAskedBelow
<1>3. /\ StackOK(Stack') /\ Popped(Stack, Stack') /\ FitsAll(Stack', data)
  BY <1>1, Returned DEF BackIn
<1>4. Watching(Stack', watched, connid)
  <2>1. Watching(Stack, watched, connid) /\ Stack \in Seq(Window) /\ Stack[Len(Stack)] = ui.top
    BY StackNow DEF UiStrong
  <2> DEFINE S == Stack
             T == Stack'
  <2>2. S \in Seq(Window) /\ S[Len(S)] \notin Watchers /\ Watching(S, watched, connid) /\ Popped(S, T)
    BY <1>1, <1>3, <2>1
  <2> HIDE DEF S, T
  <2>3. Watching(T, watched, connid)
    BY <2>2, WatchPop
  <2> QED BY <2>3 DEF T
<1>5. /\ ui' \in UiRec /\ ui'.height["listed"] = frame.main
      /\ ui'.top # "Login" /\ (ui'.split <=> ui'.top = "Browse" /\ browse.split)
  BY DEF BackIn
<1> QED BY <1>1, <1>2, <1>3, <1>4, <1>5, QuietStep

LEMMA NoDialogIs == NoDialog \in DialogRec
BY DEF NoDialog, DialogRec, None

LEMMA returnSelectItemsStep ==
  ASSUME UiStrong, ui.top \in {"SelectSites", "SelectJobs", "Sections"}, returnSelectItems
  PROVE  UiStrong' /\ (did' # None => dialog.mode = "SELECT" /\ did' = dialog.about)
<1> DEFINE u == switchToLast(ui)
<1>1. ui \in UiRec /\ asked \in AskedRec
  BY DEF UiStrong, UiShape
<1>2. /\ ui' = Drawn(u) /\ dialog' = NoDialog
      /\ did' = (IF u.top = "RaceStatus" THEN OtherYes(asked["select"]) ELSE None)
      /\ asked' = [asked EXCEPT !["select"] = {}, !["RaceStatus"] = IF u.top = "RaceStatus" THEN {} ELSE @]
      /\ frame' = frame /\ data' = data /\ sections' = sections /\ browse' = browse /\ connid' = connid /\ watched' = watched
  BY DEF returnSelectItems
<1>3. BackIn(ui', frame) /\ ui'.top = u.top /\ u.top = Stack[Len(Stack) - 1] /\ Len(Stack) >= 2
  BY <1>1, <1>2, BackIs, BackFrame
<1>4. asked["RaceStatus"] = {}
  BY NotAsking
<1>5. asked' \in AskedRec /\ asked'["RaceStatus"] = {}
  BY <1>1, <1>2, <1>4 DEF AskedRec
<1> HIDE DEF u
<1>6. u.top = "RaceStatus" => did' = dialog.about /\ dialog.mode = "SELECT"
  <2> SUFFICES ASSUME u.top = "RaceStatus" PROVE did' = dialog.about /\ dialog.mode = "SELECT"
    OBVIOUS
  <2>1. StackOK(Stack) /\ Pending(Stack, dialog, asked) /\ Stack[Len(Stack)] = ui.top /\ Len(Stack) \in Nat
    BY StackNow DEF UiStrong
  <2> HIDE DEF Stack
  <2> DEFINE i == Len(Stack) - 1
  <2>2. i \in 1..(Len(Stack) - 1) /\ Stack[i] = "RaceStatus" /\ Stack[i + 1] = ui.top
    BY <1>3, <2>1
  <2> HIDE DEF i
  <2>3. ui.top = "SelectSites"
    BY <2>1, <2>2 DEF StackOK
  <2>4. dialog.mode = "SELECT" /\ asked["select"] = {dialog.about}
    BY <2>1, <2>2, <2>3 DEF Pending
  <2>5. OtherYes({dialog.about}) = dialog.about
    BY DEF OtherYes
  <2> QED BY <1>2, <2>4, <2>5
<1>7. did' \in Questions \cup SelectModes \cup {None}
  <2>1. dialog.about \in Questions \cup SelectModes \cup {None}
    BY DEF UiStrong, UiShape, DialogRec
  <2> QED BY <1>2, <1>6, <2>1
<1>8. did' # None => dialog.mode = "SELECT" /\ did' = dialog.about
  BY <1>2, <1>6
<1>9. dialog' \in DialogRec
  BY <1>2, NoDialogIs
<1> QED BY <1>2, <1>3, <1>5, <1>7, <1>8, <1>9, AnswerStep

LEMMA CancelSelectionStep ==
  ASSUME UiStrong, ui.top = "SelectSites", CancelSelection
  PROVE  UiStrong'
<1>1. ui \in UiRec /\ asked \in AskedRec
  BY DEF UiStrong, UiShape
<1>2. /\ ui' = Drawn(switchToLast(ui)) /\ dialog' = NoDialog /\ did' = None
      /\ asked' = [asked EXCEPT !["select"] = {}]
      /\ frame' = frame /\ data' = data /\ sections' = sections /\ browse' = browse /\ connid' = connid /\ watched' = watched
  BY DEF CancelSelection
<1>3. BackIn(ui', frame)
  BY <1>1, <1>2, BackIs, BackFrame
<1>4. asked' \in AskedRec /\ asked'["RaceStatus"] = {}
  BY <1>1, <1>2, NotAsking DEF AskedRec
<1> QED BY <1>2, <1>3, <1>4, NoDialogIs, NoneIn, AnswerStep

-----------------------------------------------------------------------------
\* Answers

LEMMA FirstOfIn ==
  ASSUME NEW X, NEW order \in Seq(X), NEW flags, NEW otherwise \in X
  PROVE  /\ FirstOf(order, flags, otherwise) \in X
         /\ (\E i \in 1..Len(order) : order[i] \in flags) => FirstOf(order, flags, otherwise) \in flags
<1> DEFINE hits == {i \in DOMAIN order : order[i] \in flags}
           first == CHOOSE i \in hits : \A j \in hits : i <= j
<1>1. FirstOf(order, flags, otherwise) = IF hits = {} THEN otherwise ELSE order[first]
  BY DEF FirstOf
<1>2. hits \in SUBSET Nat /\ DOMAIN order = 1..Len(order)
  OBVIOUS
<1>3. hits # {} => first \in hits
  <2>1. hits # {} => \E i \in hits : \A j \in hits : i <= j
    <3> HIDE DEF hits
    <3> QED BY <1>2, Least
  <2> QED BY <2>1
<1>4. \A i \in hits : order[i] \in X /\ order[i] \in flags
  OBVIOUS
<1>5. (\E i \in 1..Len(order) : order[i] \in flags) => hits # {}
  BY <1>2
<1> HIDE DEF hits, first
<1> QED BY <1>1, <1>3, <1>4, <1>5

LEMMA YesIn ==
  ASSUME NEW w, NEW flags \in SUBSET (Questions \cup SelectModes)
  PROVE  YesOf(w, flags) \in Questions \cup SelectModes \cup {None}
<1> DEFINE X == Questions \cup SelectModes \cup {None}
<1>1. MainYes(flags) \in X
  <2>1. <<"abortRace", "abortTransferJob", "deleteOwnIncomplete", "deleteOwnAll", "removeSiteFromAll">> \in Seq(X)
        /\ "deleteSite" \in X
    BY DEF Questions
  <2> HIDE DEF X
  <2> QED BY <2>1, FirstOfIn DEF MainYes
<1>2. AllSpreadJobsYes(flags) \in X
  <2>1. <<"abortRace", "deleteOwnIncomplete", "deleteOwnAll">> \in Seq(X) /\ None \in X
    BY DEF Questions
  <2> HIDE DEF X
  <2> QED BY <2>1, FirstOfIn DEF AllSpreadJobsYes
<1>3. RaceStatusYes(flags) \in X
  <2>1. <<"removeSite", "removeSiteDeleteOwn", "removeSiteDeleteAll", "abortRace", "deleteOwnIncomplete",
          "deleteOwnAll", "removeSiteFromAll">> \in Seq(X) /\ None \in X
    BY DEF Questions
  <2> HIDE DEF X
  <2> QED BY <2>1, FirstOfIn DEF RaceStatusYes
<1>4. OtherYes(flags) \in X
  BY DEF OtherYes
<1> QED BY <1>1, <1>2, <1>3, <1>4 DEF YesOf

\* The answer to one question of a spread job's status, or of a screen that
\* keeps one question, is about that question.
LEMMA YesIsAsked ==
  ASSUME NEW w, NEW q, w \notin {"Main", "AllSpreadJobs"}, w = "RaceStatus" => q \in RaceQuestions
  PROVE  YesOf(w, {q}) = q
<1>1. OtherYes({q}) = q
  BY DEF OtherYes
<1>2. CASE w = "RaceStatus"
  <2> DEFINE order == <<"removeSite", "removeSiteDeleteOwn", "removeSiteDeleteAll", "abortRace", "deleteOwnIncomplete",
                        "deleteOwnAll", "removeSiteFromAll">>
             X == Questions \cup {None}
  <2>1. order \in Seq(X) /\ None \in X
    BY DEF Questions
  <2>2. Len(order) = 7 /\ order[1] = "removeSite" /\ order[2] = "removeSiteDeleteOwn" /\ order[3] = "removeSiteDeleteAll"
        /\ order[4] = "abortRace" /\ order[5] = "deleteOwnIncomplete" /\ order[6] = "deleteOwnAll" /\ order[7] = "removeSiteFromAll"
    OBVIOUS
  <2>3. RaceStatusYes({q}) = FirstOf(order, {q}, None)
    BY DEF RaceStatusYes
  <2> HIDE DEF order, X
  <2>4. \E i \in 1..Len(order) : order[i] \in {q}
    BY <1>2, <2>2 DEF RaceQuestions
  <2>5. FirstOf(order, {q}, None) \in {q}
    BY <2>1, <2>4, FirstOfIn
  <2> QED BY <1>2, <2>3, <2>5 DEF YesOf
<1> QED BY <1>1, <1>2 DEF YesOf

LEMMA NotLoginUnder ==
  ASSUME NEW S, StackOK(S), S[Len(S)] \notin {"Login", "Main"}
  PROVE  S[Len(S) - 1] # "Login"
<1>1. Len(S) \in Nat /\ Len(S) >= 1
  BY DEF StackOK
<1>2. SUFFICES ASSUME S[Len(S) - 1] = "Login" PROVE FALSE
  OBVIOUS
<1>3. CASE Len(S) = 1
  BY <1>3 DEF StackOK
<1>4. CASE Len(S) = 2
  <2>1. S[1] = "Login"
    BY <1>2, <1>4
  <2>2. S[2] = "Main"
    BY <1>4, <2>1 DEF StackOK
  <2> QED BY <1>4, <2>2
<1>5. CASE Len(S) > 2
  <2>1. 1 \in 1..Len(S) /\ Len(S) - 1 \in 1..Len(S) /\ 1 < Len(S) - 1
    BY <1>1, <1>5
  <2>2. Below(S[1], "Login")
    BY <1>2, <2>1 DEF StackOK
  <2> QED BY <2>2 DEF Below, Level, Status
<1>6. Len(S) = 1 \/ Len(S) = 2 \/ Len(S) > 2
  <2> DEFINE n == Len(S)
  <2>1. n \in Nat /\ n >= 1
    BY <1>1
  <2> HIDE DEF n
  <2>2. n = 1 \/ n = 2 \/ n > 2
    BY ONLY <2>1
  <2> QED BY ONLY <2>2 DEF n
<1> QED BY ONLY <1>3, <1>4, <1>5, <1>6

\* The answer clears what was asked; who asked is the window below.
LEMMA AnsweredIs ==
  ASSUME UiStrong, ui.top = "Confirmation", NEW w, w = Stack[Len(Stack) - 1], Len(Stack) >= 2,
         asked' = [asked EXCEPT ![Keeper(w)] = {}]
  PROVE  asked' \in AskedRec /\ asked'["RaceStatus"] = {}
<1>1. asked \in AskedRec /\ Keeper(w) \in {"Main", "AllSpreadJobs", "RaceStatus", "other"}
  BY DEF UiStrong, UiShape, Keeper
<1>2. Pending(Stack, dialog, asked) /\ Stack[Len(Stack)] = "Confirmation"
  BY StackNow DEF UiStrong
<1>3. asked["RaceStatus"] # {} => w = "RaceStatus"
  BY <1>2 DEF Pending
<1>4. asked' \in AskedRec /\ (Keeper(w) = "RaceStatus" => asked'["RaceStatus"] = {})
      /\ (Keeper(w) # "RaceStatus" => asked'["RaceStatus"] = asked["RaceStatus"])
  BY <1>1 DEF AskedRec
<1> QED BY <1>3, <1>4 DEF Keeper

LEMMA ConfirmReturn ==
  ASSUME UiStrong, ui.top = "Confirmation", NEW u, u = switchToLast(ui), ui' = Drawn(u),
         frame' = frame, data' = data, sections' = sections, browse' = browse, connid' = connid, watched' = watched,
         dialog' = NoDialog, did' \in Questions \cup SelectModes \cup {None},
         asked' = [asked EXCEPT ![Keeper(u.top)] = {}] \/ (asked' = asked /\ ~Asking(dialog))
  PROVE  UiStrong'
<1>1. ui \in UiRec
  BY DEF UiStrong, UiShape
<1>2. BackIn(ui', frame) /\ ui'.top = u.top /\ u.top = Stack[Len(Stack) - 1] /\ Len(Stack) >= 2
  BY <1>1, BackIs, BackFrame
<1>3. asked' \in AskedRec /\ asked'["RaceStatus"] = {}
  <2>1. CASE asked' = [asked EXCEPT ![Keeper(u.top)] = {}]
    BY <1>2, <2>1, AnsweredIs
  <2>2. CASE asked' = asked /\ ~Asking(dialog)
    <3>1. Pending(Stack, dialog, asked) /\ asked \in AskedRec
      BY DEF UiStrong, UiShape
    <3> QED BY <2>2, <3>1 DEF Pending
  <2> QED BY <2>1, <2>2
<1> QED BY <1>2, <1>3, NoDialogIs, AnswerStep

LEMMA confirmNoStep ==
  ASSUME UiStrong, ui.top = "Confirmation", confirmNo
  PROVE  UiStrong'
BY ConfirmReturn, NoneIn DEF confirmNo

LEMMA confirmYesIs ==
  ASSUME UiStrong, ui.top = "Confirmation", Asking(dialog), confirmYes
  PROVE  /\ did' \in Questions \cup SelectModes \cup {None}
         /\ \/ ui.history # << >> /\ ui.history[Len(ui.history)] \in {"Main", "AllSpreadJobs"}
            \/ did' = dialog.about
<1> DEFINE u == switchToLast(ui)
<1>1. ui \in UiRec /\ asked \in AskedRec /\ Pending(Stack, dialog, asked)
  BY DEF UiStrong, UiShape
<1>2. /\ ui.history # << >> /\ u.top = ui.history[Len(ui.history)] /\ u.top = Stack[Len(Stack) - 1] /\ Len(Stack) >= 2
      /\ Stack[Len(Stack)] = "Confirmation"
  BY <1>1, BackFrame, ReturnIs, StackNow
<1>3. did' = YesOf(u.top, asked[Keeper(u.top)])
  BY DEF confirmYes
<1> HIDE DEF u
<1>4. asked[Keeper(u.top)] \in SUBSET (Questions \cup SelectModes)
  BY <1>1 DEF Keeper, AskedRec
<1>5. did' \in Questions \cup SelectModes \cup {None}
  BY <1>3, <1>4, YesIn
<1>6. ASSUME u.top \notin {"Main", "AllSpreadJobs"} PROVE did' = dialog.about
  <2>1. asked[Keeper(u.top)] = {dialog.about} /\ (u.top = "RaceStatus" => dialog.about \in RaceQuestions)
    BY <1>1, <1>2, <1>6 DEF Pending, Keeper
  <2> QED BY <1>3, <1>6, <2>1, YesIsAsked
<1> QED BY <1>2, <1>5, <1>6

LEMMA confirmYesStep ==
  ASSUME UiStrong, ui.top = "Confirmation", Asking(dialog), confirmYes
  PROVE  UiStrong'
<1> DEFINE u == switchToLast(ui)
<1>1. ui \in UiRec /\ browse.split \in BOOLEAN
  BY DEF UiStrong, UiShape
<1>2. did' \in Questions \cup SelectModes \cup {None}
  BY confirmYesIs
<1>3. /\ asked' = [asked EXCEPT ![Keeper(u.top)] = {}] /\ dialog' = NoDialog
      /\ frame' = frame /\ data' = data /\ sections' = sections /\ browse' = browse /\ connid' = connid /\ watched' = watched
  BY DEF confirmYes
<1>4. CASE ui' = Drawn(u)
  BY <1>2, <1>3, <1>4, ConfirmReturn
<1>5. CASE u.top = "EditSiteSection" /\ ui' = Drawn(switchToLast(u))
  <2>1. ui.history # << >> /\ u.top = Stack[Len(Stack) - 1] /\ Len(Stack) >= 2
    BY <1>1, BackFrame, ReturnIs
  <2>2. u \in UiRec /\ Append(u.history, u.top) = ui.history /\ u.height["listed"] = frame.main
    BY <1>1, <2>1, LastIs, BackFrame
  <2>3. asked' \in AskedRec /\ asked'["RaceStatus"] = {}
    BY <1>3, <2>1, AnsweredIs
  <2> HIDE DEF u
  <2> DEFINE S == Stack
             R == ui.history
             T == u.history
             x == switchToLast(u)
  <2>4. StackOK(S) /\ Popped(S, R) /\ S[Len(S)] = "Confirmation" /\ FitsAll(S, data) /\ Watching(S, watched, connid)
        /\ S \in Seq(Window)
    BY StackNow DEF UiStrong
  <2>5. Popped(R, T) /\ R[Len(R)] = "EditSiteSection"
    <3>1. R = Append(u.history, u.top) /\ u.history \in Seq(Window) /\ u.top \in Window
      BY <2>2 DEF UiRec
    <3> HIDE DEF R
    <3> QED BY <1>5, <3>1 DEF Popped
  <2>6. /\ StackOK(R) /\ FitsAll(R, data) /\ Watching(R, watched, connid) /\ R \in Seq(Window)
    <3> HIDE DEF S, R
    <3> QED BY <2>4, PopStack, FitsPop, WatchPop DEF Popped, Watchers
  <2>7. StackOK(T) /\ FitsAll(T, data) /\ Watching(T, watched, connid) /\ T \in Seq(Window) /\ Len(T) >= 1
        /\ T[Len(T)] = R[Len(R) - 1] /\ R[Len(R) - 1] # "Login"
    <3> HIDE DEF S, R, T
    <3> QED BY <2>5, <2>6, PopStack, FitsPop, WatchPop, NotLoginUnder DEF Popped, Watchers
  <2>8. T # << >>
    BY <2>7
  <2>9. x \in UiRec /\ Append(x.history, x.top) = T /\ x.split = FALSE /\ x.top = T[Len(T)]
        /\ x.height["listed"] = frame.main
    BY <2>2, <2>8, LastIs
  <2>10. ui' = Drawn(x)
    BY <1>5
  <2> HIDE DEF x
  <2>11. ui' \in UiRec /\ ui'.top = x.top /\ ui'.history = x.history /\ ui'.height = x.height
         /\ (ui'.split <=> ui'.top = "Browse" /\ browse.split)
    BY <1>1, <2>9, <2>10, DrawnIs
  <2>12. Stack' = T /\ ui'.top # "Login"
    BY <2>7, <2>9, <2>11 DEF Stack
  <2>13. NothingAsked(T)
    <3>1. ui.top # "KeyBinds" /\ \A j \in 1..(Len(S) - 1) : S[j] # "SelectSites"
      BY NoSelectionBelow
    <3> HIDE DEF S, R, T
    <3>2. /\ Len(T) \in Nat /\ Len(R) = Len(T) + 1 /\ Len(S) = Len(R) + 1
          /\ \A j \in 1..Len(T) : j \in 1..Len(R) /\ T[j] = R[j]
          /\ \A j \in 1..Len(R) : R[j] = S[j]
      BY <2>4, <2>5 DEF Popped
    <3>3. \A j \in 1..Len(T) : j \in 1..(Len(S) - 1) /\ T[j] = S[j]
      BY <3>2
    <3>4. Len(T) \in 1..Len(R) /\ Len(R) \in 1..Len(R) /\ Len(T) < Len(R) /\ T[Len(T)] = R[Len(T)]
      BY <2>7, <3>2
    <3>5. Below(R[Len(T)], R[Len(R)])
      BY <2>6, <3>4 DEF StackOK
    <3> QED BY <3>1, <3>3, <3>4, <3>5 DEF NothingAsked, Below
  <2>14. StackOK(Stack') /\ FitsAll(Stack', data) /\ Watching(Stack', watched, connid) /\ NothingAsked(Stack')
    BY <2>7, <2>12, <2>13
  <2> HIDE DEF T
  <2> QED BY <1>2, <1>3, <2>3, <2>9, <2>11, <2>12, <2>14, NoDialogIs, QuietStep
<1> QED BY <1>4, <1>5 DEF confirmYes

ConfirmUnchanged == UNCHANGED <<frame, browse, watched, sections, connid, data>>

LEMMA ConfirmationStep ==
  ASSUME UiStrong, ConfirmationScreen
  PROVE  UiStrong'
<1>1. ui.top = "Confirmation"
  BY DEF ConfirmationScreen
<1>2. ASSUME dialog.mode = "INFO", ui' = Drawn(switchToLast(ui)), dialog' = NoDialog, did' = None, asked' = asked,
             ConfirmUnchanged
      PROVE  UiStrong'
  <2>1. ~Asking(dialog)
    BY <1>2 DEF Asking
  <2> QED BY <1>1, <1>2, <2>1, ConfirmReturn, NoneIn DEF ConfirmUnchanged
<1>3. ASSUME dialog.mode \in {"NORMAL", "STRONG"}, confirmYes PROVE UiStrong'
  BY <1>1, <1>3, confirmYesStep DEF Asking
<1>4. ASSUME confirmNo PROVE UiStrong'
  BY <1>1, <1>4, confirmNoStep
<1>5. ASSUME dialog.mode = "STRONG", dialog.step < 2, dialog' = [dialog EXCEPT !.step = @ + 1], did' = None,
             ui' = ui, asked' = asked, ConfirmUnchanged
      PROVE  UiStrong'
  <2>1. dialog \in DialogRec
    BY DEF UiStrong, UiShape
  <2>2. dialog' \in DialogRec /\ dialog'.mode = dialog.mode /\ dialog'.about = dialog.about
    BY <1>5, <2>1 DEF DialogRec
  <2>3. Stack' = Stack
    BY <1>5 DEF Stack
  <2>4. UiShape'
    BY <1>5, <2>2, NoneIn DEF UiStrong, UiShape, ConfirmUnchanged
  <2>5. Pending(Stack, dialog', asked)
    BY <2>2 DEF UiStrong, Pending, Asking
  <2> QED BY <1>5, <2>3, <2>4, <2>5 DEF UiStrong, ConfirmUnchanged
<1> QED BY <1>2, <1>3, <1>4, <1>5 DEF ConfirmationScreen, ConfirmUnchanged

-----------------------------------------------------------------------------
\* The steps that change the frame, the data file or the browser

LEMMA EncryptionSetStep ==
  ASSUME UiStrong, NEW state \in {"EXISTS_DECRYPTED", "EXISTS_PLAIN"}, EncryptionSet(state),
         ui.top \in {"NewKey", "DisableEncryption"}
  PROVE  UiStrong'
<1>1. ui \in UiRec /\ sections \in {"EDIT", "SELECT"}
  BY DEF UiStrong, UiShape
<1>2. ui' = Drawn(switchToLast(ui)) /\ frame' = frame /\ browse' = browse /\ sections' = sections /\ data' = state
      /\ connid' = connid /\ watched' = watched /\ Settled
  BY <1>1 DEF EncryptionSet, Settled
<1>3. BackIn(ui', frame)
  BY <1>1, <1>2, BackIs, BackFrame
<1>4. ui.top \notin {"Login", "Main", "Confirmation"} /\ ui.top \notin Watchers /\ ui.top \notin Status /\ ui.top # "KeyBinds"
  BY DEF Watchers, Status
<1>5. Popped(Stack, Stack') /\ FitsAll(Stack', data)
  BY <1>3, <1>4, Returned DEF BackIn
<1>6. StackOK(Stack) /\ Stack[Len(Stack)] = ui.top
  BY StackNow
<1>7. FitsAll(Stack', state)
  <2> DEFINE S == Stack
             T == Stack'
  <2>1. Popped(S, T) /\ StackOK(S) /\ S[Len(S)] = ui.top
    BY <1>5, <1>6
  <2> HIDE DEF S, T
  <2>2. ASSUME NEW i \in 1..Len(T) PROVE RightData(T[i], state)
    <3>1. i \in 1..(Len(S) - 1) /\ T[i] = S[i]
      BY <2>1 DEF Popped
    <3>2. Level(S[i]) < Level(ui.top)
      BY <1>4, <2>1, <3>1, LevelsBelow
    <3>3. T[i] \notin {"NewKey", "ChangeKey", "DisableEncryption"}
      BY <3>1, <3>2 DEF Level, Status
    <3> QED BY <3>3 DEF RightData
  <2>3. FitsAll(T, state)
    BY <2>2 DEF FitsAll
  <2> QED BY <2>3 DEF T
<1>8. state \in DataFileStates
  BY DEF DataFileStates
<1>9. frame' \in FrameRec /\ FrameOK(frame') /\ (~frame'.full => Barred(frame')) /\ BackIn(ui', frame')
  BY <1>2, <1>3, <1>4, BackFrame
<1>10. FitsAll(Stack', data') /\ data' \in DataFileStates
  BY <1>2, <1>7, <1>8
<1> QED BY <1>2, <1>4, <1>9, <1>10, ReturnStep

LEMMA goSectionsStep ==
  ASSUME UiStrong, MayOpen("Sections"), NEW mode \in {"EDIT", "SELECT"}, goSections(mode)
  PROVE  UiStrong'
<1>1. OpenedIs(ui', "Sections") /\ ui'.split = FALSE
  BY OpenIs DEF goSections
<1>2. frame' = frame /\ data' = data /\ Settled /\ browse' \in [opened : BOOLEAN, split : BOOLEAN]
      /\ connid' = connid /\ watched' = watched
  BY DEF goSections, Settled, UiStrong, UiShape
<1> QED BY <1>1, <1>2, OpenStep

LEMMA returnRaceStatusStep ==
  ASSUME UiStrong, ui.top = "NewRace", returnRaceStatus
  PROVE  UiStrong'
<1> DEFINE u == Initialized(ui, "RaceStatus")
           e == << >>
           v == [u EXCEPT !.history = e, !.top = "Main"]
<1>1. ui \in UiRec /\ frame \in FrameRec /\ browse.split \in BOOLEAN /\ "RaceStatus" \in Window /\ "Main" \in Window
      /\ data \in DataFileStates /\ dialog \in DialogRec /\ asked \in AskedRec
  BY DEF UiStrong, UiShape, Window, mainwindows
<1>2. u \in UiRec /\ u.height["listed"] = frame.main
  BY <1>1, InitializedIs, BackFrame
<1> HIDE DEF u
<1>3. v \in UiRec /\ v.top = "Main" /\ v.history = << >> /\ v.height = u.height
  <2>1. e \in Seq(Window)
    OBVIOUS
  <2> HIDE DEF e
  <2>2. v \in UiRec /\ v.top = "Main" /\ v.history = e /\ v.height = u.height
    BY <1>1, <1>2, <2>1 DEF UiRec
  <2> QED BY <2>2 DEF e
<1>4. ui' = switchToWindow(v, "RaceStatus", FALSE)
  BY DEF returnRaceStatus, u
<1> HIDE DEF v
<1>5. ui' \in UiRec /\ ui'.top = "RaceStatus" /\ ui'.history = Append(v.history, v.top) /\ ui'.split = FALSE
      /\ ui'.height = v.height
  <2> DEFINE A == Append(v.history, v.top)
  <2>1. A \in Seq(Window)
    BY <1>1, <1>3
  <2>2. ui' = [v EXCEPT !.history = A, !.top = "RaceStatus", !.split = v.split /\ FALSE]
    BY <1>4 DEF switchToWindow
  <2> HIDE DEF A
  <2>3. ui' \in UiRec /\ ui'.top = "RaceStatus" /\ ui'.history = A /\ ui'.split = FALSE /\ ui'.height = v.height
    BY <1>1, <1>3, <2>1, <2>2 DEF UiRec
  <2> QED BY <2>3 DEF A
<1> DEFINE T == Stack'
<1>6. /\ ui'.history \in Seq(Window) /\ Len(ui'.history) = 1 /\ ui'.history[1] = "Main"
  <2> DEFINE h == v.history
  <2>1. h \in Seq(Window) /\ Len(h) = 0 /\ ui'.history = Append(h, "Main")
    BY <1>3, <1>5
  <2> HIDE DEF h
  <2> QED BY <1>1, <2>1
<1>7. T \in Seq(Window) /\ Len(T) = 2 /\ T[1] = "Main" /\ T[2] = "RaceStatus"
  BY <1>1, <1>5, <1>6 DEF Stack
<1> HIDE DEF T
<1>8. StackOK(T)
  <2>1. Below("Main", "RaceStatus")
    BY DEF Below, Level, Status
  <2> QED BY <1>7, <2>1 DEF StackOK
<1>9. watched = {} /\ asked["RaceStatus"] = {}
  <2>1. StackOK(Stack) /\ Stack[Len(Stack)] = "NewRace" /\ Watching(Stack, watched, connid)
    BY StackNow DEF UiStrong
  <2>2. \A i \in 1..(Len(Stack) - 1) : Level(Stack[i]) < Level("NewRace")
    <3> HIDE DEF Stack
    <3> QED BY <2>1, LevelsBelow DEF Status
  <2>3. Level("NewRace") = 10 /\ \A x \in Watchers : Level(x) = 10
    BY DEF Level, Status, Watchers
  <2>4. Len(Stack) \in Nat /\ "NewRace" \notin Watchers
    BY StackNow DEF Watchers
  <2>5. \A i \in 1..Len(Stack) : Stack[i] \notin Watchers
    <3> HIDE DEF Stack
    <3> QED BY <2>1, <2>2, <2>3, <2>4
  <2> QED BY <2>1, <2>5, NotAsking DEF Watching
<1>10. FitsAll(T, data)
  <2>1. RightData("NewRace", data)
    <3>1. FitsAll(Stack, data) /\ Stack[Len(Stack)] = "NewRace" /\ Len(Stack) \in 1..Len(Stack)
      BY StackNow
    <3> QED BY <3>1 DEF FitsAll
  <2>2. RightData("Main", data) /\ RightData("RaceStatus", data)
    BY <2>1 DEF RightData
  <2>3. \A i \in 1..Len(T) : T[i] = "Main" \/ T[i] = "RaceStatus"
    BY <1>7
  <2> QED BY <2>2, <2>3 DEF FitsAll
<1>11. Watching(T, watched, connid) /\ NothingAsked(T)
  <2>1. \A i \in 1..Len(T) : T[i] = "Main" \/ T[i] = "RaceStatus"
    BY <1>7
  <2> QED BY <1>7, <1>9, <2>1 DEF Watching, NothingAsked
<1>12. /\ frame' = frame /\ data' = data /\ sections' = sections /\ browse' = browse /\ connid' = connid /\ watched' = watched
       /\ dialog' = dialog /\ asked' = asked /\ did' = None
  BY DEF returnRaceStatus
<1>13. StackOK(Stack') /\ FitsAll(Stack', data) /\ Watching(Stack', watched, connid) /\ NothingAsked(Stack')
  BY <1>8, <1>10, <1>11 DEF T
<1>14. ui'.height["listed"] = frame.main /\ (ui'.split <=> ui'.top = "Browse" /\ browse.split)
  BY <1>2, <1>3, <1>5
<1> QED BY <1>1, <1>5, <1>9, <1>12, <1>13, <1>14, NoneIn, QuietStep

LEMMA LegendChosen ==
  ASSUME UiStrong, ui.top = "GlobalOptions", NEW mode \in LegendModes \ {frame.mode}, NEW f, f = setLegendMode(frame, mode),
         frame' = f, ui' = Drawn(switchToLast(Reframed(ui, f))),
         dialog' = dialog, asked' = asked, did' = None, browse' = browse, sections' = sections, connid' = connid,
         watched' = watched, data' = data
  PROVE  UiStrong'
<1>1. ui \in UiRec /\ sections \in {"EDIT", "SELECT"} /\ data \in DataFileStates /\ mode \in LegendModes /\ mode # frame.mode
  BY DEF UiStrong, UiShape
<1>2. frame \in FrameRec /\ FrameOK(frame) /\ (~frame.full => Barred(frame))
  BY BackFrame
<1>3. f \in FrameRec /\ FrameOK(f) /\ f.full = frame.full /\ f.mode = mode /\ (Barred(frame) => Barred(f))
  BY <1>1, <1>2, FrameMode
<1> DEFINE v == Reframed(ui, f)
<1>4. v = redrawAll(ui, f)
  BY <1>1, <1>3 DEF Reframed
<1>5. ui' = Drawn(switchToLast(v))
  OBVIOUS
<1> HIDE DEF v
<1>6. v \in UiRec /\ v.top = ui.top /\ v.history = ui.history /\ v.height["listed"] = f.main
  BY <1>1, <1>3, <1>4, RedrawnIs
<1>7. BackIn(ui', f)
  BY <1>5, <1>6, BackIs
<1>8. FitsAll(Stack', data)
  BY <1>7, Returned DEF BackIn
<1>9. ui.top \notin {"Login", "Main", "Confirmation"} /\ ui.top \notin Watchers /\ Settled
  BY <1>1 DEF Watchers, Settled
<1> QED BY <1>1, <1>2, <1>3, <1>7, <1>8, <1>9, ReturnStep

LEMMA BrowseSplitStep ==
  ASSUME UiStrong, ui.top = "Browse", browse' = [browse EXCEPT !.split = ~@],
         ui' = [ui EXCEPT !.split = ~browse.split], did' = None,
         frame' = frame, dialog' = dialog, asked' = asked, sections' = sections, connid' = connid, watched' = watched,
         data' = data
  PROVE  UiStrong'
<1>1. ui \in UiRec /\ browse \in [opened : BOOLEAN, split : BOOLEAN]
  BY DEF UiStrong, UiShape
<1>2. browse' \in [opened : BOOLEAN, split : BOOLEAN] /\ (browse'.split <=> ~browse.split)
  BY <1>1
<1>3. ui' \in UiRec /\ ui'.top = ui.top /\ ui'.history = ui.history /\ ui'.height = ui.height /\ (ui'.split <=> ~browse.split)
  <2> DEFINE b == ~browse.split
  <2>1. b \in BOOLEAN
    OBVIOUS
  <2>2. ui' = [ui EXCEPT !.split = b]
    OBVIOUS
  <2> HIDE DEF b
  <2>3. ui' \in UiRec /\ ui'.top = ui.top /\ ui'.history = ui.history /\ ui'.height = ui.height /\ ui'.split = b
    BY <1>1, <2>1, <2>2 DEF UiRec
  <2> QED BY <2>3 DEF b
<1>4. Stack' = Stack
  BY <1>3 DEF Stack
<1>5. UiShape'
  BY <1>2, <1>3, NoneIn DEF UiStrong, UiShape
<1> QED BY <1>2, <1>3, <1>4, <1>5 DEF UiStrong

\* A step that draws everything again in another frame.
LEMMA FrameStep ==
  ASSUME UiStrong, frame' \in FrameRec, FrameOK(frame'),
         ui' \in UiRec, ui'.top = ui.top, ui'.history = ui.history, ui'.split = ui.split,
         Framed(ui'.top, ui'.height, frame'),
         dialog' = dialog, asked' = asked, did' = None, browse' = browse, sections' = sections, connid' = connid,
         watched' = watched, data' = data
  PROVE  UiStrong'
<1>1. Stack' = Stack
  BY DEF Stack
<1>2. UiShape'
  BY NoneIn DEF UiStrong, UiShape
<1> QED BY <1>1, <1>2 DEF UiStrong

LEMMA terminalSizeChangedStep ==
  ASSUME UiStrong, terminalSizeChanged
  PROVE  UiStrong'
<1>1. PICK r \in Rows \ {frame.rows} :
        LET f == [frame EXCEPT !.rows = r, !.main = r - (IF frame.info THEN 2 ELSE 0) - (IF frame.legend THEN 2 ELSE 0)]
        IN  frame' = f /\ ui' = redrawAll(ui, f)
  BY DEF terminalSizeChanged
<1> DEFINE m == r - (IF frame.info THEN 2 ELSE 0) - (IF frame.legend THEN 2 ELSE 0)
<1>2. ui \in UiRec /\ frame \in FrameRec /\ FrameOK(frame)
  BY DEF UiStrong, UiShape
<1>3. m \in Int
  <2>1. r \in Nat
    BY RowsAssumption
  <2> QED BY <2>1
<1>4. frame' = [frame EXCEPT !.rows = r, !.main = m] /\ ui' = redrawAll(ui, frame')
  BY <1>1
<1>5. m = r - (IF frame.info THEN 2 ELSE 0) - (IF frame.legend THEN 2 ELSE 0) /\ r \in Rows
  OBVIOUS
<1> HIDE DEF m
<1>6. frame' \in FrameRec /\ frame'.rows = r /\ frame'.main = m /\ frame'.info = frame.info /\ frame'.legend = frame.legend
      /\ frame'.mode = frame.mode /\ frame'.full = frame.full
  BY <1>2, <1>3, <1>4, <1>5 DEF FrameRec
<1>7. FrameOK(frame')
  <2>1. frame'.main = frame'.rows - (IF frame'.info THEN 2 ELSE 0) - (IF frame'.legend THEN 2 ELSE 0)
    BY ONLY <1>5, <1>6
  <2>2. frame.legend => frame.mode # "DISABLED"
    BY <1>2 DEF FrameOK
  <2>3. frame'.legend => frame'.mode # "DISABLED"
    BY <1>6, <2>2
  <2> QED BY <2>1, <2>3 DEF FrameOK
<1>8. ui' \in UiRec /\ ui'.top = ui.top /\ ui'.history = ui.history /\ ui'.split = ui.split /\ ui'.height["listed"] = frame'.main
  <2>1. ui' = redrawAll(ui, frame')
    BY <1>4
  <2>2. ui \in UiRec /\ frame' \in FrameRec
    BY <1>2, <1>6
  <2> QED BY ONLY <2>1, <2>2, RedrawnIs
<1>9. Framed(ui'.top, ui'.height, frame')
  BY <1>6, <1>8 DEF UiStrong, Framed
<1>10. /\ dialog' = dialog /\ asked' = asked /\ did' = None /\ browse' = browse /\ sections' = sections /\ connid' = connid
       /\ watched' = watched /\ data' = data
  BY DEF terminalSizeChanged
<1> QED BY <1>6, <1>7, <1>8, <1>9, <1>10, FrameStep

LEMMA BarsOn ==
  ASSUME NEW f \in FrameRec, FrameOK(f), NEW g, g = enableLegend(enableInfo(f))
  PROVE  g \in FrameRec /\ FrameOK(g) /\ Barred(g) /\ g.full = f.full /\ g.mode = f.mode
<1> DEFINE h == enableInfo(f)
<1>1. h \in FrameRec /\ FrameOK(h) /\ h.info /\ h.full = f.full /\ h.mode = f.mode
  BY FrameInfo
<1>2. g = enableLegend(h)
  OBVIOUS
<1> HIDE DEF h
<1> QED BY <1>1, <1>2, FrameLegend DEF Barred

LEMMA globalKeyBindsStep ==
  ASSUME UiStrong, globalKeyBinds
  PROVE  UiStrong'
<1>1. ui \in UiRec /\ ui.top # "Login"
  BY DEF UiStrong, UiShape, globalKeyBinds
<1>2. frame \in FrameRec /\ FrameOK(frame) /\ ui.height["listed"] = frame.main
  BY <1>1, BackFrame
<1>3. /\ ui' = (IF frame'.main = frame.main THEN ui ELSE redrawAll(ui, frame'))
      /\ dialog' = dialog /\ asked' = asked /\ did' = None /\ browse' = browse /\ sections' = sections /\ connid' = connid
      /\ watched' = watched /\ data' = data
  BY DEF globalKeyBinds
<1>4. frame' \in FrameRec /\ FrameOK(frame') /\ (~frame'.full => Barred(frame'))
  <2>1. CASE frame.full
    <3> DEFINE g == enableLegend(enableInfo(frame))
    <3>1. g \in FrameRec /\ FrameOK(g) /\ Barred(g)
      BY <1>2, BarsOn
    <3>2. frame' = [g EXCEPT !.full = FALSE]
      BY <2>1 DEF globalKeyBinds
    <3> HIDE DEF g
    <3>3. frame' \in FrameRec /\ frame'.rows = g.rows /\ frame'.main = g.main /\ frame'.info = g.info
          /\ frame'.legend = g.legend /\ frame'.mode = g.mode
      BY <3>1, <3>2 DEF FrameRec
    <3> QED BY <3>1, <3>3 DEF FrameOK, Barred
  <2>2. CASE ~frame.full
    <3> DEFINE h == disableInfo(frame)
               g == disableLegend(h)
    <3>1. h \in FrameRec /\ FrameOK(h)
      BY <1>2, FrameInfo
    <3>2. frame' = [g EXCEPT !.full = TRUE]
      BY <2>2 DEF globalKeyBinds
    <3> HIDE DEF h
    <3>3. g \in FrameRec /\ FrameOK(g)
      BY <3>1, FrameNoLegend DEF FrameOK
    <3> HIDE DEF g
    <3>4. frame' \in FrameRec /\ frame'.rows = g.rows /\ frame'.main = g.main /\ frame'.info = g.info
          /\ frame'.legend = g.legend /\ frame'.mode = g.mode /\ frame'.full
      BY <3>2, <3>3 DEF FrameRec
    <3> QED BY <3>3, <3>4 DEF FrameOK
  <2> QED BY <2>1, <2>2
<1>5. ui' \in UiRec /\ ui'.top = ui.top /\ ui'.history = ui.history /\ ui'.split = ui.split /\ ui'.height["listed"] = frame'.main
  <2>1. CASE frame'.main = frame.main
    BY <1>1, <1>2, <1>3, <2>1
  <2>2. CASE frame'.main # frame.main
    <3>1. ui' = redrawAll(ui, frame')
      BY <1>3, <2>2
    <3> QED BY <1>1, <1>4, <3>1, RedrawnIs
  <2> QED BY <2>1, <2>2
<1>6. Framed(ui'.top, ui'.height, frame')
  BY <1>4, <1>5 DEF Framed, Barred
<1> QED BY <1>3, <1>4, <1>5, <1>6, FrameStep

LEMMA LoginStep ==
  ASSUME UiStrong, LoginScreen
  PROVE  UiStrong'
<1> DEFINE S == Stack
           T == Stack'
           opened == switchToWindow(Initialized(ui, "Main"), "Main", FALSE)
<1>1. ui \in UiRec /\ frame \in FrameRec /\ FrameOK(frame) /\ ui.top = "Login" /\ data = "EXISTS_ENCRYPTED"
      /\ "Main" \in Window /\ "Login" \in Window
  BY DEF UiStrong, UiShape, LoginScreen, Window, mainwindows, Unlisted
<1>2. PICK mode \in LegendModes :
        LET loaded == IF mode = frame.mode THEN frame ELSE setLegendMode(frame, mode)
            f == enableLegend(enableInfo(loaded))
        IN  frame' = f /\ ui' = redrawAll(opened, f)
  BY DEF LoginScreen
<1> DEFINE loaded == IF mode = frame.mode THEN frame ELSE setLegendMode(frame, mode)
<1>3. loaded \in FrameRec /\ FrameOK(loaded)
  <2>1. CASE mode = frame.mode
    BY <1>1, <2>1
  <2>2. CASE mode # frame.mode
    <3>1. loaded = setLegendMode(frame, mode)
      BY <2>2
    <3> HIDE DEF loaded
    <3> QED BY <1>1, <2>2, <3>1, FrameMode
  <2> QED BY <2>1, <2>2
<1>4. frame' = enableLegend(enableInfo(loaded)) /\ ui' = redrawAll(opened, frame')
  BY <1>2
<1> HIDE DEF loaded
<1>5. frame' \in FrameRec /\ FrameOK(frame') /\ Barred(frame')
  BY <1>3, <1>4, BarsOn
<1>6. opened \in UiRec /\ opened.top = "Main" /\ opened.history = Stack /\ opened.split = FALSE
  <2> DEFINE u == Initialized(ui, "Main")
             A == Append(u.history, u.top)
  <2>1. u \in UiRec /\ u.top = ui.top /\ u.history = ui.history
    BY <1>1, InitializedIs
  <2>2. opened = switchToWindow(u, "Main", FALSE)
    OBVIOUS
  <2> HIDE DEF u, opened
  <2>3. A \in Seq(Window) /\ A = Stack
    BY <2>1 DEF UiRec, Stack
  <2> HIDE DEF A
  <2>4. opened \in UiRec /\ opened.top = "Main" /\ opened.history = A /\ opened.split = FALSE
    BY <1>1, <2>1, <2>2, <2>3 DEF switchToWindow, UiRec, A
  <2> QED BY <2>3, <2>4
<1> HIDE DEF opened
<1>7. ui' \in UiRec /\ ui'.top = "Main" /\ ui'.history = Stack /\ ui'.split = FALSE /\ ui'.height["listed"] = frame'.main
  BY <1>4, <1>5, <1>6, RedrawnIs
<1>8. T = Append(S, "Main")
  BY <1>7 DEF Stack
<1>9. StackOK(S) /\ S \in Seq(Window) /\ S[Len(S)] = "Login" /\ Watching(S, watched, connid) /\ FitsAll(S, data)
      /\ Len(S) \in Nat /\ Len(S) >= 1
  BY <1>1, StackNow DEF UiStrong
<1>10. asked["RaceStatus"] = {}
  BY <1>1, NotAsking
<1> HIDE DEF S, T
<1>11. Len(S) = 1
  <2>1. SUFFICES ASSUME Len(S) > 1 PROVE FALSE
    <3> DEFINE n == Len(S)
    <3>1. n \in Nat /\ n >= 1
      BY <1>9
    <3> HIDE DEF n
    <3>2. n = 1 \/ n > 1
      BY ONLY <3>1
    <3> QED BY <3>2 DEF n
  <2>2. 1 \in 1..Len(S) /\ Len(S) \in 1..Len(S) /\ 1 < Len(S)
    BY <1>9, <2>1
  <2>3. Below(S[1], "Login")
    BY <1>9, <2>2 DEF StackOK
  <2> QED BY <2>3 DEF Below, Level, Status
<1>12. T \in Seq(Window) /\ Len(T) = 2 /\ T[1] = "Login" /\ T[2] = "Main"
  <2>1. T = Append(S, "Main") /\ S \in Seq(Window) /\ "Main" \in Window /\ Len(S) = 1 /\ S[Len(S)] = "Login"
    BY <1>1, <1>8, <1>9, <1>11
  <2>2. S[1] = "Login"
    BY ONLY <2>1
  <2>3. T \in Seq(Window)
    BY ONLY <2>1
  <2>4. Len(T) = 2
    BY ONLY <2>1
  <2>5. T[1] = "Login"
    BY ONLY <2>1, <2>2
  <2>6. T[2] = "Main"
    <3> DEFINE w == "Main"
    <3>0. T = Append(S, w) /\ S \in Seq(Window) /\ w \in Window
      BY ONLY <2>1
    <3> HIDE DEF w
    <3>3. T[Len(S) + 1] = w
      BY ONLY <3>0
    <3>1. T[Len(S) + 1] = "Main"
      BY ONLY <3>3 DEF w
    <3>2. Len(S) + 1 = 2
      BY ONLY <2>1
    <3> QED BY ONLY <3>1, <3>2
  <2> QED BY <2>3, <2>4, <2>5, <2>6
<1>13. Below("Login", "Main") /\ RightData("Login", "EXISTS_DECRYPTED") /\ RightData("Main", "EXISTS_DECRYPTED")
  BY DEF Below, Level, Status, RightData
<1>14. StackOK(T)
  BY <1>12, <1>13 DEF StackOK
<1>15. \A i \in 1..Len(T) : T[i] = "Login" \/ T[i] = "Main"
  BY <1>12
<1>16. FitsAll(T, "EXISTS_DECRYPTED")
  BY <1>13, <1>15 DEF FitsAll
<1>17. watched = {}
  <2>1. \A i \in 1..Len(S) : S[i] \notin Watchers
    BY <1>9, <1>11 DEF Watchers
  <2> QED BY <1>9, <2>1 DEF Watching
<1>18. Watching(T, watched, connid) /\ NothingAsked(T)
  BY <1>12, <1>15, <1>17 DEF Watching, NothingAsked
<1>19. Pending(T, dialog, asked)
  BY <1>10, <1>12, <1>18, PendSettled
<1>20. data' = "EXISTS_DECRYPTED" /\ dialog' = dialog /\ asked' = asked /\ did' = None /\ browse' = browse
       /\ sections' = sections /\ connid' = connid /\ watched' = watched
  BY DEF LoginScreen
<1>21. UiShape'
  BY <1>5, <1>7, <1>20, NoneIn DEF UiStrong, UiShape, DataFileStates
<1>22. Framed(ui'.top, ui'.height, frame')
  BY <1>5, <1>7 DEF Framed, Barred
<1> QED BY <1>5, <1>7, <1>14, <1>16, <1>18, <1>19, <1>20, <1>21, <1>22 DEF UiStrong, T

LEMMA UiInitStrong == UiInit => UiStrong
<1> SUFFICES ASSUME UiInit PROVE UiStrong
  OBVIOUS
<1>1. PICK r \in Rows, mode \in LegendModes :
        LET bare == [rows |-> r, main |-> r, info |-> FALSE, legend |-> FALSE, mode |-> mode, full |-> FALSE]
            f == IF data = "EXISTS_PLAIN" THEN enableLegend(enableInfo(bare)) ELSE bare
            first == IF data = "EXISTS_PLAIN" THEN "Main" ELSE "Login"
        IN  /\ frame = f
            /\ ui = [top |-> first, history |-> << >>, split |-> FALSE,
                     height |-> [k \in HeightKeys |-> IF k = HeightKey(first) THEN f.main ELSE 0]]
  BY DEF UiInit
<1> DEFINE bare == [rows |-> r, main |-> r, info |-> FALSE, legend |-> FALSE, mode |-> mode, full |-> FALSE]
           first == IF data = "EXISTS_PLAIN" THEN "Main" ELSE "Login"
<1>2. bare \in FrameRec /\ FrameOK(bare)
  <2>1. r \in Nat
    BY RowsAssumption
  <2> QED BY <2>1 DEF FrameRec, FrameOK
<1>3. frame = IF data = "EXISTS_PLAIN" THEN enableLegend(enableInfo(bare)) ELSE bare
  BY <1>1
<1>4. ui = [top |-> first, history |-> << >>, split |-> FALSE,
            height |-> [k \in HeightKeys |-> IF k = HeightKey(first) THEN frame.main ELSE 0]]
  BY <1>1
<1> HIDE DEF bare
<1>5. frame \in FrameRec /\ FrameOK(frame) /\ (data = "EXISTS_PLAIN" => Barred(frame))
  BY <1>2, <1>3, BarsOn
<1>6. first \in Window /\ first \in {"Login", "Main"} /\ (first # "Login" => data = "EXISTS_PLAIN")
      /\ "Main" \notin Unlisted
  BY DEF Window, mainwindows, Unlisted
<1> HIDE DEF first
<1>7. ui \in UiRec /\ ui.top = first /\ ui.history = << >> /\ ui.split = FALSE
      /\ ui.height["listed"] = IF "listed" = HeightKey(first) THEN frame.main ELSE 0
  <2> DEFINE H == [k \in HeightKeys |-> IF k = HeightKey(first) THEN frame.main ELSE 0]
             e == << >>
  <2>1. frame.main \in Int /\ "listed" \in HeightKeys
    BY <1>5, KeyIs DEF FrameRec
  <2>2. H \in [HeightKeys -> Int] /\ H["listed"] = IF "listed" = HeightKey(first) THEN frame.main ELSE 0
    BY <2>1
  <2>3. e \in Seq(Window)
    OBVIOUS
  <2>4. ui = [top |-> first, history |-> e, split |-> FALSE, height |-> H]
    BY <1>4
  <2> HIDE DEF H, e
  <2>5. ui \in UiRec /\ ui.top = first /\ ui.history = e /\ ui.split = FALSE /\ ui.height = H
    BY <1>6, <2>2, <2>3, <2>4 DEF UiRec
  <2> QED BY <2>2, <2>5 DEF e
<1>8. Framed(ui.top, ui.height, frame)
  BY <1>5, <1>6, <1>7, KeyIs DEF Framed, Barred
<1> DEFINE S == Stack
<1>9. S \in Seq(Window) /\ Len(S) = 1 /\ S[1] = first
  <2>1. /\ S \in Seq(Window) /\ Len(S) = Len(ui.history) + 1 /\ S[Len(S)] = ui.top
    BY <1>7, StackIs DEF Stack
  <2>2. Len(ui.history) = 0
    BY <1>7
  <2> QED BY <1>7, <2>1, <2>2
<1>10. /\ data \in DataFileStates /\ dialog = NoDialog /\ connid = 0 /\ watched = {} /\ did = None /\ sections = "EDIT"
       /\ browse = [opened |-> FALSE, split |-> FALSE]
       /\ asked = [w \in {"Main", "AllSpreadJobs", "RaceStatus", "select", "other"} |-> {}]
  BY DEF UiInit, DataFileStates
<1> HIDE DEF S
<1>11. \A i \in 1..Len(S) : S[i] = first
  BY <1>9
<1>12. StackOK(S)
  BY <1>6, <1>9 DEF StackOK
<1>13. RightData(first, data)
  BY <1>6 DEF RightData
<1>14. FitsAll(S, data)
  BY <1>11, <1>13 DEF FitsAll
<1>15. Watching(S, watched, connid) /\ NothingAsked(S)
  BY <1>6, <1>9, <1>10, <1>11 DEF Watching, NothingAsked
<1>16. asked \in AskedRec /\ asked["RaceStatus"] = {}
  BY <1>10 DEF AskedRec
<1>17. Pending(S, dialog, asked)
  BY <1>9, <1>15, <1>16, PendSettled
<1>18. UiShape
  BY <1>5, <1>7, <1>10, <1>16, NoDialogIs, NoneIn DEF UiShape
<1>19. ui.split <=> ui.top = "Browse" /\ browse.split
  BY <1>7, <1>10
<1> QED BY <1>5, <1>8, <1>12, <1>14, <1>15, <1>17, <1>18, <1>19 DEF UiStrong, S

-----------------------------------------------------------------------------
\* The screens

LEMMA MayOpenIs ==
  ASSUME UiStrong, ui.top # "Login",
         NEW w \in Window \ {"Login", "Main", "NewKey", "ChangeKey", "DisableEncryption"}, Below(ui.top, w),
         ui.top = "RaceStatus" => w \notin {"SelectJobs", "Sections"}
  PROVE  MayOpen(w)
<1>1. RightData(ui.top, data)
  <2>1. FitsAll(Stack, data) /\ Stack[Len(Stack)] = ui.top /\ Len(Stack) \in 1..Len(Stack)
    BY StackNow
  <2> QED BY <2>1 DEF FitsAll
<1> QED BY <1>1 DEF MayOpen, RightData

LEMMA GoFrom ==
  ASSUME UiStrong, ui.top # "Login",
         NEW w \in Window \ {"Login", "Main", "NewKey", "ChangeKey", "DisableEncryption", "EventLog", "RawData",
                             "Confirmation", "SelectSites", "Browse"},
         Below(ui.top, w), ui.top = "RaceStatus" => w \notin {"SelectJobs", "Sections"}, Go(w)
  PROVE  UiStrong'
<1>1. MayOpen(w)
  BY MayOpenIs
<1> QED BY <1>1, GoStep

\* A question may be opened on every window lower than it.
LEMMA MayAsk ==
  ASSUME UiStrong, ui.top # "Login", Level(ui.top) < 11, NEW w \in {"Confirmation", "SelectSites"}
  PROVE  MayOpen(w)
<1>1. w \in Window \ {"Login", "Main", "NewKey", "ChangeKey", "DisableEncryption"} /\ w \notin {"SelectJobs", "Sections"}
  BY DEF Window, mainwindows
<1>2. Level(w) = 11 /\ ui.top # "Confirmation"
  BY DEF Level, Status
<1> QED BY <1>1, <1>2, MayOpenIs DEF Below

LEMMA goConfirmationStep ==
  ASSUME UiStrong, ui.top \notin {"Login", "Main", "AllSpreadJobs", "RaceStatus"}, Level(ui.top) < 11,
         NEW q \in Questions, goConfirmation(q) \/ goStrongConfirmation(q)
  PROVE  UiStrong'
<1>1. MayOpen("Confirmation")
  BY MayAsk
<1>2. PICK mode \in {"NORMAL", "STRONG"} : Ask(mode, q, "other", {q})
  BY DEF goConfirmation, goStrongConfirmation
<1>3. "other" = Keeper(ui.top) /\ {q} \in SUBSET Questions
  BY DEF Keeper
<1> QED BY <1>1, <1>2, <1>3, AskStep


LEMMA MainScreenStep ==
  ASSUME UiStrong, MainScreen
  PROVE  UiStrong'
<1>0. ui.top = "Main"
  BY DEF MainScreen
<1>1. ASSUME NEW w \in {"SiteStatus", "RaceStatus", "TransferJobStatus", "GlobalOptions", "Info", "ScoreBoard", "Metrics", "AllSpreadJobs", "EditSite", "Snake", "AllTransferJobs", "Transfers"}, Go(w) PROVE UiStrong'
  <2>1. w \in Window /\ Below(ui.top, w)
    BY <1>0 DEF Window, mainwindows, Unlisted, Below, Level, Status
  <2> QED BY <1>0, <1>1, <2>1, GoFrom
<1>2. ASSUME NEW w \in {"EventLog", "RawCommand"}, GoWatching(w) PROVE UiStrong'
  <2>1. w \in Window /\ Below(ui.top, w) /\ w \in Watchers
    BY <1>0 DEF Window, mainwindows, Watchers, Below, Level, Status
  <2>2. MayOpen(w)
    BY <1>0, <2>1, MayOpenIs
  <2> QED BY <1>2, <2>1, <2>2, GoWatchingStep
<1>3. ASSUME NEW mode \in {"EDIT", "SELECT"}, goSections(mode) PROVE UiStrong'
  <2>1. "Sections" \in Window /\ Below(ui.top, "Sections")
    BY <1>0 DEF Window, mainwindows, Below, Level, Status
  <2>2. MayOpen("Sections")
    BY <1>0, <2>1, MayOpenIs
  <2> QED BY <1>3, <2>2, goSectionsStep
<1>4. ASSUME (\E twosides \in BOOLEAN : GoBrowse(twosides)) \/ goContinueBrowsing PROVE UiStrong'
  <2>1. "Browse" \in Window /\ Below(ui.top, "Browse")
    BY <1>0 DEF Window, mainwindows, Below, Level, Status
  <2>2. MayOpen("Browse")
    BY <1>0, <2>1, MayOpenIs
  <2> QED BY <1>4, <2>2, GoBrowseStep
<1>5. ASSUME NEW q \in Questions,
             \/ Ask("NORMAL", q, "Main", asked["Main"]) \/ Ask("NORMAL", q, "Main", asked["Main"] \cup {q})
             \/ Remember("Main", asked["Main"] \cup {q})
      PROVE  UiStrong'
  <2>1. MayOpen("Confirmation") /\ "Main" = Keeper(ui.top)
    BY <1>0, MayAsk DEF Level, Status, Keeper
  <2>2. asked["Main"] \in SUBSET (Questions \cup SelectModes)
    BY DEF UiStrong, UiShape, AskedRec
  <2>3. asked["Main"] \cup {q} \in SUBSET (Questions \cup SelectModes)
    BY <2>2
  <2> QED BY <1>5, <2>1, <2>2, <2>3, AskStep, RememberStep
<1> QED BY <1>1, <1>2, <1>3, <1>4, <1>5 DEF MainScreen, Questions

LEMMA AllSpreadJobsScreenStep ==
  ASSUME UiStrong, AllSpreadJobsScreen
  PROVE  UiStrong'
<1>0. ui.top = "AllSpreadJobs"
  BY DEF AllSpreadJobsScreen
<1>1. ASSUME NEW w \in {"RaceStatus", "SpreadJobsFilter", "Transfers"}, Go(w) PROVE UiStrong'
  <2>1. w \in Window /\ Below(ui.top, w)
    BY <1>0 DEF Window, mainwindows, Unlisted, Below, Level, Status
  <2> QED BY <1>0, <1>1, <2>1, GoFrom
<1>2. ASSUME returnToLast PROVE UiStrong'
  BY <1>0, <1>2, returnToLastStep DEF Watchers
<1>3. ASSUME NEW q \in Questions,
             \/ Ask("NORMAL", q, "AllSpreadJobs", asked["AllSpreadJobs"]) \/ Ask("NORMAL", q, "AllSpreadJobs", asked["AllSpreadJobs"] \cup {q})
             \/ Remember("AllSpreadJobs", asked["AllSpreadJobs"] \cup {q})
      PROVE  UiStrong'
  <2>1. MayOpen("Confirmation") /\ "AllSpreadJobs" = Keeper(ui.top)
    BY <1>0, MayAsk DEF Level, Status, Keeper
  <2>2. asked["AllSpreadJobs"] \in SUBSET (Questions \cup SelectModes)
    BY DEF UiStrong, UiShape, AskedRec
  <2>3. asked["AllSpreadJobs"] \cup {q} \in SUBSET (Questions \cup SelectModes)
    BY <2>2
  <2> QED BY <1>3, <2>1, <2>2, <2>3, AskStep, RememberStep
<1> QED BY <1>1, <1>2, <1>3 DEF AllSpreadJobsScreen, Questions

LEMMA AllTransferJobsScreenStep ==
  ASSUME UiStrong, AllTransferJobsScreen
  PROVE  UiStrong'
<1>0. ui.top = "AllTransferJobs"
  BY DEF AllTransferJobsScreen
<1>1. ASSUME NEW w \in {"TransferJobStatus", "TransferJobsFilter", "Transfers"}, Go(w) PROVE UiStrong'
  <2>1. w \in Window /\ Below(ui.top, w)
    BY <1>0 DEF Window, mainwindows, Unlisted, Below, Level, Status
  <2> QED BY <1>0, <1>1, <2>1, GoFrom
<1>2. ASSUME (\E twosides \in BOOLEAN : GoBrowse(twosides)) \/ goContinueBrowsing PROVE UiStrong'
  <2>1. "Browse" \in Window /\ Below(ui.top, "Browse")
    BY <1>0 DEF Window, mainwindows, Below, Level, Status
  <2>2. MayOpen("Browse")
    BY <1>0, <2>1, MayOpenIs
  <2> QED BY <1>2, <2>2, GoBrowseStep
<1>3. ASSUME NEW q \in {"abortTransferJob"}, goConfirmation(q) \/ goStrongConfirmation(q) PROVE UiStrong'
  <2>1. Level(ui.top) < 11 /\ q \in Questions
    BY <1>0 DEF Level, Status, Questions
  <2> QED BY <1>0, <1>3, <2>1, goConfirmationStep
<1>4. ASSUME returnToLast PROVE UiStrong'
  BY <1>0, <1>4, returnToLastStep DEF Watchers
<1> QED BY <1>1, <1>2, <1>3, <1>4 DEF AllTransferJobsScreen

LEMMA RaceStatusScreenStep ==
  ASSUME UiStrong, RaceStatusScreen
  PROVE  UiStrong'
<1>0. ui.top = "RaceStatus"
  BY DEF RaceStatusScreen
<1>1. ASSUME NEW w \in {"Transfers", "SiteStatus", "EditSite"}, Go(w) PROVE UiStrong'
  <2>1. w \in Window /\ Below(ui.top, w)
    BY <1>0 DEF Window, mainwindows, Unlisted, Below, Level, Status
  <2> QED BY <1>0, <1>1, <2>1, GoFrom
<1>2. ASSUME (\E twosides \in BOOLEAN : GoBrowse(twosides)) \/ goContinueBrowsing PROVE UiStrong'
  <2>1. "Browse" \in Window /\ Below(ui.top, "Browse")
    BY <1>0 DEF Window, mainwindows, Below, Level, Status
  <2>2. MayOpen("Browse")
    BY <1>0, <2>1, MayOpenIs
  <2> QED BY <1>2, <2>2, GoBrowseStep
<1>3. ASSUME NEW w \in {"RawCommand"}, GoWatching(w) PROVE UiStrong'
  <2>1. w \in Window /\ Below(ui.top, w) /\ w \in Watchers
    BY <1>0 DEF Window, mainwindows, Watchers, Below, Level, Status
  <2>2. MayOpen(w)
    BY <1>0, <2>1, MayOpenIs
  <2> QED BY <1>3, <2>1, <2>2, GoWatchingStep
<1>4. ASSUME NEW q \in RaceQuestions, Ask("NORMAL", q, "RaceStatus", asked["RaceStatus"] \cup {q}) PROVE UiStrong'
  <2>1. MayOpen("Confirmation") /\ "RaceStatus" = Keeper(ui.top) /\ ui.top # "Confirmation"
    BY <1>0, MayAsk DEF Level, Status, Keeper
  <2>2. asked["RaceStatus"] = {}
    BY <2>1, NotAsking
  <2>3. q \in Questions /\ asked["RaceStatus"] \cup {q} \in SUBSET Questions
    BY <2>2 DEF RaceQuestions, Questions
  <2> QED BY <1>4, <2>1, <2>3, AskStep
<1>5. ASSUME NEW mode \in SelectModes, goSelectSites(mode) PROVE UiStrong'
  <2>1. MayOpen("SelectSites")
    BY <1>0, MayAsk DEF Level, Status
  <2> QED BY <1>0, <1>5, <2>1, goSelectSitesStep
<1>6. ASSUME returnToLast PROVE UiStrong'
  BY <1>0, <1>6, returnToLastStep DEF Watchers
<1> QED BY <1>1, <1>2, <1>3, <1>4, <1>5, <1>6 DEF RaceStatusScreen, RaceQuestions

LEMMA TransferJobStatusScreenStep ==
  ASSUME UiStrong, TransferJobStatusScreen
  PROVE  UiStrong'
<1>0. ui.top = "TransferJobStatus"
  BY DEF TransferJobStatusScreen
<1>1. ASSUME (\E twosides \in BOOLEAN : GoBrowse(twosides)) \/ goContinueBrowsing PROVE UiStrong'
  <2>1. "Browse" \in Window /\ Below(ui.top, "Browse")
    BY <1>0 DEF Window, mainwindows, Below, Level, Status
  <2>2. MayOpen("Browse")
    BY <1>0, <2>1, MayOpenIs
  <2> QED BY <1>1, <2>2, GoBrowseStep
<1>2. ASSUME Go("Transfers") PROVE UiStrong'
  <2>1. "Transfers" \in Window /\ Below(ui.top, "Transfers")
    BY <1>0 DEF Window, mainwindows, Unlisted, Below, Level, Status
  <2> QED BY <1>0, <1>2, <2>1, GoFrom
<1>3. ASSUME NEW q \in {"abortTransferJob"}, goConfirmation(q) \/ goStrongConfirmation(q) PROVE UiStrong'
  <2>1. Level(ui.top) < 11 /\ q \in Questions
    BY <1>0 DEF Level, Status, Questions
  <2> QED BY <1>0, <1>3, <2>1, goConfirmationStep
<1>4. ASSUME returnToLast PROVE UiStrong'
  BY <1>0, <1>4, returnToLastStep DEF Watchers
<1> QED BY <1>1, <1>2, <1>3, <1>4 DEF TransferJobStatusScreen

LEMMA SiteStatusScreenStep ==
  ASSUME UiStrong, SiteStatusScreen
  PROVE  UiStrong'
<1>0. ui.top = "SiteStatus"
  BY DEF SiteStatusScreen
<1>1. ASSUME NEW w \in {"EditSite", "Transfers", "AllTransferJobs", "AllSpreadJobs"}, Go(w) PROVE UiStrong'
  <2>1. w \in Window /\ Below(ui.top, w)
    BY <1>0 DEF Window, mainwindows, Unlisted, Below, Level, Status
  <2> QED BY <1>0, <1>1, <2>1, GoFrom
<1>2. ASSUME NEW w \in {"RawData", "RawCommand"}, GoWatching(w) PROVE UiStrong'
  <2>1. w \in Window /\ Below(ui.top, w) /\ w \in Watchers
    BY <1>0 DEF Window, mainwindows, Watchers, Below, Level, Status
  <2>2. MayOpen(w)
    BY <1>0, <2>1, MayOpenIs
  <2> QED BY <1>2, <2>1, <2>2, GoWatchingStep
<1>3. ASSUME (\E twosides \in BOOLEAN : GoBrowse(twosides)) \/ goContinueBrowsing PROVE UiStrong'
  <2>1. "Browse" \in Window /\ Below(ui.top, "Browse")
    BY <1>0 DEF Window, mainwindows, Below, Level, Status
  <2>2. MayOpen("Browse")
    BY <1>0, <2>1, MayOpenIs
  <2> QED BY <1>3, <2>2, GoBrowseStep
<1>4. ASSUME NEW q \in {"resetHourly", "resetAll"}, goConfirmation(q) \/ goStrongConfirmation(q) PROVE UiStrong'
  <2>1. Level(ui.top) < 11 /\ q \in Questions
    BY <1>0 DEF Level, Status, Questions
  <2> QED BY <1>0, <1>4, <2>1, goConfirmationStep
<1>5. ASSUME returnToLast PROVE UiStrong'
  BY <1>0, <1>5, returnToLastStep DEF Watchers
<1> QED BY <1>1, <1>2, <1>3, <1>4, <1>5 DEF SiteStatusScreen

LEMMA InfoScreenStep ==
  ASSUME UiStrong, InfoScreen
  PROVE  UiStrong'
<1>0. ui.top = "Info"
  BY DEF InfoScreen
<1>1. ASSUME NEW q \in {"resetHourly", "resetHourlyTotals", "resetAll", "resetAllTotals"}, goConfirmation(q) \/ goStrongConfirmation(q) PROVE UiStrong'
  <2>1. Level(ui.top) < 11 /\ q \in Questions
    BY <1>0 DEF Level, Status, Questions
  <2> QED BY <1>0, <1>1, <2>1, goConfirmationStep
<1>2. ASSUME returnToLast PROVE UiStrong'
  BY <1>0, <1>2, returnToLastStep DEF Watchers
<1> QED BY <1>1, <1>2 DEF InfoScreen

LEMMA TransfersScreenStep ==
  ASSUME UiStrong, TransfersScreen
  PROVE  UiStrong'
<1>0. ui.top = "Transfers"
  BY DEF TransfersScreen
<1>1. ASSUME Go("TransferStatus") PROVE UiStrong'
  <2>1. "TransferStatus" \in Window /\ Below(ui.top, "TransferStatus")
    BY <1>0 DEF Window, mainwindows, Unlisted, Below, Level, Status
  <2> QED BY <1>0, <1>1, <2>1, GoFrom
<1>2. ASSUME Go("TransfersFilter") PROVE UiStrong'
  <2>1. "TransfersFilter" \in Window /\ Below(ui.top, "TransfersFilter")
    BY <1>0 DEF Window, mainwindows, Unlisted, Below, Level, Status
  <2> QED BY <1>0, <1>2, <2>1, GoFrom
<1>3. ASSUME returnToLast PROVE UiStrong'
  BY <1>0, <1>3, returnToLastStep DEF Watchers
<1> QED BY <1>1, <1>2, <1>3 DEF TransfersScreen

LEMMA TransfersFilterScreenStep ==
  ASSUME UiStrong, TransfersFilterScreen
  PROVE  UiStrong'
<1>0. ui.top = "TransfersFilter"
  BY DEF TransfersFilterScreen
<1>1. ASSUME Go("SelectJobs") PROVE UiStrong'
  <2>1. "SelectJobs" \in Window /\ Below(ui.top, "SelectJobs")
    BY <1>0 DEF Window, mainwindows, Unlisted, Below, Level, Status
  <2> QED BY <1>0, <1>1, <2>1, GoFrom
<1>2. ASSUME NEW mode \in {None}, goSelectSites(mode) PROVE UiStrong'
  <2>1. MayOpen("SelectSites")
    BY <1>0, MayAsk DEF Level, Status
  <2> QED BY <1>0, <1>2, <2>1, goSelectSitesStep
<1>3. ASSUME returnFilters("Transfers") PROVE UiStrong'
  <2>1. "Transfers" \in Window
    BY DEF Window, mainwindows
  <2> QED BY <1>0, <1>3, <2>1, returnFiltersStep DEF Watchers
<1>4. ASSUME returnToLast PROVE UiStrong'
  BY <1>0, <1>4, returnToLastStep DEF Watchers
<1> QED BY <1>1, <1>2, <1>3, <1>4 DEF TransfersFilterScreen

LEMMA SpreadJobsFilterScreenStep ==
  ASSUME UiStrong, SpreadJobsFilterScreen
  PROVE  UiStrong'
<1>0. ui.top = "SpreadJobsFilter"
  BY DEF SpreadJobsFilterScreen
<1>1. ASSUME NEW mode \in {None}, goSelectSites(mode) PROVE UiStrong'
  <2>1. MayOpen("SelectSites")
    BY <1>0, MayAsk DEF Level, Status
  <2> QED BY <1>0, <1>1, <2>1, goSelectSitesStep
<1>2. ASSUME returnFilters("AllSpreadJobs") PROVE UiStrong'
  <2>1. "AllSpreadJobs" \in Window
    BY DEF Window, mainwindows
  <2> QED BY <1>0, <1>2, <2>1, returnFiltersStep DEF Watchers
<1>3. ASSUME returnToLast PROVE UiStrong'
  BY <1>0, <1>3, returnToLastStep DEF Watchers
<1> QED BY <1>1, <1>2, <1>3 DEF SpreadJobsFilterScreen

LEMMA TransferJobsFilterScreenStep ==
  ASSUME UiStrong, TransferJobsFilterScreen
  PROVE  UiStrong'
<1>0. ui.top = "TransferJobsFilter"
  BY DEF TransferJobsFilterScreen
<1>1. ASSUME NEW mode \in {None}, goSelectSites(mode) PROVE UiStrong'
  <2>1. MayOpen("SelectSites")
    BY <1>0, MayAsk DEF Level, Status
  <2> QED BY <1>0, <1>1, <2>1, goSelectSitesStep
<1>2. ASSUME returnFilters("AllTransferJobs") PROVE UiStrong'
  <2>1. "AllTransferJobs" \in Window
    BY DEF Window, mainwindows
  <2> QED BY <1>0, <1>2, <2>1, returnFiltersStep DEF Watchers
<1>3. ASSUME returnToLast PROVE UiStrong'
  BY <1>0, <1>3, returnToLastStep DEF Watchers
<1> QED BY <1>1, <1>2, <1>3 DEF TransferJobsFilterScreen

LEMMA EditSiteScreenStep ==
  ASSUME UiStrong, EditSiteScreen
  PROVE  UiStrong'
<1>0. ui.top = "EditSite"
  BY DEF EditSiteScreen
<1>1. ASSUME NEW w \in {"SkipList", "SiteSections", "SiteSlots"}, Go(w) PROVE UiStrong'
  <2>1. w \in Window /\ Below(ui.top, w)
    BY <1>0 DEF Window, mainwindows, Unlisted, Below, Level, Status
  <2> QED BY <1>0, <1>1, <2>1, GoFrom
<1>2. ASSUME NEW mode \in {None}, goSelectSites(mode) PROVE UiStrong'
  <2>1. MayOpen("SelectSites")
    BY <1>0, MayAsk DEF Level, Status
  <2> QED BY <1>0, <1>2, <2>1, goSelectSitesStep
<1>3. ASSUME goInfo PROVE UiStrong'
  <2>1. MayOpen("Confirmation")
    BY <1>0, MayAsk DEF Level, Status
  <2> QED BY <1>3, <2>1, goInfoStep
<1>4. ASSUME returnToLast PROVE UiStrong'
  BY <1>0, <1>4, returnToLastStep DEF Watchers
<1> QED BY <1>1, <1>2, <1>3, <1>4 DEF EditSiteScreen

LEMMA GlobalOptionsScreenStep ==
  ASSUME UiStrong, GlobalOptionsScreen
  PROVE  UiStrong'
<1>0. ui.top = "GlobalOptions"
  BY DEF GlobalOptionsScreen
<1>1. ASSUME NEW w \in {"SkipList", "ProxyOptions", "FileViewerSettings", "KeyBinds"}, Go(w) PROVE UiStrong'
  <2>1. w \in Window /\ Below(ui.top, w)
    BY <1>0 DEF Window, mainwindows, Unlisted, Below, Level, Status
  <2> QED BY <1>0, <1>1, <2>1, GoFrom
<1>2. ASSUME NEW w \in EncryptionEntries, Go(w) PROVE UiStrong'
  <2>1. RightData(ui.top, data) /\ data \in DataFileStates
    <3>1. FitsAll(Stack, data) /\ Stack[Len(Stack)] = ui.top /\ Len(Stack) \in 1..Len(Stack)
      BY StackNow
    <3> QED BY <3>1 DEF FitsAll, UiStrong, UiShape
  <2>2. w \in {"NewKey", "ChangeKey", "DisableEncryption"} /\ RightData(w, data)
    BY <1>0, <2>1 DEF EncryptionEntries, RightData, DataFileStates
  <2>3. w \in Window /\ Below(ui.top, w)
    BY <1>0, <2>2 DEF Window, mainwindows, Below, Level, Status
  <2>4. MayOpen(w)
    BY <1>0, <2>2, <2>3 DEF MayOpen
  <2> QED BY <1>2, <2>2, <2>4, GoStep
<1>3. ASSUME returnToLast PROVE UiStrong'
  BY <1>0, <1>3, returnToLastStep DEF Watchers
<1>4. ASSUME NEW mode \in LegendModes \ {frame.mode},
             LET f == setLegendMode(frame, mode)
             IN  /\ frame' = f
                 /\ ui' = Drawn(switchToLast(Reframed(ui, f)))
                 /\ did' = None
                 /\ UNCHANGED <<dialog, asked, browse, sections, connid, watched, data>>
      PROVE  UiStrong'
  BY <1>0, <1>4, LegendChosen
<1> QED BY <1>1, <1>2, <1>3, <1>4 DEF GlobalOptionsScreen

LEMMA NewKeyScreenStep ==
  ASSUME UiStrong, NewKeyScreen
  PROVE  UiStrong'
<1>0. ui.top = "NewKey"
  BY DEF NewKeyScreen
<1>1. ASSUME returnToLast PROVE UiStrong'
  BY <1>0, <1>1, returnToLastStep DEF Watchers
<1>2. ASSUME EncryptionSet("EXISTS_DECRYPTED") PROVE UiStrong'
  BY <1>0, <1>2, EncryptionSetStep
<1> QED BY <1>1, <1>2 DEF NewKeyScreen

LEMMA DisableEncryptionScreenStep ==
  ASSUME UiStrong, DisableEncryptionScreen
  PROVE  UiStrong'
<1>0. ui.top = "DisableEncryption"
  BY DEF DisableEncryptionScreen
<1>1. ASSUME returnToLast PROVE UiStrong'
  BY <1>0, <1>1, returnToLastStep DEF Watchers
<1>2. ASSUME EncryptionSet("EXISTS_PLAIN") PROVE UiStrong'
  BY <1>0, <1>2, EncryptionSetStep
<1> QED BY <1>1, <1>2 DEF DisableEncryptionScreen

LEMMA SelectSitesScreenStep ==
  ASSUME UiStrong, SelectSitesScreen
  PROVE  UiStrong'
<1>0. ui.top = "SelectSites"
  BY DEF SelectSitesScreen
<1>1. ASSUME returnSelectItems PROVE UiStrong'
  BY <1>0, <1>1, returnSelectItemsStep
<1>2. ASSUME CancelSelection PROVE UiStrong'
  BY <1>0, <1>2, CancelSelectionStep
<1> QED BY <1>1, <1>2 DEF SelectSitesScreen

LEMMA SelectJobsScreenStep ==
  ASSUME UiStrong, SelectJobsScreen
  PROVE  UiStrong'
<1>0. ui.top = "SelectJobs"
  BY DEF SelectJobsScreen
<1>1. ASSUME returnSelectItems PROVE UiStrong'
  BY <1>0, <1>1, returnSelectItemsStep
<1>2. ASSUME returnToLast PROVE UiStrong'
  BY <1>0, <1>2, returnToLastStep DEF Watchers
<1> QED BY <1>1, <1>2 DEF SelectJobsScreen

LEMMA SectionsScreenStep ==
  ASSUME UiStrong, SectionsScreen
  PROVE  UiStrong'
<1>0. ui.top = "Sections"
  BY DEF SectionsScreen
<1>1. ASSUME Go("EditSection") PROVE UiStrong'
  <2>1. "EditSection" \in Window /\ Below(ui.top, "EditSection")
    BY <1>0 DEF Window, mainwindows, Unlisted, Below, Level, Status
  <2> QED BY <1>0, <1>1, <2>1, GoFrom
<1>2. ASSUME NEW q \in {"removeSection"}, goConfirmation(q) \/ goStrongConfirmation(q) PROVE UiStrong'
  <2>1. Level(ui.top) < 11 /\ q \in Questions
    BY <1>0 DEF Level, Status, Questions
  <2> QED BY <1>0, <1>2, <2>1, goConfirmationStep
<1>3. ASSUME returnSelectItems PROVE UiStrong'
  BY <1>0, <1>3, returnSelectItemsStep
<1>4. ASSUME returnToLast PROVE UiStrong'
  BY <1>0, <1>4, returnToLastStep DEF Watchers
<1> QED BY <1>1, <1>2, <1>3, <1>4 DEF SectionsScreen

LEMMA EditSectionScreenStep ==
  ASSUME UiStrong, EditSectionScreen
  PROVE  UiStrong'
<1>0. ui.top = "EditSection"
  BY DEF EditSectionScreen
<1>1. ASSUME Go("SkipList") PROVE UiStrong'
  <2>1. "SkipList" \in Window /\ Below(ui.top, "SkipList")
    BY <1>0 DEF Window, mainwindows, Unlisted, Below, Level, Status
  <2> QED BY <1>0, <1>1, <2>1, GoFrom
<1>2. ASSUME returnToLast PROVE UiStrong'
  BY <1>0, <1>2, returnToLastStep DEF Watchers
<1> QED BY <1>1, <1>2 DEF EditSectionScreen

LEMMA SiteSectionsScreenStep ==
  ASSUME UiStrong, SiteSectionsScreen
  PROVE  UiStrong'
<1>0. ui.top = "SiteSections"
  BY DEF SiteSectionsScreen
<1>1. ASSUME Go("EditSiteSection") PROVE UiStrong'
  <2>1. "EditSiteSection" \in Window /\ Below(ui.top, "EditSiteSection")
    BY <1>0 DEF Window, mainwindows, Unlisted, Below, Level, Status
  <2> QED BY <1>0, <1>1, <2>1, GoFrom
<1>2. ASSUME returnToLast PROVE UiStrong'
  BY <1>0, <1>2, returnToLastStep DEF Watchers
<1> QED BY <1>1, <1>2 DEF SiteSectionsScreen

LEMMA EditSiteSectionScreenStep ==
  ASSUME UiStrong, EditSiteSectionScreen
  PROVE  UiStrong'
<1>0. ui.top = "EditSiteSection"
  BY DEF EditSiteSectionScreen
<1>1. ASSUME NEW mode \in {"EDIT", "SELECT"}, goSections(mode) PROVE UiStrong'
  <2>1. "Sections" \in Window /\ Below(ui.top, "Sections")
    BY <1>0 DEF Window, mainwindows, Below, Level, Status
  <2>2. MayOpen("Sections")
    BY <1>0, <2>1, MayOpenIs
  <2> QED BY <1>1, <2>2, goSectionsStep
<1>2. ASSUME NEW q \in {"updateSections"}, goConfirmation(q) \/ goStrongConfirmation(q) PROVE UiStrong'
  <2>1. Level(ui.top) < 11 /\ q \in Questions
    BY <1>0 DEF Level, Status, Questions
  <2> QED BY <1>0, <1>2, <2>1, goConfirmationStep
<1>3. ASSUME returnToLast PROVE UiStrong'
  BY <1>0, <1>3, returnToLastStep DEF Watchers
<1> QED BY <1>1, <1>2, <1>3 DEF EditSiteSectionScreen

LEMMA ProxyOptionsScreenStep ==
  ASSUME UiStrong, ProxyOptionsScreen
  PROVE  UiStrong'
<1>0. ui.top = "ProxyOptions"
  BY DEF ProxyOptionsScreen
<1>1. ASSUME Go("EditProxy") PROVE UiStrong'
  <2>1. "EditProxy" \in Window /\ Below(ui.top, "EditProxy")
    BY <1>0 DEF Window, mainwindows, Unlisted, Below, Level, Status
  <2> QED BY <1>0, <1>1, <2>1, GoFrom
<1>2. ASSUME NEW q \in {"removeProxy"}, goConfirmation(q) \/ goStrongConfirmation(q) PROVE UiStrong'
  <2>1. Level(ui.top) < 11 /\ q \in Questions
    BY <1>0 DEF Level, Status, Questions
  <2> QED BY <1>0, <1>2, <2>1, goConfirmationStep
<1>3. ASSUME returnToLast PROVE UiStrong'
  BY <1>0, <1>3, returnToLastStep DEF Watchers
<1> QED BY <1>1, <1>2, <1>3 DEF ProxyOptionsScreen

LEMMA SkipListScreenStep ==
  ASSUME UiStrong, SkipListScreen
  PROVE  UiStrong'
<1>0. ui.top = "SkipList"
  BY DEF SkipListScreen
<1>1. ASSUME goInfo PROVE UiStrong'
  <2>1. MayOpen("Confirmation")
    BY <1>0, MayAsk DEF Level, Status
  <2> QED BY <1>1, <2>1, goInfoStep
<1>2. ASSUME returnToLast PROVE UiStrong'
  BY <1>0, <1>2, returnToLastStep DEF Watchers
<1> QED BY <1>1, <1>2 DEF SkipListScreen

LEMMA EventLogScreenStep ==
  ASSUME UiStrong, EventLogScreen
  PROVE  UiStrong'
<1>0. ui.top = "EventLog"
  BY DEF EventLogScreen
<1>1. ASSUME goInfo PROVE UiStrong'
  <2>1. MayOpen("Confirmation")
    BY <1>0, MayAsk DEF Level, Status
  <2> QED BY <1>1, <2>1, goInfoStep
<1>2. ASSUME ReturnUnwatching PROVE UiStrong'
  BY <1>0, <1>2, ReturnUnwatchingStep DEF Watchers
<1> QED BY <1>1, <1>2 DEF EventLogScreen

LEMMA RawCommandScreenStep ==
  ASSUME UiStrong, RawCommandScreen
  PROVE  UiStrong'
<1>0. ui.top = "RawCommand"
  BY DEF RawCommandScreen
<1>1. ASSUME ReturnUnwatching PROVE UiStrong'
  BY <1>0, <1>1, ReturnUnwatchingStep DEF Watchers
<1> QED BY <1>1 DEF RawCommandScreen

LEMMA RawDataScreenStep ==
  ASSUME UiStrong, RawDataScreen
  PROVE  UiStrong'
<1>0. ui.top = "RawData"
  BY DEF RawDataScreen
<1>1. ASSUME goInfo PROVE UiStrong'
  <2>1. MayOpen("Confirmation")
    BY <1>0, MayAsk DEF Level, Status
  <2> QED BY <1>1, <2>1, goInfoStep
<1>2. ASSUME ReturnUnwatching PROVE UiStrong'
  BY <1>0, <1>2, ReturnUnwatchingStep DEF Watchers
<1>3. ASSUME goRawDataJump(1 - connid) PROVE UiStrong'
  BY <1>0, <1>3, goRawDataJumpStep
<1> QED BY <1>1, <1>2, <1>3 DEF RawDataScreen

LEMMA BrowseScreenStep ==
  ASSUME UiStrong, BrowseScreen
  PROVE  UiStrong'
<1>0. ui.top = "Browse"
  BY DEF BrowseScreen
<1>1. ASSUME NEW w \in {"NewRace", "EditSiteSection", "ViewFile", "Nuke", "MakeDir", "Move", "FileInfo", "SiteSections", "KeyBinds", "ExternalScripts"}, Go(w) PROVE UiStrong'
  <2>1. w \in Window /\ Below(ui.top, w)
    BY <1>0 DEF Window, mainwindows, Unlisted, Below, Level, Status
  <2> QED BY <1>0, <1>1, <2>1, GoFrom
<1>2. ASSUME NEW w \in {"RawCommand"}, GoWatching(w) PROVE UiStrong'
  <2>1. w \in Window /\ Below(ui.top, w) /\ w \in Watchers
    BY <1>0 DEF Window, mainwindows, Watchers, Below, Level, Status
  <2>2. MayOpen(w)
    BY <1>0, <2>1, MayOpenIs
  <2> QED BY <1>2, <2>1, <2>2, GoWatchingStep
<1>3. ASSUME Go("RawCommand") PROVE UiStrong'
  <2>1. "RawCommand" \in Window /\ Below(ui.top, "RawCommand")
    BY <1>0 DEF Window, mainwindows, Unlisted, Below, Level, Status
  <2> QED BY <1>0, <1>3, <2>1, GoFrom
<1>4. ASSUME goInfo PROVE UiStrong'
  <2>1. MayOpen("Confirmation")
    BY <1>0, MayAsk DEF Level, Status
  <2> QED BY <1>4, <2>1, goInfoStep
<1>5. ASSUME NEW mode \in {"NORMAL", "STRONG"}, Ask(mode, "browser", "other", {"browser"}) PROVE UiStrong'
  <2>1. MayOpen("Confirmation") /\ "other" = Keeper(ui.top)
    BY <1>0, MayAsk DEF Level, Status, Keeper
  <2>2. "browser" \in Questions /\ {"browser"} \in SUBSET (Questions \cup SelectModes)
    BY DEF Questions
  <2> QED BY <1>5, <2>1, <2>2, AskStep
<1>6. ASSUME returnToLast PROVE UiStrong'
  BY <1>0, <1>6, returnToLastStep DEF Watchers
<1>7. ASSUME browse' = [browse EXCEPT !.split = ~@], ui' = [ui EXCEPT !.split = ~browse.split], did' = None,
             UNCHANGED <<frame, dialog, asked, sections, connid, watched, data>>
      PROVE  UiStrong'
  BY <1>0, <1>7, BrowseSplitStep
<1> QED BY <1>1, <1>2, <1>3, <1>4, <1>5, <1>6, <1>7 DEF BrowseScreen

LEMMA NewRaceScreenStep ==
  ASSUME UiStrong, NewRaceScreen
  PROVE  UiStrong'
<1>0. ui.top = "NewRace"
  BY DEF NewRaceScreen
<1>1. ASSUME goInfo PROVE UiStrong'
  <2>1. MayOpen("Confirmation")
    BY <1>0, MayAsk DEF Level, Status
  <2> QED BY <1>1, <2>1, goInfoStep
<1>2. ASSUME returnToLast PROVE UiStrong'
  BY <1>0, <1>2, returnToLastStep DEF Watchers
<1>3. ASSUME returnRaceStatus PROVE UiStrong'
  BY <1>0, <1>3, returnRaceStatusStep
<1> QED BY <1>1, <1>2, <1>3 DEF NewRaceScreen

\* The windows that can only be left, or are left with their input.
LEMMA LeaveStep ==
  ASSUME UiStrong,
         \/ InputScreens \/ ViewFileScreen \/ KeyBindsScreen \/ EditProxyScreen \/ SiteSlotsScreen
         \/ FileViewerSettingsScreen \/ ExternalScriptsScreen \/ ChangeKeyScreen \/ ScoreBoardScreen
         \/ MetricsScreen \/ SnakeScreen \/ FileInfoScreen \/ TransferStatusScreen
  PROVE  UiStrong'
<1>1. ui.top \notin {"Login", "Main", "Confirmation"} /\ ui.top \notin Watchers /\ returnToLast
  BY DEF InputScreens, ViewFileScreen, KeyBindsScreen, EditProxyScreen, SiteSlotsScreen,
         FileViewerSettingsScreen, ExternalScriptsScreen, ChangeKeyScreen, ScoreBoardScreen,
         MetricsScreen, SnakeScreen, FileInfoScreen, TransferStatusScreen, Watchers
<1> QED BY <1>1, returnToLastStep

LEMMA keyPressedBaseStep ==
  ASSUME UiStrong, keyPressedBase
  PROVE  UiStrong'
<1>1. "KeyBinds" \in Window /\ Level("KeyBinds") = 12
  BY DEF Window, mainwindows, Level, Status
<1>2. Level(ui.top) < 12 \/ ui.top = "KeyBinds"
  BY DEF Level, Status
<1>3. Below(ui.top, "KeyBinds")
  BY <1>1, <1>2 DEF Below, keyPressedBase
<1> QED BY <1>1, <1>3, GoFrom DEF keyPressedBase

LEMMA StillStep == ASSUME UiStrong, UNCHANGED uivars PROVE UiStrong'
<1>1. /\ ui' = ui /\ frame' = frame /\ dialog' = dialog /\ asked' = asked /\ browse' = browse /\ sections' = sections
      /\ connid' = connid /\ watched' = watched /\ data' = data /\ did' = did
  BY DEF uivars
<1>2. Stack' = Stack
  BY <1>1 DEF Stack
<1>3. UiShape'
  BY <1>1 DEF UiStrong, UiShape
<1> QED BY <1>1, <1>2, <1>3 DEF UiStrong

LEMMA UiStep == ASSUME UiStrong, [UiNext]_uivars PROVE UiStrong'
BY ConfirmationStep, MainScreenStep, AllSpreadJobsScreenStep, AllTransferJobsScreenStep, RaceStatusScreenStep,
   TransferJobStatusScreenStep, SiteStatusScreenStep, InfoScreenStep, TransfersScreenStep,
   TransfersFilterScreenStep, SpreadJobsFilterScreenStep, TransferJobsFilterScreenStep, SelectSitesScreenStep,
   SelectJobsScreenStep, EditSiteScreenStep, GlobalOptionsScreenStep, NewKeyScreenStep,
   DisableEncryptionScreenStep, SectionsScreenStep, EditSectionScreenStep, SiteSectionsScreenStep,
   EditSiteSectionScreenStep, ProxyOptionsScreenStep, SkipListScreenStep, EventLogScreenStep,
   RawCommandScreenStep, RawDataScreenStep, BrowseScreenStep, NewRaceScreenStep, LeaveStep, LoginStep,
   keyPressedBaseStep, globalKeyBindsStep, terminalSizeChangedStep, StillStep
   DEF UiNext, FDData

\* The windows, the frame, what is watched and the state of the data file fit
\* together after every sequence of keys.
THEOREM UiCorrect == UiSpec => []UiInv
<1>1. UiInit => UiStrong
  BY UiInitStrong
<1>2. UiStrong /\ [UiNext]_uivars => UiStrong'
  BY UiStep
<1>3. UiStrong => UiInv
  BY UiStrongInv
<1> QED BY <1>1, <1>2, <1>3, PTL DEF UiSpec

\* What a step does, if it does anything, is what the user was asked.
IsAsked ==
  \/ ui.history # << >> /\ ui.history[Len(ui.history)] \in {"Main", "AllSpreadJobs"}
  \/ did' # None => dialog.mode \notin {None, "INFO"} /\ did' = dialog.about

LEMMA ConfirmationIsAsked == ASSUME UiStrong, ConfirmationScreen PROVE IsAsked
<1>1. ASSUME dialog.mode \in {"NORMAL", "STRONG"}, confirmYes PROVE IsAsked
  <2>1. ui.top = "Confirmation" /\ Asking(dialog)
    BY <1>1 DEF ConfirmationScreen, Asking
  <2>2. dialog.mode \notin {None, "INFO"}
    BY <1>1 DEF None
  <2> QED BY <1>1, <2>1, <2>2, confirmYesIs DEF IsAsked
<1>2. ASSUME did' = None PROVE IsAsked
  BY <1>2 DEF IsAsked
<1> QED BY <1>1, <1>2 DEF ConfirmationScreen, confirmNo

LEMMA SelectionIsAsked ==
  ASSUME UiStrong, ui.top \in {"SelectSites", "SelectJobs", "Sections"}, returnSelectItems
  PROVE  IsAsked
BY returnSelectItemsStep DEF IsAsked, None

\* The other steps start nothing.
LEMMA StartsNothing ==
  /\ \A w : Go(w) \/ GoWatching(w) \/ GoBrowse(w) \/ goSections(w) \/ goSelectSites(w) => did' = None
  /\ \A q : goConfirmation(q) \/ goStrongConfirmation(q) => did' = None
  /\ \A mode, q, who, keep : Ask(mode, q, who, keep) => did' = None
  /\ \A who, keep : Remember(who, keep) => did' = None
  /\ \A x : goRawDataJump(x) \/ returnFilters(x) \/ EncryptionSet(x) => did' = None
  /\ goContinueBrowsing \/ returnToLast \/ ReturnUnwatching \/ goInfo \/ CancelSelection \/ returnRaceStatus
       => did' = None
BY DEF Go, GoWatching, GoBrowse, goSections, goSelectSites, goConfirmation, goStrongConfirmation, Ask, Remember,
       goRawDataJump, returnFilters, EncryptionSet, goContinueBrowsing, returnToLast, ReturnUnwatching, goInfo,
       CancelSelection, returnRaceStatus

LEMMA OtherScreens ==
  ASSUME \/ MainScreen \/ AllSpreadJobsScreen \/ AllTransferJobsScreen \/ RaceStatusScreen \/ TransferJobStatusScreen
         \/ SiteStatusScreen \/ InfoScreen \/ TransfersScreen \/ TransfersFilterScreen \/ SpreadJobsFilterScreen
         \/ TransferJobsFilterScreen \/ EditSiteScreen
  PROVE  did' = None
<1>1. MainScreen => did' = None
  BY StartsNothing DEF MainScreen
<1>2. AllSpreadJobsScreen \/ AllTransferJobsScreen => did' = None
  BY StartsNothing DEF AllSpreadJobsScreen, AllTransferJobsScreen
<1>3. RaceStatusScreen \/ TransferJobStatusScreen => did' = None
  BY StartsNothing DEF RaceStatusScreen, TransferJobStatusScreen
<1>4. SiteStatusScreen \/ InfoScreen \/ TransfersScreen => did' = None
  BY StartsNothing DEF SiteStatusScreen, InfoScreen, TransfersScreen
<1>5. TransfersFilterScreen \/ SpreadJobsFilterScreen \/ TransferJobsFilterScreen \/ EditSiteScreen => did' = None
  BY StartsNothing DEF TransfersFilterScreen, SpreadJobsFilterScreen, TransferJobsFilterScreen, EditSiteScreen
<1> QED BY <1>1, <1>2, <1>3, <1>4, <1>5

LEMMA OtherForms ==
  ASSUME \/ GlobalOptionsScreen \/ NewKeyScreen \/ DisableEncryptionScreen \/ EditSectionScreen \/ SiteSectionsScreen
         \/ EditSiteSectionScreen \/ ProxyOptionsScreen \/ SkipListScreen \/ EventLogScreen \/ RawCommandScreen
         \/ RawDataScreen \/ BrowseScreen \/ NewRaceScreen
  PROVE  did' = None
<1>1. GlobalOptionsScreen => did' = None
  BY StartsNothing DEF GlobalOptionsScreen
<1>2. NewKeyScreen \/ DisableEncryptionScreen \/ EditSectionScreen \/ SiteSectionsScreen \/ EditSiteSectionScreen => did' = None
  BY StartsNothing DEF NewKeyScreen, DisableEncryptionScreen, EditSectionScreen, SiteSectionsScreen, EditSiteSectionScreen
<1>3. ProxyOptionsScreen \/ SkipListScreen \/ EventLogScreen \/ RawCommandScreen \/ RawDataScreen => did' = None
  BY StartsNothing DEF ProxyOptionsScreen, SkipListScreen, EventLogScreen, RawCommandScreen, RawDataScreen
<1>4. BrowseScreen => did' = None
  BY StartsNothing DEF BrowseScreen
<1>5. NewRaceScreen => did' = None
  BY StartsNothing DEF NewRaceScreen
<1> QED BY <1>1, <1>2, <1>3, <1>4, <1>5

LEMMA OtherSteps ==
  ASSUME \/ InputScreens \/ ViewFileScreen \/ KeyBindsScreen \/ EditProxyScreen \/ SiteSlotsScreen
         \/ FileViewerSettingsScreen \/ ExternalScriptsScreen \/ ChangeKeyScreen \/ ScoreBoardScreen
         \/ MetricsScreen \/ SnakeScreen \/ FileInfoScreen \/ TransferStatusScreen
         \/ LoginScreen \/ keyPressedBase \/ globalKeyBinds \/ terminalSizeChanged
  PROVE  did' = None
BY StartsNothing
   DEF InputScreens, ViewFileScreen, KeyBindsScreen, EditProxyScreen, SiteSlotsScreen,
       FileViewerSettingsScreen, ExternalScriptsScreen, ChangeKeyScreen, ScoreBoardScreen,
       MetricsScreen, SnakeScreen, FileInfoScreen, TransferStatusScreen,
       LoginScreen, keyPressedBase, globalKeyBinds, terminalSizeChanged

LEMMA StepIsAsked == ASSUME UiStrong, UiNext PROVE IsAsked
<1>1. ASSUME did' = None PROVE IsAsked
  BY <1>1 DEF IsAsked
<1>2. ASSUME SelectSitesScreen PROVE IsAsked
  BY <1>1, <1>2, SelectionIsAsked, StartsNothing DEF SelectSitesScreen
<1>3. ASSUME SelectJobsScreen PROVE IsAsked
  BY <1>1, <1>3, SelectionIsAsked, StartsNothing DEF SelectJobsScreen
<1>4. ASSUME SectionsScreen PROVE IsAsked
  BY <1>1, <1>4, SelectionIsAsked, StartsNothing DEF SectionsScreen
<1> QED BY <1>1, <1>2, <1>3, <1>4, ConfirmationIsAsked, OtherScreens, OtherForms, OtherSteps DEF UiNext, FDData

\* What a screen does after a "yes" or a selection is what the user was asked,
\* on every screen but the two whose abort key remembers a job without asking.
THEOREM AskedCorrect == UiSpec => ConfirmedIsAsked
<1>1. UiInit => UiStrong
  BY UiInitStrong
<1>2. UiStrong /\ [UiNext]_uivars => UiStrong'
  BY UiStep
<1>3. UiStrong /\ [UiNext]_uivars => [IsAsked]_uivars
  BY StepIsAsked
<1>4. UiSpec => [][IsAsked]_uivars
  BY <1>1, <1>2, <1>3, PTL DEF UiSpec
<1> QED BY <1>4 DEF ConfirmedIsAsked, IsAsked

-----------------------------------------------------------------------------
(* Browse *)

\* A set that holds 0, and the next of each number it holds, holds every number.
Shrinks == OpToRel(<, Nat)

LEMMA NatSetInduction ==
  ASSUME NEW S, 0 \in S, \A m \in Nat : m \in S => m + 1 \in S
  PROVE  Nat \subseteq S
<1> DEFINE T == Nat \ S
<1>1. SUFFICES ASSUME T # {} PROVE FALSE
  OBVIOUS
<1>2. IsWellFoundedOn(Shrinks, Nat)
  BY NatLessThanWellFounded DEF Shrinks, OpToRel
<1>3. PICK x \in T : \A y \in T : ~(<<y, x>> \in Shrinks)
  BY <1>1, <1>2, WFMin
<1>4. \A y \in T : ~(y < x)
  BY <1>3 DEF Shrinks, OpToRel
<1>5. x \in Nat /\ x # 0
  OBVIOUS
<1>6. x - 1 \in Nat /\ x - 1 \in S /\ (x - 1) + 1 = x
  BY <1>4, <1>5
<1> QED BY <1>6

(***************************************************************************)
(* A side of the browser.  A listing that is older than a change of the    *)
(* side is shown, or will be, only while the change is still to be         *)
(* reported, a refresh is due, or the exception of FreshWhenQuiet holds.   *)
(***************************************************************************)
Changed(s) == \E k \in DOMAIN s.requests : s.requests[k].type \in Changes /\ s.requests[k].state = "ok"
Listing(s) == \E k \in DOMAIN s.requests : s.requests[k].type = "FILELIST"
SomeLate(s) == \E k \in DOMAIN s.requests : s.requests[k].late
Remedied(s) == s.refreshafter \/ s.missed

FreshSide(s) ==
  /\ SomeLate(s) => Remedied(s) \/ Changed(s)
  /\ s.stale => Remedied(s) \/ Changed(s) \/ Listing(s)

\* Only a local side asks by itself, and only the first of its requests does.
AsksFirst(s) ==
  /\ \A k \in DOMAIN s.requests : s.requests[k].type = "PATH_INFO" => s.type = "LOCAL"
  /\ \A k \in DOMAIN s.requests : s.requests[k].state = "asked" => k = 1 /\ s.requests[k].type = "PATH_INFO"

SideGood(s) == s \in SideRec /\ FreshSide(s) /\ AsksFirst(s)

Waits(s) == s.requests # <<>> /\ Head(s.requests).state = "asked"

-----------------------------------------------------------------------------
(***************************************************************************)
(* Results taken over.                                                     *)
(***************************************************************************)
LEMMA SideFields ==
  ASSUME NEW s \in SideRec
  PROVE  /\ s.type \in {"SITE", "LOCAL", "SELECTOR"} /\ s.path \in BPath \cup {Nowhere}
         /\ s.selected \in SUBSET BName /\ s.requests \in Seq(RequestRec)
         /\ s.confirm \in {"NONE", "DELETE"} /\ s.refreshafter \in BOOLEAN
         /\ s.stale \in BOOLEAN /\ s.missed \in BOOLEAN
BY DEF SideRec

LEMMA RequestFields ==
  ASSUME NEW r \in RequestRec
  PROVE  /\ r.type \in Changes \cup {"FILELIST", "PATH_INFO"} /\ r.path \in BPath \cup {Nowhere}
         /\ r.files \in SUBSET BName /\ r.state \in {"pending", "ok", "failed", "asked"} /\ r.late \in BOOLEAN
BY DEF RequestRec

\* The recursion of HandleRequests defines a function.
LEMMA AfterExists ==
  ASSUME NEW s, NEW rs, NEW n \in Nat
  PROVE  \E f : f = [k \in 0..n |-> IF k = 0 THEN s ELSE HandleRequest(f[k - 1], rs[k])]
<1> DEFINE Grown(q, i) == HandleRequest(q, rs[i])
           Step(g, i) == IF i = 0 THEN s ELSE Grown(g[i - 1], i)
           Has(m) == \E f : f = [i \in 0..m |-> Step(f, i)]
           S == {m \in Nat : Has(m)}
<1>1. 0 \in S
  <2> DEFINE f == [i \in 0..0 |-> s]
  <2>1. f = [i \in 0..0 |-> Step(f, i)]
    OBVIOUS
  <2> QED BY <2>1
<1> HIDE DEF Grown
<1>2. ASSUME NEW k \in Nat, k \in S PROVE k + 1 \in S
  <2>1. PICK f : f = [i \in 0..k |-> Step(f, i)]
    BY <1>2
  <2> DEFINE m == k + 1
             g == [i \in 0..m |-> IF i < m THEN f[i] ELSE Grown(f[m - 1], m)]
  <2>2. m \in Nat /\ m - 1 = k /\ m # 0
    OBVIOUS
  <2> HIDE DEF m
  <2>3. \A i \in 0..m : g[i] = Step(g, i)
    <3> SUFFICES ASSUME NEW i \in 0..m PROVE g[i] = Step(g, i)
      OBVIOUS
    <3>1. CASE i = 0
      <4>1. f[0] = Step(f, 0)
        BY <2>1
      <4> QED BY <2>2, <3>1, <4>1
    <3>2. CASE i # 0 /\ i < m
      <4>1. i \in 0..k /\ i - 1 \in 0..m /\ i - 1 < m
        BY <2>2, <3>2
      <4>2. f[i] = Grown(f[i - 1], i)
        BY <2>1, <3>2, <4>1
      <4>3. g[i] = f[i] /\ g[i - 1] = f[i - 1]
        BY <3>2, <4>1
      <4> HIDE DEF g
      <4> QED BY <3>2, <4>2, <4>3
    <3>3. CASE i = m
      <4>1. m - 1 \in 0..m /\ m - 1 < m /\ ~(m < m)
        BY <2>2
      <4>2. g[m] = Grown(f[m - 1], m) /\ g[m - 1] = f[m - 1]
        BY <2>2, <4>1
      <4> HIDE DEF g
      <4> QED BY <2>2, <3>3, <4>2
    <3> QED BY <2>2, <3>1, <3>2, <3>3
  <2>4. g = [i \in 0..m |-> Step(g, i)]
    BY <2>3
  <2> HIDE DEF g
  <2>5. Has(m)
    BY <2>4
  <2> QED BY <2>2, <2>5 DEF m
<1> HIDE DEF S
<1>3. Nat \subseteq S
  BY <1>1, <1>2, NatSetInduction
<1> QED BY <1>3 DEF S, Grown

\* f is the course of it.
Course(s, rs, f) ==
  /\ HandleRequests(s, rs) = f[Len(rs)] /\ f[0] = s
  /\ \A k \in 1..Len(rs) : f[k] = HandleRequest(f[k - 1], rs[k])

LEMMA HandledBy ==
  ASSUME NEW s, NEW rs, Len(rs) \in Nat
  PROVE  \E f : Course(s, rs, f)
<1> DEFINE f == CHOOSE g : g = [k \in 0..Len(rs) |-> IF k = 0 THEN s ELSE HandleRequest(g[k - 1], rs[k])]
<1>1. f = [k \in 0..Len(rs) |-> IF k = 0 THEN s ELSE HandleRequest(f[k - 1], rs[k])]
  BY AfterExists
<1>2. HandleRequests(s, rs) = f[Len(rs)]
  BY DEF HandleRequests
<1> HIDE DEF f
<1>3. f[0] = s /\ \A k \in 1..Len(rs) : f[k] = HandleRequest(f[k - 1], rs[k])
  BY <1>1
<1>4. Course(s, rs, f)
  BY <1>2, <1>3 DEF Course
<1> QED
  BY <1>4

\* What one result does.
SameAsks(s, t) == t.type = s.type /\ t.requests = s.requests /\ t.confirm = s.confirm

LEMMA OneHandled ==
  ASSUME NEW s \in SideRec, NEW r \in RequestRec
  PROVE  LET t == HandleRequest(s, r)
         IN /\ t \in SideRec /\ SameAsks(s, t)
            /\ s.refreshafter => t.refreshafter
            /\ s.missed /\ (r.type # "FILELIST" \/ SomeLate(s)) => t.missed
            /\ r.type \in Changes /\ r.state = "ok" => Remedied(t)
            /\ r.type = "FILELIST" /\ ~r.late => t.missed \/ ~t.stale
            /\ r.type # "FILELIST" => t.stale = s.stale
<1> DEFINE t == HandleRequest(s, r)
<1>1. r.type \in Changes \cup {"FILELIST", "PATH_INFO"} /\ "FILELIST" \notin Changes /\ r.late \in BOOLEAN
      /\ r.path \in BPath \cup {Nowhere} /\ s.missed \in BOOLEAN /\ s.stale \in BOOLEAN
  BY RequestFields, SideFields DEF Changes
<1>2. CASE r.type = "FILELIST"
  <2>1. t = LoadFileList(s, r)
    BY <1>2 DEF HandleRequest
  <2>2. CASE r.state = "failed"
    <3>1. t = [s EXCEPT !.missed = TRUE]
      BY <2>1, <2>2 DEF LoadFileList
    <3> QED
      BY <1>1, <1>2, <3>1 DEF SideRec, SameAsks, Remedied
  <2>3. CASE r.state # "failed"
    <3> DEFINE m == s.missed /\ \E k \in DOMAIN s.requests : s.requests[k].late
    <3>1. t = [s EXCEPT !.path = r.path, !.selected = {}, !.stale = r.late, !.missed = m]
      BY <2>1, <2>3 DEF LoadFileList
    <3>2. m \in BOOLEAN /\ (s.missed /\ SomeLate(s) => m)
      BY DEF SomeLate
    <3> HIDE DEF m
    <3>3. t \in SideRec /\ SameAsks(s, t) /\ t.refreshafter = s.refreshafter /\ t.missed = m /\ t.stale = r.late
      BY <1>1, <3>1, <3>2 DEF SideRec, SameAsks
    <3> QED
      BY <1>1, <1>2, <3>2, <3>3
  <2> QED
    BY <2>2, <2>3
<1>3. CASE r.type \in Changes
  <2>1. t = HandleChange(s, r)
    BY <1>1, <1>3 DEF HandleRequest
  <2>2. CASE s.type = "LOCAL" \/ (r.state = "ok" /\ r.path = s.path)
    <3>1. t = [s EXCEPT !.refreshafter = TRUE]
      BY <2>1, <2>2 DEF HandleChange
    <3> QED
      BY <1>1, <1>3, <3>1 DEF SideRec, SameAsks, Remedied
  <2>3. CASE ~(s.type = "LOCAL" \/ (r.state = "ok" /\ r.path = s.path))
    <3> DEFINE m == s.missed \/ r.state = "ok"
    <3>1. t = [s EXCEPT !.missed = m]
      BY <2>1, <2>3 DEF HandleChange
    <3>2. m \in BOOLEAN /\ (s.missed => m) /\ (r.state = "ok" => m)
      OBVIOUS
    <3> HIDE DEF m
    <3>3. t \in SideRec /\ SameAsks(s, t) /\ t.refreshafter = s.refreshafter /\ t.missed = m /\ t.stale = s.stale
      BY <3>1, <3>2 DEF SideRec, SameAsks
    <3> QED
      BY <1>1, <1>3, <3>2, <3>3 DEF Remedied
  <2> QED
    BY <2>2, <2>3
<1>4. CASE r.type = "PATH_INFO"
  BY <1>4 DEF HandleRequest, SameAsks, Changes
<1> QED
  BY <1>1, <1>2, <1>3, <1>4

\* What the first p results do.
OkChangeIn(s, p) == \E j \in 1..p : s.requests[j].type \in Changes /\ s.requests[j].state = "ok"
ListingIn(s, p) == \E j \in 1..p : s.requests[j].type = "FILELIST"

HandledSo(s, t, p) ==
  /\ t \in SideRec /\ SameAsks(s, t)
  /\ s.refreshafter => t.refreshafter
  /\ s.missed /\ (SomeLate(s) \/ ~ListingIn(s, p)) => t.missed
  /\ SomeLate(s) /\ OkChangeIn(s, p) => Remedied(t)
  /\ ~SomeLate(s) /\ t.stale => Remedied(t) \/ (s.stale /\ ~ListingIn(s, p) /\ ~OkChangeIn(s, p))

LEMMA NoneHandled ==
  ASSUME NEW s \in SideRec
  PROVE  HandledSo(s, s, 0)
BY DEF HandledSo, SameAsks, OkChangeIn, ListingIn

LEMMA NextHandled ==
  ASSUME NEW s \in SideRec, NEW t, NEW m \in Nat, m + 1 <= Len(s.requests), HandledSo(s, t, m)
  PROVE  HandledSo(s, HandleRequest(t, s.requests[m + 1]), m + 1)
<1> DEFINE r == s.requests[m + 1]
           u == HandleRequest(t, r)
<1>1. s.requests \in Seq(RequestRec) /\ m + 1 \in 1..Len(s.requests) /\ m + 1 \in DOMAIN s.requests
  BY SideFields
<1>2. r \in RequestRec
  BY <1>1
<1>3. t \in SideRec /\ SameAsks(s, t)
  BY DEF HandledSo
<1>4. SomeLate(t) <=> SomeLate(s)
  BY <1>3 DEF SomeLate, SameAsks
<1>5. ~SomeLate(s) => ~r.late
  BY <1>1 DEF SomeLate
<1>6. /\ OkChangeIn(s, m + 1) <=> OkChangeIn(s, m) \/ (r.type \in Changes /\ r.state = "ok")
      /\ ListingIn(s, m + 1) <=> ListingIn(s, m) \/ r.type = "FILELIST"
  <2>1. 1..(m + 1) = 1..m \cup {m + 1}
    OBVIOUS
  <2> QED
    BY <2>1 DEF OkChangeIn, ListingIn
<1> HIDE DEF r
<1>7. /\ u \in SideRec /\ SameAsks(t, u)
      /\ t.refreshafter => u.refreshafter
      /\ t.missed /\ (r.type # "FILELIST" \/ SomeLate(t)) => u.missed
      /\ r.type \in Changes /\ r.state = "ok" => Remedied(u)
      /\ r.type = "FILELIST" /\ ~r.late => u.missed \/ ~u.stale
      /\ r.type # "FILELIST" => u.stale = t.stale
  BY <1>2, <1>3, OneHandled
<1> HIDE DEF u
<1>8. SameAsks(s, u)
  BY <1>3, <1>7 DEF SameAsks
<1>9. s.refreshafter => u.refreshafter
  BY <1>7 DEF HandledSo
<1>10. s.missed /\ (SomeLate(s) \/ ~ListingIn(s, m + 1)) => u.missed
  BY <1>4, <1>6, <1>7 DEF HandledSo
<1>11. SomeLate(s) /\ OkChangeIn(s, m + 1) => Remedied(u)
  BY <1>4, <1>6, <1>7 DEF HandledSo, Remedied
<1>12. ~SomeLate(s) /\ u.stale => Remedied(u) \/ (s.stale /\ ~ListingIn(s, m + 1) /\ ~OkChangeIn(s, m + 1))
  BY <1>5, <1>6, <1>7 DEF HandledSo, Remedied
<1> QED
  BY <1>7, <1>8, <1>9, <1>10, <1>11, <1>12 DEF HandledSo, u, r

LEMMA PrefixHandled ==
  ASSUME NEW s \in SideRec, NEW p \in 0..Len(s.requests)
  PROVE  HandledSo(s, HandleRequests(s, SubSeq(s.requests, 1, p)), p)
<1> DEFINE rs == SubSeq(s.requests, 1, p)
<1>1. s.requests \in Seq(RequestRec) /\ Len(s.requests) \in Nat
  BY SideFields
<1>2. p \in Nat /\ Len(rs) = p /\ \A k \in 1..p : rs[k] = s.requests[k]
  BY <1>1
<1> HIDE DEF rs
<1>3. PICK f : Course(s, rs, f)
  BY <1>2, HandledBy
<1> DEFINE S == {m \in Nat : m <= p => HandledSo(s, f[m], m)}
<1>4. 0 \in S
  BY <1>3, NoneHandled DEF Course
<1>5. ASSUME NEW m \in Nat, m \in S PROVE m + 1 \in S
  <2> SUFFICES ASSUME m + 1 <= p PROVE HandledSo(s, f[m + 1], m + 1)
    OBVIOUS
  <2>1. m <= p /\ m + 1 \in 1..p /\ (m + 1) - 1 = m /\ m + 1 <= Len(s.requests)
    BY <1>1, <1>2
  <2>2. f[m + 1] = HandleRequest(f[m], s.requests[m + 1])
    BY <1>2, <1>3, <2>1 DEF Course
  <2>3. HandledSo(s, f[m], m)
    BY <1>5, <2>1
  <2> QED
    BY <2>1, <2>2, <2>3, NextHandled
<1> HIDE DEF S
<1>6. Nat \subseteq S
  BY <1>4, <1>5, NatSetInduction
<1>7. HandledSo(s, f[p], p)
  BY <1>2, <1>6 DEF S
<1> QED
  BY <1>2, <1>3, <1>7 DEF rs, Course

\* The requests that are taken over were ready, and none but the last asks.
LEMMA MaxExists ==
  ASSUME NEW n \in Nat, NEW T \in SUBSET (0..n), T # {}
  PROVE  \E k \in T : \A j \in T : j <= k
<1> DEFINE P(m) == \A U \in SUBSET (0..m) : U # {} => \E k \in U : \A j \in U : j <= k
           S == {m \in Nat : P(m)}
<1>1. 0 \in S
  <2> SUFFICES ASSUME NEW U \in SUBSET (0..0), U # {} PROVE \E k \in U : \A j \in U : j <= k
    OBVIOUS
  <2>1. \A j \in U : j = 0
    OBVIOUS
  <2>2. PICK k \in U : TRUE
    OBVIOUS
  <2>3. \A j \in U : j <= k
    BY <2>1
  <2> QED
    BY <2>3
<1>2. ASSUME NEW m \in Nat, m \in S PROVE m + 1 \in S
  <2> SUFFICES ASSUME NEW U \in SUBSET (0..(m + 1)), U # {} PROVE \E k \in U : \A j \in U : j <= k
    OBVIOUS
  <2>1. CASE m + 1 \in U
    <3>1. \A j \in U : j <= m + 1
      OBVIOUS
    <3> QED
      BY <2>1, <3>1
  <2>2. CASE m + 1 \notin U
    <3>1. U \in SUBSET (0..m)
      BY <2>2
    <3>2. P(m)
      BY <1>2
    <3> QED
      BY <3>1, <3>2
  <2> QED
    BY <2>1, <2>2
<1> HIDE DEF S
<1>3. Nat \subseteq S
  BY <1>1, <1>2, NatSetInduction
<1>4. P(n)
  BY <1>3 DEF S
<1> QED
  BY <1>4

LEMMA ReadyFacts ==
  ASSUME NEW s \in SideRec
  PROVE  LET n == ReadyCount(s)
         IN /\ n \in 0..Len(s.requests)
            /\ \A j \in 1..n : s.requests[j].state \in {"ok", "failed"}
            /\ \A j \in 1..(n - 1) : s.requests[j].type # "PATH_INFO"
<1> DEFINE Ready(k) == \A j \in 1..k : s.requests[j].state \in {"ok", "failed"}
           Stops(k) == \E j \in 1..(k - 1) : s.requests[j].type = "PATH_INFO"
           counts == {k \in 0..Len(s.requests) : Ready(k) /\ ~Stops(k)}
<1>1. Len(s.requests) \in Nat
  BY SideFields
<1>2. 0 \in counts /\ counts \in SUBSET (0..Len(s.requests))
  BY <1>1
<1>3. \E k \in counts : \A j \in counts : j <= k
  BY <1>1, <1>2, MaxExists
<1>4. ReadyCount(s) = CHOOSE k \in counts : \A j \in counts : j <= k
  BY DEF ReadyCount
<1>5. ReadyCount(s) \in counts
  BY <1>3, <1>4
<1> QED
  BY <1>5

-----------------------------------------------------------------------------
(***************************************************************************)
(* update of a side.                                                       *)
(***************************************************************************)
\* The requests that are left when p results have been taken over: the first of
\* them asks now, if asks.
LeftOf(s, p, asks, left) ==
  /\ left \in Seq(RequestRec) /\ Len(left) = Len(s.requests) - p
  /\ \A k \in 1..Len(left) :
       /\ k + p \in 1..Len(s.requests)
       /\ left[k].type = s.requests[k + p].type /\ left[k].late = s.requests[k + p].late
       /\ left[k].state = IF asks /\ k = 1 THEN "asked" ELSE s.requests[k + p].state

LEMMA RestLeft ==
  ASSUME NEW s \in SideRec, NEW p \in 0..Len(s.requests)
  PROVE  LeftOf(s, p, FALSE, SubSeq(s.requests, p + 1, Len(s.requests)))
<1> DEFINE left == SubSeq(s.requests, p + 1, Len(s.requests))
           n == Len(s.requests)
<1>1. s.requests \in Seq(RequestRec) /\ n \in Nat
  BY SideFields
<1>2. left \in Seq(RequestRec) /\ Len(left) = n - p /\ \A k \in 1..(n - p) : left[k] = s.requests[k + p]
  <2>1. left \in Seq(RequestRec)
    BY <1>1
  <2>2. Len(left) = n - p
    BY <1>1
  <2>3. ASSUME NEW k \in 1..(n - p) PROVE left[k] = s.requests[k + p]
    BY <1>1
  <2> QED
    BY <2>1, <2>2, <2>3
<1> HIDE DEF left
<1> QED
  BY <1>1, <1>2 DEF LeftOf

LEMMA AskedLeft ==
  ASSUME NEW s \in SideRec, NEW n \in 1..Len(s.requests)
  PROVE  LET rest == SubSeq(s.requests, n, Len(s.requests))
         IN LeftOf(s, n - 1, TRUE, <<[s.requests[n] EXCEPT !.state = "asked"]>> \o Tail(rest))
<1> DEFINE rest == SubSeq(s.requests, n, Len(s.requests))
           a == [s.requests[n] EXCEPT !.state = "asked"]
           l == Len(s.requests)
           left == <<a>> \o Tail(rest)
<1>1. s.requests \in Seq(RequestRec) /\ l \in Nat /\ n \in Nat /\ n >= 1 /\ n <= l /\ s.requests[n] \in RequestRec
  BY SideFields
<1>2. /\ a \in RequestRec /\ a.type = s.requests[n].type /\ a.late = s.requests[n].late /\ a.state = "asked"
  BY <1>1 DEF RequestRec
<1> HIDE DEF a
<1>3. rest \in Seq(RequestRec) /\ Len(rest) = l - n + 1 /\ rest # <<>>
  <2>1. rest \in Seq(RequestRec)
    BY <1>1
  <2>2. Len(rest) = l - n + 1
    BY <1>1
  <2> HIDE DEF rest
  <2>3. rest # <<>>
    BY <1>1, <2>2
  <2> QED
    BY <2>1, <2>2, <2>3
<1>4. \A k \in 1..(l - n + 1) : rest[k] = s.requests[k + (n - 1)]
  BY <1>1
<1> HIDE DEF rest
<1>5. Tail(rest) \in Seq(RequestRec) /\ Len(Tail(rest)) = l - n /\ \A k \in 1..(l - n) : Tail(rest)[k] = rest[k + 1]
  BY <1>1, <1>3
<1>6. left \in Seq(RequestRec) /\ Len(left) = l - (n - 1) /\ left[1] = a
  BY <1>1, <1>2, <1>5
<1>7. ASSUME NEW k \in 1..Len(left), k # 1
      PROVE  left[k] = s.requests[k + (n - 1)] /\ k + (n - 1) \in 1..l
  <2>1. k - 1 \in 1..(l - n) /\ k \in 1..(l - n + 1) /\ k + (n - 1) \in 1..l
    BY <1>1, <1>6, <1>7
  <2>2. left[k] = Tail(rest)[k - 1]
    BY <1>1, <1>2, <1>5, <2>1
  <2>3. Tail(rest)[k - 1] = rest[k]
    BY <1>1, <1>5, <2>1
  <2> QED
    BY <1>4, <2>1, <2>2, <2>3
<1> HIDE DEF left
<1>8. 1 + (n - 1) = n /\ n \in 1..l
  BY <1>1
<1> QED
  BY <1>1, <1>2, <1>6, <1>7, <1>8 DEF LeftOf, left, rest, a

\* d is what remains of s when p results are taken over: FreshSide is kept.
LEMMA FreshLeft ==
  ASSUME NEW s, NEW t, NEW d, NEW p \in 0..Len(s.requests), NEW asks \in BOOLEAN, SideGood(s),
         HandledSo(s, t, p), d = [t EXCEPT !.requests = d.requests], LeftOf(s, p, asks, d.requests),
         asks => p + 1 \in 1..Len(s.requests) /\ s.requests[p + 1].type = "PATH_INFO"
  PROVE  d \in SideRec /\ FreshSide(d) /\ d.type = s.type
<1>1. s \in SideRec /\ t \in SideRec /\ s.requests \in Seq(RequestRec) /\ d.requests \in Seq(RequestRec)
      /\ Len(s.requests) \in Nat
  BY SideFields DEF SideGood, HandledSo, LeftOf
<1>2. /\ d \in SideRec /\ d.type = t.type /\ d.refreshafter = t.refreshafter /\ d.missed = t.missed /\ d.stale = t.stale
  BY <1>1 DEF SideRec
<1>3. Remedied(d) <=> Remedied(t)
  BY <1>2 DEF Remedied
<1>4. DOMAIN s.requests = 1..Len(s.requests) /\ DOMAIN d.requests = 1..Len(d.requests)
  BY <1>1
<1>5. SomeLate(d) => SomeLate(s)
  BY <1>4 DEF SomeLate, LeftOf
<1>6. ASSUME NEW j \in 1..Len(s.requests), j > p
      PROVE  /\ j - p \in DOMAIN d.requests /\ d.requests[j - p].type = s.requests[j].type
             /\ s.requests[j].type # "PATH_INFO" => d.requests[j - p].state = s.requests[j].state
  <2>1. Len(d.requests) = Len(s.requests) - p /\ j - p \in 1..Len(d.requests) /\ (j - p) + p = j
    BY <1>1, <1>6 DEF LeftOf
  <2>2. j - p = 1 => j = p + 1
    BY <1>1, <1>6
  <2> QED
    BY <1>4, <2>1, <2>2 DEF LeftOf
<1>7. "PATH_INFO" \notin Changes
  BY DEF Changes
<1>8. Changed(s) => OkChangeIn(s, p) \/ Changed(d)
  <2> SUFFICES ASSUME NEW j \in 1..Len(s.requests), s.requests[j].type \in Changes, s.requests[j].state = "ok"
               PROVE  OkChangeIn(s, p) \/ Changed(d)
    BY <1>4 DEF Changed
  <2>1. CASE j > p
    BY <1>6, <1>7, <2>1 DEF Changed
  <2>2. CASE ~(j > p)
    <3>1. j \in 1..p
      BY <1>1, <2>2
    <3> QED
      BY <3>1 DEF OkChangeIn
  <2> QED
    BY <2>1, <2>2
<1>9. Listing(s) => ListingIn(s, p) \/ Listing(d)
  <2> SUFFICES ASSUME NEW j \in 1..Len(s.requests), s.requests[j].type = "FILELIST"
               PROVE  ListingIn(s, p) \/ Listing(d)
    BY <1>4 DEF Listing
  <2>1. CASE j > p
    BY <1>6, <2>1 DEF Listing
  <2>2. CASE ~(j > p)
    <3>1. j \in 1..p
      BY <1>1, <2>2
    <3> QED
      BY <3>1 DEF ListingIn
  <2> QED
    BY <2>1, <2>2
<1>10. SomeLate(s) => Remedied(d) \/ Changed(d)
  <2> SUFFICES ASSUME SomeLate(s) PROVE Remedied(d) \/ Changed(d)
    OBVIOUS
  <2>1. Remedied(s) \/ Changed(s)
    BY DEF SideGood, FreshSide
  <2>2. CASE Remedied(s)
    BY <1>3, <2>2 DEF HandledSo, Remedied
  <2>3. CASE Changed(s)
    BY <1>3, <1>8, <2>3 DEF HandledSo
  <2> QED
    BY <2>1, <2>2, <2>3
<1>11. ASSUME d.stale, ~SomeLate(s) PROVE Remedied(d) \/ Changed(d) \/ Listing(d)
  <2>1. Remedied(t) \/ (s.stale /\ ~ListingIn(s, p) /\ ~OkChangeIn(s, p))
    BY <1>2, <1>11 DEF HandledSo
  <2>2. ASSUME s.stale, ~ListingIn(s, p), ~OkChangeIn(s, p) PROVE Remedied(d) \/ Changed(d) \/ Listing(d)
    <3>1. Remedied(s) \/ Changed(s) \/ Listing(s)
      BY <2>2 DEF SideGood, FreshSide
    <3>2. Remedied(s) => Remedied(d)
      BY <1>3, <2>2 DEF HandledSo, Remedied
    <3> QED
      BY <1>8, <1>9, <2>2, <3>1, <3>2
  <2> QED
    BY <1>3, <2>1, <2>2
<1>12. d.type = s.type
  BY <1>2 DEF HandledSo, SameAsks
<1> QED
  BY <1>2, <1>5, <1>10, <1>11, <1>12 DEF FreshSide

LEMMA Requested ==
  ASSUME NEW type \in Changes \cup {"FILELIST", "PATH_INFO"}, NEW p \in BPath \cup {Nowhere}, NEW files \in SUBSET BName
  PROVE  LET r == Request(type, p, files)
         IN /\ r \in RequestRec /\ r.type = type /\ r.path = p /\ r.files = files
            /\ r.state = "pending" /\ ~r.late
BY DEF Request, RequestRec

LEMMA ListingAsked ==
  ASSUME NEW p \in BPath \cup {Nowhere}
  PROVE  /\ Request("FILELIST", p, {}) \in RequestRec /\ Request("FILELIST", p, {}).type = "FILELIST"
         /\ Request("FILELIST", p, {}).state = "pending" /\ ~Request("FILELIST", p, {}).late
BY Requested

\* A side that asks for more.
Extends(s, t, rs) ==
  /\ t = [s EXCEPT !.requests = s.requests \o rs]
  /\ rs \in Seq(RequestRec)
  /\ \A k \in DOMAIN rs : rs[k].state = "pending" /\ ~rs[k].late /\ (rs[k].type = "PATH_INFO" => s.type = "LOCAL")

LEMMA ExtendGood ==
  ASSUME NEW s, NEW t, NEW rs, SideGood(s), Extends(s, t, rs)
  PROVE  SideGood(t) /\ t.type = s.type /\ t.path = s.path /\ t.selected = s.selected
         /\ t.requests = s.requests \o rs /\ (Waits(t) <=> Waits(s))
<1>1. s \in SideRec /\ s.requests \in Seq(RequestRec) /\ rs \in Seq(RequestRec)
  BY SideFields DEF SideGood, Extends
<1> DEFINE q == s.requests \o rs
<1>2. /\ q \in Seq(RequestRec) /\ DOMAIN q = 1..(Len(s.requests) + Len(rs)) /\ DOMAIN s.requests = 1..Len(s.requests)
      /\ DOMAIN rs = 1..Len(rs) /\ Len(s.requests) \in Nat /\ Len(rs) \in Nat
      /\ Len(q) = Len(s.requests) + Len(rs)
  BY <1>1
<1>3. \A k \in DOMAIN s.requests : k \in DOMAIN q /\ q[k] = s.requests[k]
  BY <1>1, <1>2
<1>4. \A k \in DOMAIN q : k \notin DOMAIN s.requests => k - Len(s.requests) \in DOMAIN rs /\ q[k] = rs[k - Len(s.requests)]
  BY <1>1, <1>2
<1> HIDE DEF q
<1>5. t \in SideRec /\ t.requests = q /\ t.type = s.type /\ t.path = s.path /\ t.selected = s.selected
      /\ t.stale = s.stale /\ t.missed = s.missed /\ t.refreshafter = s.refreshafter
  BY <1>1, <1>2 DEF Extends, SideRec, q
<1>6. (SomeLate(t) => SomeLate(s)) /\ (Changed(s) => Changed(t)) /\ (Listing(s) => Listing(t))
  BY <1>3, <1>4, <1>5 DEF SomeLate, Changed, Listing, Extends
<1>7. FreshSide(t)
  BY <1>5, <1>6 DEF SideGood, FreshSide, Remedied
<1>8. AsksFirst(t)
  BY <1>3, <1>4, <1>5 DEF SideGood, AsksFirst, Extends
<1>9. Waits(t) <=> Waits(s)
  <2>1. CASE s.requests = <<>>
    <3>1. q # <<>> => Head(q) = q[1] /\ 1 \in DOMAIN q /\ 1 \notin DOMAIN s.requests
      BY <1>2, <2>1
    <3>2. q # <<>> => Head(q).state = "pending"
      BY <1>4, <3>1 DEF Extends
    <3> QED
      BY <1>5, <2>1, <3>2 DEF Waits
  <2>2. CASE s.requests # <<>>
    <3>1. 1 \in DOMAIN s.requests /\ q # <<>> /\ Head(q) = q[1] /\ Head(s.requests) = s.requests[1]
      BY <1>1, <1>2, <2>2
    <3> QED
      BY <1>3, <1>5, <2>2, <3>1 DEF Waits
  <2> QED
    BY <2>1, <2>2
<1> QED
  BY <1>5, <1>7, <1>8, <1>9 DEF SideGood, q

LEMMA OneMore ==
  ASSUME NEW s, NEW r \in RequestRec, SideGood(s), r.state = "pending", ~r.late, r.type = "PATH_INFO" => s.type = "LOCAL"
  PROVE  LET t == [s EXCEPT !.requests = Append(@, r)]
         IN SideGood(t) /\ t.type = s.type /\ t.path = s.path /\ t.selected = s.selected /\ (Waits(t) <=> Waits(s))
            /\ t.requests = Append(s.requests, r) /\ Append(s.requests, r) = s.requests \o <<r>>
<1> DEFINE t == [s EXCEPT !.requests = Append(@, r)]
<1>1. s \in SideRec /\ s.requests \in Seq(RequestRec)
  BY SideFields DEF SideGood
<1>2. Append(s.requests, r) = s.requests \o <<r>>
  BY <1>1
<1>3. t = [s EXCEPT !.requests = s.requests \o <<r>>]
  BY <1>2
<1>4. Extends(s, t, <<r>>)
  BY <1>3 DEF Extends
<1> HIDE DEF t
<1>5. SideGood(t) /\ t.type = s.type /\ t.path = s.path /\ t.selected = s.selected
      /\ t.requests = s.requests \o <<r>> /\ (Waits(t) <=> Waits(s))
  BY <1>4, ExtendGood
<1> QED
  BY <1>2, <1>5 DEF t

LEMMA GotoGood ==
  ASSUME NEW s, NEW p \in BPath \cup {Nowhere}, SideGood(s)
  PROVE  LET t == gotoPath(s, p)
         IN SideGood(t) /\ t.type = s.type /\ (Waits(t) <=> Waits(s))
<1>1. LET r == Request("FILELIST", p, {})
      IN r \in RequestRec /\ r.type = "FILELIST" /\ r.state = "pending" /\ ~r.late
  BY Requested
<1> QED
  BY <1>1, OneMore DEF gotoPath

LEMMA RefreshGood ==
  ASSUME NEW s, SideGood(s)
  PROVE  LET t == refreshFileList(s)
         IN SideGood(t) /\ t.type = s.type /\ (Waits(t) <=> Waits(s))
BY GotoGood, SideFields DEF refreshFileList, SideGood

\* A side that takes over what is ready: it asks at most what is now the first
\* of its requests.
Updated(s, h) ==
  /\ SideGood(h.side) /\ h.side.type = s.type
  /\ h.asks \in BOOLEAN /\ h.suggest \in BOOLEAN
  /\ Waits(h.side) <=> Waits(s) \/ h.asks
  /\ h.asks => ~Waits(s) /\ h.side.type = "LOCAL" /\ Head(h.side.requests).type = "PATH_INFO"
               /\ h.side.requests \in Seq(RequestRec) /\ h.side.requests # <<>>

LEMMA UpdateGood ==
  ASSUME NEW s, SideGood(s)
  PROVE  Updated(s, handleReadyRequests(s))
<1> DEFINE n == ReadyCount(s)
           asks == n > 0 /\ s.requests[n].type = "PATH_INFO"
           popped == TakenOver(n, asks)
           rest == SubSeq(s.requests, popped + 1, Len(s.requests))
           left == StillThere(s, n, asks)
           t == HandleRequests(s, SubSeq(s.requests, 1, popped))
           done == [t EXCEPT !.requests = left]
           refresh == n > 0 /\ left = <<>> /\ done.refreshafter
           d == [done EXCEPT !.refreshafter = FALSE]
           h == handleReadyRequests(s)
<1>1. h = [side |-> IF refresh THEN refreshFileList(d) ELSE done, suggest |-> refresh /\ s.type = "SITE", asks |-> asks]
  BY DEF handleReadyRequests
<1> HIDE DEF h
<1>2. s \in SideRec /\ s.requests \in Seq(RequestRec) /\ Len(s.requests) \in Nat /\ DOMAIN s.requests = 1..Len(s.requests)
      /\ s.requests = s.requests
  BY SideFields DEF SideGood
<1>3. /\ n \in 0..Len(s.requests)
      /\ \A j \in 1..n : s.requests[j].state \in {"ok", "failed"}
      /\ \A j \in 1..(n - 1) : s.requests[j].type # "PATH_INFO"
  BY <1>2, ReadyFacts
<1> HIDE DEF n
<1>4. asks \in BOOLEAN /\ popped \in 0..Len(s.requests) /\ (asks => n \in 1..Len(s.requests) /\ popped = n - 1)
  BY <1>2, <1>3 DEF TakenOver
<1>5. LeftOf(s, popped, asks, left)
  <2>1. CASE asks
    <3>1. n \in 1..Len(s.requests) /\ popped = n - 1 /\ popped + 1 = n /\ asks = TRUE
      BY <1>4, <2>1, <1>2, <1>3
    <3>2. left = <<[s.requests[n] EXCEPT !.state = "asked"]>> \o Tail(SubSeq(s.requests, n, Len(s.requests)))
      BY <2>1, <3>1 DEF StillThere
    <3>3. LeftOf(s, n - 1, TRUE, <<[s.requests[n] EXCEPT !.state = "asked"]>> \o Tail(SubSeq(s.requests, n, Len(s.requests))))
      BY <1>2, <3>1, AskedLeft
    <3> QED
      BY <3>1, <3>2, <3>3
  <2>2. CASE ~asks
    <3>1. asks = FALSE /\ left = rest
      BY <1>4, <2>2 DEF StillThere
    <3>2. LeftOf(s, popped, FALSE, rest)
      BY <1>2, <1>4, RestLeft
    <3> QED
      BY <3>1, <3>2
  <2> QED
    BY <2>1, <2>2
<1>6. HandledSo(s, t, popped)
  BY <1>2, <1>4, PrefixHandled
<1>7. asks => popped + 1 \in 1..Len(s.requests) /\ s.requests[popped + 1].type = "PATH_INFO" /\ popped + 1 = n
  BY <1>2, <1>3, <1>4
<1>8. asks => s.type = "LOCAL"
  BY <1>2, <1>4 DEF SideGood, AsksFirst
<1>9. Waits(s) => n = 0
  <2> SUFFICES ASSUME Waits(s), n # 0 PROVE FALSE
    OBVIOUS
  <2>1. 1 \in 1..n /\ Head(s.requests) = s.requests[1]
    BY <1>2, <1>3 DEF Waits
  <2> QED
    BY <1>3, <2>1 DEF Waits
<1> HIDE DEF asks, popped, left, t
<1>10. t \in SideRec /\ left \in Seq(RequestRec)
  BY <1>5, <1>6 DEF HandledSo, LeftOf
<1>11. done \in SideRec /\ done.requests = left /\ done = [t EXCEPT !.requests = done.requests]
  BY <1>10 DEF SideRec
<1>12. SideGood(s)
  OBVIOUS
<1> HIDE DEF done
<1>13. done \in SideRec /\ FreshSide(done) /\ done.type = s.type
  BY <1>4, <1>5, <1>6, <1>7, <1>11, FreshLeft
<1>14. AsksFirst(done) /\ (Waits(done) <=> Waits(s) \/ asks) /\ (asks => Head(left).type = "PATH_INFO" /\ left # <<>>)
  <2>1. Len(left) = Len(s.requests) - popped /\ DOMAIN left = 1..Len(left) /\ Len(left) \in Nat
    BY <1>2, <1>4, <1>5, <1>10 DEF LeftOf
  <2>2. ASSUME NEW k \in 1..Len(left), left[k].type = "PATH_INFO" PROVE done.type = "LOCAL"
    BY <1>2, <1>5, <1>13, <2>2 DEF LeftOf, SideGood, AsksFirst
  <2>3. ASSUME NEW k \in 1..Len(left), left[k].state = "asked", ~(asks /\ k = 1)
        PROVE  k = 1 /\ left[k].type = "PATH_INFO" /\ popped = 0 /\ Waits(s)
    <3>1. k + popped \in 1..Len(s.requests) /\ s.requests[k + popped].state = "asked"
          /\ left[k].type = s.requests[k + popped].type
      BY <1>5, <2>3 DEF LeftOf
    <3>2. k + popped = 1 /\ s.requests[k + popped].type = "PATH_INFO"
      BY <1>2, <3>1 DEF SideGood, AsksFirst
    <3>3. k = 1 /\ popped = 0
      BY <1>2, <1>4, <2>1, <3>2
    <3>4. s.requests # <<>> /\ Head(s.requests) = s.requests[1]
      BY <1>2, <3>1
    <3> QED
      BY <3>1, <3>2, <3>3, <3>4 DEF Waits
  <2>4. ASSUME asks PROVE 1 \in 1..Len(left) /\ left[1].state = "asked" /\ left[1].type = "PATH_INFO"
    <3>1. 1 \in 1..Len(left)
      BY <1>2, <1>3, <1>4, <2>1, <2>4
    <3>2. LeftOf(s, popped, TRUE, left)
      BY <1>4, <1>5, <2>4
    <3>3. left[1].state = "asked" /\ left[1].type = s.requests[1 + popped].type
      BY <3>1, <3>2 DEF LeftOf
    <3>4. 1 + popped = popped + 1
      BY <1>2, <1>4
    <3> QED
      BY <1>7, <2>4, <3>1, <3>3, <3>4
  <2>5. AsksFirst(done)
    BY <1>11, <2>1, <2>2, <2>3, <2>4 DEF AsksFirst
  <2>6. left # <<>> => 1 \in 1..Len(left) /\ Head(left) = left[1]
    BY <1>10, <2>1
  <2>7. asks => left # <<>> /\ Waits(done) /\ Head(left).type = "PATH_INFO"
    <3> SUFFICES ASSUME asks PROVE left # <<>> /\ Waits(done) /\ Head(left).type = "PATH_INFO"
      OBVIOUS
    <3>1. left # <<>>
      BY <2>1, <2>4
    <3> QED
      BY <1>11, <2>4, <2>6, <3>1 DEF Waits
  <2>8. Waits(done) /\ ~asks => Waits(s)
    BY <1>11, <2>3, <2>6 DEF Waits
  <2>9. Waits(s) => Waits(done)
    <3> SUFFICES ASSUME Waits(s) PROVE Waits(done)
      OBVIOUS
    <3>1. n = 0 /\ ~asks /\ popped = 0
      BY <1>9 DEF asks, popped, TakenOver
    <3>2. s.requests # <<>> /\ Head(s.requests) = s.requests[1] /\ Len(s.requests) >= 1
      BY <1>2 DEF Waits
    <3>3. 1 \in 1..Len(left) /\ 1 + 0 = 1
      BY <1>2, <2>1, <3>1, <3>2
    <3>4. left[1].state = s.requests[1].state
      BY <1>5, <3>1, <3>3 DEF LeftOf
    <3>5. left # <<>>
      BY <2>1, <3>3
    <3> QED
      BY <1>11, <2>6, <3>2, <3>4, <3>5 DEF Waits
  <2> QED
    BY <2>5, <2>7, <2>8, <2>9
<1>15. SideGood(done)
  BY <1>13, <1>14 DEF SideGood
<1>16. refresh => ~asks /\ ~Waits(done)
  BY <1>11, <1>14 DEF Waits
<1>17. refresh \in BOOLEAN
  BY <1>13, SideFields
<1>18. CASE refresh
  <2>1. d \in SideRec /\ d.requests = <<>> /\ d.type = done.type /\ done.requests = <<>> /\ d.path \in BPath \cup {Nowhere}
    BY <1>11, <1>13, <1>18 DEF SideRec
  <2> HIDE DEF d
  <2>2. h.side = gotoPath(d, d.path)
    BY <1>1, <1>18 DEF refreshFileList
  <2> DEFINE r == Request("FILELIST", d.path, {})
  <2>3. r \in RequestRec /\ r.type = "FILELIST" /\ r.state = "pending" /\ ~r.late
    BY <2>1, ListingAsked
  <2>4. h.side = [d EXCEPT !.requests = <<r>>]
    BY <2>1, <2>2 DEF gotoPath
  <2> HIDE DEF r
  <2>5. h.side \in SideRec /\ h.side.requests = <<r>> /\ h.side.type = d.type
    <3>1. <<r>> \in Seq(RequestRec)
      BY <2>3
    <3> QED
      BY <2>1, <2>4, <3>1 DEF SideRec
  <2>6. DOMAIN <<r>> = {1} /\ <<r>>[1] = r /\ Head(<<r>>) = r
    OBVIOUS
  <2>7. FreshSide(h.side) /\ AsksFirst(h.side) /\ ~Waits(h.side)
    BY <2>3, <2>5, <2>6 DEF FreshSide, AsksFirst, Waits, SomeLate, Listing
  <2>8. h.asks = FALSE /\ h.suggest \in BOOLEAN /\ h.side.type = s.type
    BY <1>1, <1>4, <1>13, <1>16, <1>17, <1>18, <2>1, <2>5
  <2>9. ~Waits(s)
    BY <1>14, <1>16, <1>18
  <2> QED
    BY <2>5, <2>7, <2>8, <2>9 DEF Updated, SideGood, h
<1>19. CASE ~refresh
  <2>1. h.side = done /\ h.asks = asks /\ h.suggest = FALSE
    <3> HIDE DEF refresh
    <3> QED
      BY <1>1, <1>17, <1>19
  <2>2. asks => ~Waits(s)
    BY <1>9 DEF asks
  <2>3. Waits(done) <=> Waits(s) \/ asks
    BY <1>14
  <2>4. asks => done.type = "LOCAL" /\ Head(done.requests).type = "PATH_INFO" /\ done.requests \in Seq(RequestRec)
                /\ done.requests # <<>>
    BY <1>8, <1>10, <1>11, <1>13, <1>14
  <2> QED
    BY <1>4, <1>13, <1>15, <2>1, <2>2, <2>3, <2>4 DEF Updated, h
<1> QED
  BY <1>18, <1>19 DEF h

-----------------------------------------------------------------------------
(***************************************************************************)
(* The inductive invariant.                                                *)
(***************************************************************************)
PaneRec == [split : BOOLEAN, active : Side, top : BOOLEAN]
QuestionRec == [kind : {"none", "confirm", "makedir", "move"}, asker : Side, path : BPath \cup {Nowhere},
                files : SUBSET BName]
WrongRec == [astray : BOOLEAN, assert : BOOLEAN]

\* A question about files is about what its side has selected, or about the
\* files the side waits with.
QuestionFits(s, q) ==
  \/ s.type = "SITE" /\ q.path = s.path /\ q.files = s.selected
  \/ s.type = "LOCAL" /\ Waits(s) /\ q.path = Head(s.requests).path /\ q.files = Head(s.requests).files

Seen(p, i) == i = 1 \/ p.split

BrowseStrong ==
  /\ sides \in [Side -> SideRec] /\ \A i \in Side : SideGood(sides[i])
  /\ pane \in PaneRec /\ question \in QuestionRec /\ wrong \in WrongRec
  /\ SideShown
  /\ \A i \in Side : ~wrong.astray /\ Seen(pane, i) /\ Waits(sides[i]) => question.kind = "confirm" /\ question.asker = i
  /\ question.kind = "confirm" => QuestionFits(sides[question.asker], question)

\* Two sides, one of them changed.
LEMMA OtherSide ==
  ASSUME NEW i \in Side
  PROVE  Other(i) \in Side /\ Other(i) # i /\ Other(Other(i)) = i /\ Side = {i, Other(i)}
BY DEF Side, Other

LEMMA SideSet ==
  ASSUME NEW all \in [Side -> SideRec], NEW i \in Side, NEW u, SideGood(u), \A j \in Side : SideGood(all[j])
  PROVE  LET both == [all EXCEPT ![i] = u]
         IN /\ both \in [Side -> SideRec] /\ both[i] = u /\ both[Other(i)] = all[Other(i)]
            /\ \A j \in Side : SideGood(both[j])
<1>1. u \in SideRec
  BY DEF SideGood
<1> QED
  BY <1>1, OtherSide

LEMMA SelectorGood ==
  SideGood(Selector) /\ ~Waits(Selector) /\ Selector.type = "SELECTOR"
<1>1. <<>> \in Seq(RequestRec) /\ DOMAIN <<>> = {}
  OBVIOUS
<1>2. Selector \in SideRec /\ Selector.requests = <<>> /\ ~Selector.stale /\ Selector.type = "SELECTOR"
  BY <1>1 DEF Selector, SideRec
<1> QED
  BY <1>1, <1>2 DEF SideGood, FreshSide, AsksFirst, Waits, SomeLate

LEMMA NewSideGood ==
  ASSUME NEW type \in {"SITE", "LOCAL"}, NEW p \in BPath
  PROVE  SideGood(NewSide(type, p)) /\ ~Waits(NewSide(type, p)) /\ NewSide(type, p).type = type
<1> DEFINE s == [Selector EXCEPT !.type = type]
<1>1. <<>> \in Seq(RequestRec) /\ DOMAIN <<>> = {}
  OBVIOUS
<1>2. s \in SideRec /\ s.requests = <<>> /\ ~s.stale /\ s.type = type
  BY <1>1 DEF Selector, SideRec
<1> HIDE DEF s
<1>3. SideGood(s) /\ ~Waits(s)
  BY <1>1, <1>2 DEF SideGood, FreshSide, AsksFirst, Waits, SomeLate
<1>4. p \in BPath \cup {Nowhere}
  OBVIOUS
<1>5. SideGood(gotoPath(s, p)) /\ gotoPath(s, p).type = s.type /\ (Waits(gotoPath(s, p)) <=> Waits(s))
  BY <1>3, <1>4, GotoGood
<1> QED
  BY <1>2, <1>3, <1>5 DEF NewSide, s

\* Nobody asks while no question is on screen.
LEMMA NobodyAsks ==
  ASSUME BrowseStrong, ~wrong.astray, question.kind # "confirm", NEW i \in Side, Seen(pane, i)
  PROVE  ~Waits(sides[i])
BY DEF BrowseStrong

LEMMA SiteNeverAsks ==
  ASSUME NEW s, SideGood(s), s.type # "LOCAL"
  PROVE  ~Waits(s)
<1>1. s.requests \in Seq(RequestRec)
  BY SideFields DEF SideGood
<1>2. s.requests # <<>> => 1 \in DOMAIN s.requests /\ Head(s.requests) = s.requests[1]
  BY <1>1
<1> QED
  BY <1>2 DEF SideGood, AsksFirst, Waits

LEMMA PaneFields ==
  ASSUME BrowseStrong
  PROVE  /\ pane.split \in BOOLEAN /\ pane.active \in Side /\ pane.top \in BOOLEAN /\ Seen(pane, pane.active)
         /\ sides[pane.active] \in SideRec /\ SideGood(sides[pane.active]) /\ Active = sides[pane.active]
         /\ question.asker \in Side /\ wrong.astray \in BOOLEAN /\ wrong.assert \in BOOLEAN
BY DEF BrowseStrong, PaneRec, QuestionRec, WrongRec, SideShown, Seen, Active

\* A step after which no question is on screen.
LEMMA Unasked ==
  ASSUME BrowseStrong, sides' \in [Side -> SideRec], \A i \in Side : SideGood(sides'[i]),
         pane' \in PaneRec, question' \in QuestionRec, wrong' \in WrongRec, question'.kind # "confirm",
         SideShown', \A i \in Side : ~wrong'.astray /\ Seen(pane', i) => ~Waits(sides'[i])
  PROVE  BrowseStrong'
BY DEF BrowseStrong

\* A step that puts a question on screen.
LEMMA Asked ==
  ASSUME BrowseStrong, sides' \in [Side -> SideRec], \A i \in Side : SideGood(sides'[i]),
         pane' \in PaneRec, question' \in QuestionRec, UNCHANGED wrong, SideShown',
         QuestionFits(sides'[question'.asker], question'), question'.kind = "confirm",
         \A i \in Side : i # question'.asker /\ Seen(pane', i) => ~Waits(sides'[i])
  PROVE  BrowseStrong'
BY DEF BrowseStrong

LEMMA BrowseStart ==
  ASSUME BrowseInit
  PROVE  BrowseStrong
<1>1. SplitPath \subseteq BPath
  BY BrowseAssumption
<1>2. Side = 1..2 /\ Side = {1, 2}
  BY DEF Side
<1>3. question \in QuestionRec /\ question.kind = "none" /\ wrong \in WrongRec
  BY DEF BrowseInit, NoQuestion, QuestionRec, WrongRec, Side
<1>4. PICK a, b : /\ sides = <<a, b>> /\ SideGood(a) /\ SideGood(b) /\ ~Waits(a) /\ ~Waits(b)
                  /\ a.type # "SELECTOR"
  BY <1>1, NewSideGood, SelectorGood DEF BrowseInit
<1>5. a \in SideRec /\ b \in SideRec
  BY <1>4 DEF SideGood
<1>6. sides[1] = a /\ sides[2] = b /\ sides \in [Side -> SideRec]
  BY <1>2, <1>4, <1>5
<1>7. pane \in PaneRec /\ (~pane.split => pane.active = 1)
  <2>1. \/ pane = [split |-> FALSE, active |-> 1, top |-> TRUE]
        \/ pane = [split |-> TRUE, active |-> 2, top |-> TRUE]
        \/ pane = [split |-> TRUE, active |-> 1, top |-> TRUE]
    BY DEF BrowseInit
  <2>2. 1 \in Side /\ 2 \in Side
    BY <1>2
  <2>3. CASE pane = [split |-> FALSE, active |-> 1, top |-> TRUE]
    BY <2>2, <2>3 DEF PaneRec
  <2>4. CASE pane = [split |-> TRUE, active |-> 2, top |-> TRUE]
    BY <2>2, <2>4 DEF PaneRec
  <2>5. CASE pane = [split |-> TRUE, active |-> 1, top |-> TRUE]
    BY <2>2, <2>5 DEF PaneRec
  <2> QED
    BY <2>1, <2>3, <2>4, <2>5
<1> QED
  BY <1>2, <1>3, <1>4, <1>6, <1>7 DEF BrowseStrong, SideShown

-----------------------------------------------------------------------------
(***************************************************************************)
(* Requests are executed.                                                  *)
(***************************************************************************)
\* A request that was pending has its result, and what has been listed of a
\* changed directory is marked.
ExecutedSo(s, u, k, result) ==
  LET hit == result = "ok" /\ s.requests[k].type \in Changes
  IN /\ u = [s EXCEPT !.requests = u.requests, !.stale = u.stale]
     /\ u.stale = (s.stale \/ (hit /\ s.requests[k].path = s.path))
     /\ u.requests \in Seq(RequestRec) /\ Len(u.requests) = Len(s.requests)
     /\ \A j \in 1..Len(s.requests) :
          /\ u.requests[j].type = s.requests[j].type /\ u.requests[j].path = s.requests[j].path
          /\ u.requests[j].files = s.requests[j].files
          /\ u.requests[j].state = IF j = k THEN result ELSE s.requests[j].state
          /\ u.requests[j].late => s.requests[j].late \/ hit
          /\ s.requests[j].type # "FILELIST" /\ j # k => u.requests[j] = s.requests[j]

LEMMA ExecuteShape ==
  ASSUME NEW i \in Side, NEW k \in 1..MaxRequests, BrowseStrong, k \in 1..Len(sides[i].requests), Execute(i, k)
  PROVE  \E result \in {"ok", "failed"} : \E u : /\ ExecutedSo(sides[i], u, k, result)
                                                  /\ sides' = [sides EXCEPT ![i] = u]
<1> DEFINE s == sides[i]
           Touched(result, j) ==
             LET q == s.requests[j]
                 hit == result = "ok" /\ s.requests[k].type \in Changes
             IN IF j = k THEN [q EXCEPT !.state = result]
                ELSE IF hit /\ q.type = "FILELIST" /\ q.state = "ok" /\ q.path = s.requests[k].path
                THEN [q EXCEPT !.late = TRUE] ELSE q
<1>1. s \in SideRec /\ sides \in [Side -> SideRec] /\ s.requests \in Seq(RequestRec) /\ Len(s.requests) \in Nat
      /\ DOMAIN s.requests = 1..Len(s.requests)
  BY SideFields DEF BrowseStrong
<1>2. PICK result \in {"ok", "failed"} :
        sides' = [sides EXCEPT ![i].requests = [j \in DOMAIN s.requests |-> Touched(result, j)],
                               ![i].stale = @ \/ ((result = "ok" /\ s.requests[k].type \in Changes)
                                                    /\ s.requests[k].path = s.path)]
  BY DEF Execute
<1> DEFINE hit == result = "ok" /\ s.requests[k].type \in Changes
           touched == [j \in 1..Len(s.requests) |-> Touched(result, j)]
           u == [s EXCEPT !.requests = touched, !.stale = s.stale \/ (hit /\ s.requests[k].path = s.path)]
<1>3. sides' = [sides EXCEPT ![i] = u]
  BY <1>1, <1>2
<1>4. ASSUME NEW j \in 1..Len(s.requests)
      PROVE  /\ Touched(result, j) \in RequestRec /\ Touched(result, j).type = s.requests[j].type
             /\ Touched(result, j).path = s.requests[j].path /\ Touched(result, j).files = s.requests[j].files
             /\ Touched(result, j).state = IF j = k THEN result ELSE s.requests[j].state
             /\ Touched(result, j).late => s.requests[j].late \/ hit
             /\ s.requests[j].type # "FILELIST" /\ j # k => Touched(result, j) = s.requests[j]
  <2> DEFINE q == s.requests[j]
  <2>1. q \in RequestRec /\ q.late \in BOOLEAN
    BY <1>1, RequestFields
  <2>2. CASE j = k
    <3>1. Touched(result, j) = [q EXCEPT !.state = result]
      BY <2>2
    <3> QED
      BY <2>1, <2>2, <3>1 DEF RequestRec
  <2>3. CASE j # k /\ hit /\ q.type = "FILELIST" /\ q.state = "ok" /\ q.path = s.requests[k].path
    <3>1. Touched(result, j) = [q EXCEPT !.late = TRUE]
      BY <2>3
    <3> QED
      BY <2>1, <2>3, <3>1 DEF RequestRec
  <2>4. CASE j # k /\ ~(hit /\ q.type = "FILELIST" /\ q.state = "ok" /\ q.path = s.requests[k].path)
    <3>1. Touched(result, j) = q
      BY <2>4
    <3> QED
      BY <2>1, <2>4, <3>1
  <2> QED
    BY <2>2, <2>3, <2>4
<1> HIDE DEF Touched
<1>5. touched \in Seq(RequestRec) /\ Len(touched) = Len(s.requests)
  BY <1>1, <1>4
<1> HIDE DEF touched
<1>6. u.requests = touched /\ u.stale = (s.stale \/ (hit /\ s.requests[k].path = s.path))
      /\ u = [s EXCEPT !.requests = u.requests, !.stale = u.stale]
  BY <1>1 DEF SideRec
<1>7. ExecutedSo(s, u, k, result)
  <2> HIDE DEF u
  <2>1. \A j \in 1..Len(s.requests) : u.requests[j] = Touched(result, j)
    BY <1>6 DEF touched
  <2> QED
    BY <1>4, <1>5, <1>6, <2>1 DEF ExecutedSo
<1> QED
  BY <1>3, <1>7

LEMMA ExecutedGood ==
  ASSUME NEW s, NEW u, NEW k \in 1..Len(s.requests), NEW result \in {"ok", "failed"}, SideGood(s),
         ExecutedSo(s, u, k, result), s.requests[k].state = "pending"
  PROVE  /\ SideGood(u) /\ (Waits(u) <=> Waits(s)) /\ u.type = s.type
         /\ \A q : QuestionFits(s, q) => QuestionFits(u, q)
<1> DEFINE hit == result = "ok" /\ s.requests[k].type \in Changes
<1>1. /\ s \in SideRec /\ s.requests \in Seq(RequestRec) /\ u.requests \in Seq(RequestRec) /\ Len(s.requests) \in Nat
      /\ s.stale \in BOOLEAN
      /\ DOMAIN s.requests = 1..Len(s.requests) /\ DOMAIN u.requests = 1..Len(s.requests)
  BY SideFields DEF SideGood, ExecutedSo
<1>2. u = [s EXCEPT !.requests = u.requests, !.stale = u.stale] /\ u.stale \in BOOLEAN
  BY DEF ExecutedSo
<1>3. /\ u \in SideRec /\ u.type = s.type /\ u.path = s.path /\ u.selected = s.selected
      /\ u.refreshafter = s.refreshafter /\ u.missed = s.missed
  BY <1>1, <1>2 DEF SideRec
<1>4. hit => Changed(u)
  BY <1>1 DEF ExecutedSo, Changed
<1>5. ~hit => (u.stale => s.stale) /\ (SomeLate(u) => SomeLate(s)) /\ (Changed(s) => Changed(u)) /\ (Listing(s) => Listing(u))
  <2> SUFFICES ASSUME ~hit
               PROVE  (u.stale => s.stale) /\ (SomeLate(u) => SomeLate(s)) /\ (Changed(s) => Changed(u))
                      /\ (Listing(s) => Listing(u))
    OBVIOUS
  <2>1. u.stale => s.stale
    BY DEF ExecutedSo
  <2>2. SomeLate(u) => SomeLate(s)
    BY <1>1 DEF ExecutedSo, SomeLate
  <2>3. Changed(s) => Changed(u)
    BY <1>1 DEF ExecutedSo, Changed
  <2>4. Listing(s) => Listing(u)
    BY <1>1 DEF ExecutedSo, Listing
  <2> QED
    BY <2>1, <2>2, <2>3, <2>4
<1>6. FreshSide(u)
  BY <1>3, <1>4, <1>5 DEF SideGood, FreshSide, Remedied
<1>7. AsksFirst(u)
  BY <1>1, <1>3 DEF SideGood, AsksFirst, ExecutedSo
<1>8. s.requests # <<>> => /\ u.requests # <<>> /\ 1 \in 1..Len(s.requests)
                           /\ Head(u.requests) = u.requests[1] /\ Head(s.requests) = s.requests[1]
  BY <1>1 DEF ExecutedSo
<1>9. s.requests = <<>> => u.requests = <<>>
  BY <1>1 DEF ExecutedSo
<1>10. Waits(u) <=> Waits(s)
  BY <1>8, <1>9 DEF ExecutedSo, Waits
<1>11. ASSUME NEW q, QuestionFits(s, q) PROVE QuestionFits(u, q)
  <2>1. CASE s.type = "SITE" /\ q.path = s.path /\ q.files = s.selected
    BY <1>3, <2>1 DEF QuestionFits
  <2>2. CASE s.type = "LOCAL" /\ Waits(s) /\ q.path = Head(s.requests).path /\ q.files = Head(s.requests).files
    <3>1. s.requests # <<>>
      BY <2>2 DEF Waits
    <3>2. Head(u.requests).path = Head(s.requests).path /\ Head(u.requests).files = Head(s.requests).files
      BY <1>8, <3>1 DEF ExecutedSo
    <3> QED
      BY <1>3, <1>10, <2>2, <3>2 DEF QuestionFits
  <2> QED
    BY <1>11, <2>1, <2>2 DEF QuestionFits
<1> QED
  BY <1>3, <1>6, <1>7, <1>10, <1>11 DEF SideGood

LEMMA ExecuteGood ==
  ASSUME NEW i \in Side, NEW k \in 1..MaxRequests, BrowseStrong, k <= Len(sides[i].requests), Execute(i, k)
  PROVE  BrowseStrong'
<1>1. sides[i] \in SideRec /\ SideGood(sides[i]) /\ Len(sides[i].requests) \in Nat /\ \A j \in Side : SideGood(sides[j])
      /\ sides \in [Side -> SideRec]
  BY SideFields DEF BrowseStrong
<1>2. k \in 1..Len(sides[i].requests)
  BY <1>1
<1>10. PICK result \in {"ok", "failed"} : \E u : ExecutedSo(sides[i], u, k, result) /\ sides' = [sides EXCEPT ![i] = u]
  BY <1>2, ExecuteShape
<1>3. PICK u : ExecutedSo(sides[i], u, k, result) /\ sides' = [sides EXCEPT ![i] = u]
  BY <1>10
<1>4. sides[i].requests[k].state = "pending" /\ UNCHANGED <<pane, question, wrong>>
  BY DEF Execute
<1>5. /\ SideGood(u) /\ (Waits(u) <=> Waits(sides[i])) /\ u.type = sides[i].type
      /\ \A q : QuestionFits(sides[i], q) => QuestionFits(u, q)
  BY <1>1, <1>2, <1>3, <1>4, ExecutedGood
<1>6. sides' \in [Side -> SideRec] /\ sides'[i] = u /\ sides'[Other(i)] = sides[Other(i)] /\ \A j \in Side : SideGood(sides'[j])
  BY <1>1, <1>3, <1>5, SideSet
<1>7. \A j \in Side : /\ Waits(sides'[j]) <=> Waits(sides[j])
                      /\ sides'[j].type = sides[j].type
                      /\ \A q : QuestionFits(sides[j], q) => QuestionFits(sides'[j], q)
  BY <1>5, <1>6, OtherSide
<1>8. SideShown'
  BY <1>4, <1>7 DEF BrowseStrong, SideShown, Side
<1>9. question.asker \in Side
  BY DEF BrowseStrong, QuestionRec
<1> QED
  BY <1>4, <1>6, <1>7, <1>8, <1>9 DEF BrowseStrong

-----------------------------------------------------------------------------
(***************************************************************************)
(* Results are taken over, and may put a question on screen.               *)
(***************************************************************************)
LEMMA LocalQuestionFits ==
  ASSUME NEW i \in Side, NEW all \in [Side -> SideRec], Waits(all[i]), all[i].type = "LOCAL"
  PROVE  LET q == LocalQuestion(i, all)
         IN q \in QuestionRec /\ q.kind = "confirm" /\ q.asker = i /\ QuestionFits(all[i], q)
<1> DEFINE q == LocalQuestion(i, all)
           r == all[i].requests[1]
<1>1. all[i].requests \in Seq(RequestRec) /\ all[i].requests # <<>>
  BY SideFields DEF Waits
<1>2. r \in RequestRec /\ Head(all[i].requests) = r
  BY <1>1
<1>3. r.path \in BPath \cup {Nowhere} /\ r.files \in SUBSET BName
  BY <1>2, RequestFields
<1>4. q = [kind |-> "confirm", asker |-> i, path |-> r.path, files |-> r.files]
  BY DEF LocalQuestion
<1> HIDE DEF r
<1>5. q \in QuestionRec /\ q.kind = "confirm" /\ q.asker = i /\ q.path = r.path /\ q.files = r.files
  BY <1>3, <1>4 DEF QuestionRec
<1> HIDE DEF q
<1> QED
  BY <1>2, <1>5 DEF QuestionFits, q

LEMMA SuggestedGood ==
  ASSUME NEW all \in [Side -> SideRec], \A j \in Side : SideGood(all[j]), NEW i \in Side, NEW suggest \in BOOLEAN
  PROVE  LET both == WithSuggestion(all, i, suggest)
         IN /\ both \in [Side -> SideRec] /\ both[i] = all[i]
            /\ \A j \in Side : /\ SideGood(both[j]) /\ both[j].type = all[j].type
                               /\ Waits(both[j]) <=> Waits(all[j])
<1> DEFINE o == Other(i)
           u == refreshFileList(all[o])
           both == WithSuggestion(all, i, suggest)
<1>1. o \in Side /\ o # i /\ Side = {i, o} /\ Other(o) = i
  BY OtherSide
<1>2. SideGood(u) /\ u.type = all[o].type /\ (Waits(u) <=> Waits(all[o]))
  BY <1>1, RefreshGood
<1>3. both = all \/ both = [all EXCEPT ![o] = u]
  BY DEF WithSuggestion
<1> HIDE DEF u, both
<1>4. CASE both = all
  BY <1>4 DEF both
<1>5. CASE both = [all EXCEPT ![o] = u]
  <2>1. both \in [Side -> SideRec] /\ both[o] = u /\ both[i] = all[i] /\ \A j \in Side : SideGood(both[j])
    BY <1>1, <1>2, <1>5, SideSet
  <2> QED
    BY <1>1, <1>2, <2>1 DEF both
<1> QED
  BY <1>3, <1>4, <1>5

LEMMA UpdateKeeps ==
  ASSUME BrowseStrong, ~wrong.astray, update
  PROVE  BrowseStrong'
<1> DEFINE l == handleReadyRequests(sides[1])
           first == [sides EXCEPT ![1] = l.side]
           one == WithSuggestion(first, 1, l.suggest)
           r == handleReadyRequests(one[2])
           second == [one EXCEPT ![2] = r.side]
           full == WithSuggestion(second, 2, r.suggest)
           both == IF l.asks \/ ~pane.split THEN one ELSE full
<1>1. /\ sides' = both /\ UNCHANGED <<pane, wrong>> /\ question.kind = "none"
      /\ question' = IF l.asks THEN LocalQuestion(1, both)
                     ELSE IF pane.split /\ r.asks THEN LocalQuestion(2, both) ELSE question
  BY DEF update
<1>2. /\ sides \in [Side -> SideRec] /\ SideGood(sides[1]) /\ SideGood(sides[2]) /\ 1 \in Side /\ 2 \in Side
      /\ \A j \in Side : SideGood(sides[j])
      /\ ~Waits(sides[1]) /\ (pane.split => ~Waits(sides[2])) /\ Side = {1, 2} /\ Other(1) = 2 /\ Other(2) = 1
      /\ pane \in PaneRec /\ question \in QuestionRec /\ wrong \in WrongRec
  BY <1>1 DEF BrowseStrong, Side, Other, Seen
<1>3. Updated(sides[1], l)
  BY <1>2, UpdateGood
<1> HIDE DEF l
<1>4. first \in [Side -> SideRec] /\ first[1] = l.side /\ first[2] = sides[2] /\ \A j \in Side : SideGood(first[j])
  BY <1>2, <1>3, SideSet DEF Updated
<1> HIDE DEF first
<1>5. /\ one \in [Side -> SideRec] /\ one[1] = first[1]
      /\ \A j \in Side : SideGood(one[j]) /\ one[j].type = first[j].type /\ (Waits(one[j]) <=> Waits(first[j]))
  <2>1. l.suggest \in BOOLEAN
    BY <1>3 DEF Updated
  <2> QED
    BY <1>2, <1>4, <2>1, SuggestedGood
<1> HIDE DEF one
<1>6. Updated(one[2], r)
  BY <1>2, <1>5, UpdateGood
<1> HIDE DEF r
<1>7. second \in [Side -> SideRec] /\ second[2] = r.side /\ second[1] = one[1] /\ \A j \in Side : SideGood(second[j])
  BY <1>2, <1>5, <1>6, SideSet DEF Updated
<1> HIDE DEF second
<1>8. /\ full \in [Side -> SideRec] /\ full[2] = second[2]
      /\ \A j \in Side : SideGood(full[j]) /\ full[j].type = second[j].type /\ (Waits(full[j]) <=> Waits(second[j]))
  <2>1. r.suggest \in BOOLEAN
    BY <1>6 DEF Updated
  <2> QED
    BY <1>2, <1>7, <2>1, SuggestedGood
<1> HIDE DEF full
<1>9. /\ one[1].type = sides[1].type /\ full[1].type = sides[1].type
      /\ Waits(one[1]) <=> l.asks
      /\ Waits(full[1]) <=> l.asks
      /\ pane.split => ~Waits(one[2]) /\ (Waits(full[2]) <=> r.asks)
  BY <1>2, <1>3, <1>4, <1>5, <1>6, <1>7, <1>8 DEF Updated
<1>10. SideShown'
  BY <1>1, <1>9 DEF BrowseStrong, SideShown
<1>11. both \in [Side -> SideRec] /\ \A j \in Side : SideGood(both[j])
  BY <1>5, <1>8
<1>12. CASE l.asks
  <2>1. both = one /\ Waits(one[1]) /\ one[1].type = "LOCAL"
    BY <1>3, <1>4, <1>5, <1>9, <1>12 DEF Updated
  <2>2. question' = LocalQuestion(1, one)
    BY <1>1, <1>12, <2>1
  <2>3. question' \in QuestionRec /\ question'.kind = "confirm" /\ question'.asker = 1 /\ QuestionFits(one[1], question')
    BY <1>2, <1>5, <2>1, <2>2, LocalQuestionFits
  <2>4. \A i \in Side : i # question'.asker /\ Seen(pane', i) => ~Waits(sides'[i])
    BY <1>1, <1>2, <1>9, <2>1, <2>3 DEF Seen
  <2> HIDE DEF both
  <2> QED
    BY <1>1, <1>2, <1>10, <1>11, <2>1, <2>3, <2>4, Asked
<1>13. CASE ~l.asks /\ pane.split /\ r.asks
  <2>1. both = full /\ Waits(full[2]) /\ full[2].type = "LOCAL"
    BY <1>6, <1>7, <1>8, <1>9, <1>13 DEF Updated
  <2>2. question' = LocalQuestion(2, full)
    BY <1>1, <1>13, <2>1
  <2>3. question' \in QuestionRec /\ question'.kind = "confirm" /\ question'.asker = 2 /\ QuestionFits(full[2], question')
    BY <1>2, <1>8, <2>1, <2>2, LocalQuestionFits
  <2>4. \A i \in Side : i # question'.asker /\ Seen(pane', i) => ~Waits(sides'[i])
    BY <1>1, <1>2, <1>9, <1>13, <2>1, <2>3 DEF Seen
  <2> HIDE DEF both
  <2> QED
    BY <1>1, <1>2, <1>10, <1>11, <2>1, <2>3, <2>4, Asked
<1>14. CASE ~l.asks /\ ~(pane.split /\ r.asks)
  <2>1. question' = question /\ question'.kind # "confirm" /\ question' \in QuestionRec
    BY <1>1, <1>2, <1>14
  <2>2. \A i \in Side : ~wrong'.astray /\ Seen(pane', i) => ~Waits(sides'[i])
    BY <1>1, <1>2, <1>9, <1>14 DEF Seen
  <2> HIDE DEF both
  <2> QED
    BY <1>1, <1>2, <1>10, <1>11, <2>1, <2>2, Unasked
<1> QED
  BY <1>12, <1>13, <1>14

-----------------------------------------------------------------------------
(***************************************************************************)
(* OnTop.                                                                   *)
(***************************************************************************)
\* A side of which only the path, the selection or the action to confirm
\* changes.
LEMMA SameRequests ==
  ASSUME NEW s, NEW t, SideGood(s), t \in SideRec, t.type = s.type, t.requests = s.requests, t.stale = s.stale,
         t.refreshafter = s.refreshafter, t.missed = s.missed
  PROVE  SideGood(t) /\ (Waits(t) <=> Waits(s))
BY DEF SideGood, FreshSide, AsksFirst, SomeLate, Changed, Listing, Remedied, Waits

LEMMA SelectedGood ==
  ASSUME NEW s, SideGood(s), NEW files \in SUBSET BName
  PROVE  LET t == [s EXCEPT !.selected = files]
         IN SideGood(t) /\ t.type = s.type /\ (Waits(t) <=> Waits(s))
<1> DEFINE t == [s EXCEPT !.selected = files]
<1>1. s \in SideRec
  BY DEF SideGood
<1>2. /\ t \in SideRec /\ t.type = s.type /\ t.requests = s.requests /\ t.stale = s.stale
      /\ t.refreshafter = s.refreshafter /\ t.missed = s.missed
  BY <1>1 DEF SideRec
<1> HIDE DEF t
<1> QED
  BY <1>2, SameRequests DEF t

LEMMA ConfirmGood ==
  ASSUME NEW s, SideGood(s), NEW c \in {"NONE", "DELETE"}
  PROVE  LET t == [s EXCEPT !.confirm = c]
         IN /\ SideGood(t) /\ t.type = s.type /\ t.path = s.path /\ t.selected = s.selected
            /\ t.requests = s.requests /\ (Waits(t) <=> Waits(s))
<1> DEFINE t == [s EXCEPT !.confirm = c]
<1>1. s \in SideRec
  BY DEF SideGood
<1>2. /\ t \in SideRec /\ t.type = s.type /\ t.requests = s.requests /\ t.stale = s.stale
      /\ t.refreshafter = s.refreshafter /\ t.missed = s.missed /\ t.path = s.path /\ t.selected = s.selected
  BY <1>1 DEF SideRec
<1> HIDE DEF t
<1> QED
  BY <1>2, SameRequests DEF t

\* The active side changes, and nobody is asked.
LEMMA ActiveChanges ==
  ASSUME BrowseStrong, ~wrong.astray, question.kind = "none", NEW u, SideGood(u), ~Waits(u),
         u.type = Active.type \/ u.type # "SELECTOR",
         sides' = [sides EXCEPT ![pane.active] = u], UNCHANGED <<pane, question, wrong>>
  PROVE  BrowseStrong'
<1> DEFINE i == pane.active
<1>1. i \in Side /\ Seen(pane, i) /\ Active = sides[i]
  BY PaneFields
<1>2. sides \in [Side -> SideRec] /\ \A j \in Side : SideGood(sides[j])
  BY DEF BrowseStrong
<1> HIDE DEF i
<1>3. sides' = [sides EXCEPT ![i] = u]
  BY DEF i
<1>4. sides' \in [Side -> SideRec] /\ sides'[i] = u /\ sides'[Other(i)] = sides[Other(i)] /\ \A j \in Side : SideGood(sides'[j])
  <2> DEFINE both == [sides EXCEPT ![i] = u]
  <2>1. both \in [Side -> SideRec] /\ both[i] = u /\ both[Other(i)] = sides[Other(i)] /\ \A j \in Side : SideGood(both[j])
    BY <1>1, <1>2, SideSet
  <2> QED
    BY <1>3, <2>1
<1>5. \A j \in Side : sides'[j].type = sides[j].type \/ sides'[j].type # "SELECTOR"
  BY <1>1, <1>4, OtherSide
<1>6. SideShown'
  BY <1>5 DEF BrowseStrong, SideShown, Side
<1>7. \A j \in Side : ~wrong'.astray /\ Seen(pane', j) => ~Waits(sides'[j])
  BY <1>1, <1>4, OtherSide, NobodyAsks
<1> QED
  BY <1>4, <1>6, <1>7, Unasked DEF BrowseStrong

LEMMA SelectKeeps ==
  ASSUME BrowseStrong, ~wrong.astray, Select
  PROVE  BrowseStrong'
<1>1. PICK files \in SUBSET BName : sides' = [sides EXCEPT ![pane.active].selected = files]
  BY DEF Select
<1> DEFINE u == [Active EXCEPT !.selected = files]
<1>2. sides' = [sides EXCEPT ![pane.active] = u] /\ question.kind = "none" /\ UNCHANGED <<pane, question, wrong>>
  BY <1>1 DEF Select, OnTop, Active
<1>3. SideGood(Active) /\ ~Waits(Active)
  BY <1>2, PaneFields, NobodyAsks
<1>4. SideGood(u) /\ u.type = Active.type /\ ~Waits(u)
  BY <1>3, SelectedGood
<1> HIDE DEF u
<1> QED
  BY <1>2, <1>4, ActiveChanges

LEMMA ChangeDirectoryKeeps ==
  ASSUME BrowseStrong, ~wrong.astray, ChangeDirectory
  PROVE  BrowseStrong'
<1>1. Visited \subseteq BPath \cup {Nowhere}
  BY BrowseAssumption DEF Visited
<1>2. PICK p \in Visited : sides' = [sides EXCEPT ![pane.active] = gotoPath(@, p)]
  BY DEF ChangeDirectory
<1> DEFINE u == gotoPath(Active, p)
<1>3. sides' = [sides EXCEPT ![pane.active] = u] /\ question.kind = "none" /\ UNCHANGED <<pane, question, wrong>>
  BY <1>2 DEF ChangeDirectory, OnTop, Active
<1>4. SideGood(Active) /\ ~Waits(Active) /\ p \in BPath \cup {Nowhere}
  BY <1>1, <1>3, PaneFields, NobodyAsks
<1>5. SideGood(u) /\ u.type = Active.type /\ ~Waits(u)
  BY <1>4, GotoGood
<1> HIDE DEF u
<1> QED
  BY <1>3, <1>5, ActiveChanges

LEMMA DeleteKeySiteKeeps ==
  ASSUME BrowseStrong, ~wrong.astray, DeleteKeySite
  PROVE  BrowseStrong'
<1> DEFINE i == pane.active
           u == [Active EXCEPT !.confirm = "DELETE"]
           q == [kind |-> "confirm", asker |-> i, path |-> Active.path, files |-> Active.selected]
<1>1. /\ sides' = [sides EXCEPT ![i] = u] /\ question' = q /\ UNCHANGED <<pane, wrong>>
      /\ question.kind = "none" /\ Active.type = "SITE"
  BY DEF DeleteKeySite, OnTop, Active
<1>2. i \in Side /\ Seen(pane, i) /\ SideGood(Active) /\ ~Waits(Active) /\ Active = sides[i]
  BY <1>1, PaneFields, NobodyAsks
<1>3. /\ SideGood(u) /\ u.type = "SITE" /\ u.path = Active.path /\ u.selected = Active.selected /\ ~Waits(u)
  BY <1>1, <1>2, ConfirmGood
<1>4. Active.path \in BPath \cup {Nowhere} /\ Active.selected \in SUBSET BName
  BY <1>2, SideFields DEF SideGood
<1> HIDE DEF u
<1>5. question' \in QuestionRec /\ question'.kind = "confirm" /\ question'.asker = i /\ question'.path = Active.path
      /\ question'.files = Active.selected
  BY <1>1, <1>2, <1>4 DEF QuestionRec
<1> HIDE DEF i, q
<1>6. sides' \in [Side -> SideRec] /\ sides'[i] = u /\ sides'[Other(i)] = sides[Other(i)] /\ \A j \in Side : SideGood(sides'[j])
  BY <1>1, <1>2, <1>3, SideSet DEF BrowseStrong
<1>7. SideShown'
  <2>1. \A j \in Side : sides'[j].type = sides[j].type
    BY <1>1, <1>2, <1>3, <1>6, OtherSide
  <2> QED
    BY <1>1, <2>1 DEF BrowseStrong, SideShown, Side
<1>8. QuestionFits(sides'[question'.asker], question')
  BY <1>3, <1>5, <1>6 DEF QuestionFits
<1>9. \A j \in Side : j # question'.asker /\ Seen(pane', j) => ~Waits(sides'[j])
  BY <1>1, <1>2, <1>5, <1>6, OtherSide, NobodyAsks
<1> QED
  BY <1>1, <1>5, <1>6, <1>7, <1>8, <1>9, Asked DEF BrowseStrong

LEMMA DeleteKeyLocalKeeps ==
  ASSUME BrowseStrong, ~wrong.astray, DeleteKeyLocal
  PROVE  BrowseStrong'
<1> DEFINE r == Request("PATH_INFO", Active.path, Active.selected)
           u == [Active EXCEPT !.requests = Append(@, r)]
<1>1. /\ sides' = [sides EXCEPT ![pane.active] = u] /\ question.kind = "none" /\ UNCHANGED <<pane, question, wrong>>
      /\ Active.type = "LOCAL"
  BY DEF DeleteKeyLocal, OnTop, Active
<1>2. SideGood(Active) /\ ~Waits(Active)
  BY <1>1, PaneFields, NobodyAsks
<1>3. Active.path \in BPath \cup {Nowhere} /\ Active.selected \in SUBSET BName
  BY <1>2, SideFields DEF SideGood
<1>4. r \in RequestRec /\ r.state = "pending" /\ ~r.late
  BY <1>3, Requested
<1> HIDE DEF r
<1>5. SideGood(u) /\ u.type = Active.type /\ ~Waits(u)
  BY <1>1, <1>2, <1>4, OneMore
<1> HIDE DEF u
<1> QED
  BY <1>1, <1>5, ActiveChanges

LEMMA OpenInputKeeps ==
  ASSUME BrowseStrong, ~wrong.astray, OpenInput
  PROVE  BrowseStrong'
<1>1. PICK kind \in {"makedir", "move"} :
        question' = [kind |-> kind, asker |-> pane.active, path |-> Active.path, files |-> Active.selected]
  BY DEF OpenInput
<1>2. UNCHANGED <<sides, pane, wrong>> /\ question.kind = "none"
  BY DEF OpenInput, OnTop
<1>3. pane.active \in Side /\ Active.path \in BPath \cup {Nowhere} /\ Active.selected \in SUBSET BName
  BY PaneFields, SideFields
<1>4. question' \in QuestionRec /\ question'.kind # "confirm"
  BY <1>1, <1>3 DEF QuestionRec
<1>5. \A j \in Side : ~wrong'.astray /\ Seen(pane', j) => ~Waits(sides'[j])
  BY <1>2, NobodyAsks
<1>6. SideShown'
  BY <1>2 DEF BrowseStrong, SideShown
<1> QED
  BY <1>2, <1>4, <1>5, <1>6, Unasked DEF BrowseStrong

LEMMA OpenSideKeeps ==
  ASSUME BrowseStrong, ~wrong.astray, OpenSide
  PROVE  BrowseStrong'
<1>1. Visited \subseteq BPath
  BY BrowseAssumption DEF Visited
<1>2. PICK type \in {"SITE", "LOCAL"}, p \in Visited : sides' = [sides EXCEPT ![pane.active] = NewSide(type, p)]
  BY DEF OpenSide
<1>3. question.kind = "none" /\ UNCHANGED <<pane, question, wrong>>
  BY DEF OpenSide, OnTop
<1>4. SideGood(NewSide(type, p)) /\ ~Waits(NewSide(type, p)) /\ NewSide(type, p).type # "SELECTOR"
  BY <1>1, NewSideGood
<1> QED
  BY <1>2, <1>3, <1>4, ActiveChanges

LEMMA SwitchKeeps ==
  ASSUME BrowseStrong, ~wrong.astray, question.kind = "none", NEW all \in [Side -> SideRec],
         \A j \in Side : SideGood(all[j]) /\ ~Waits(all[j]), switchSide(all)
  PROVE  BrowseStrong'
<1> DEFINE i == pane.active
           o == Other(i)
           h == handleReadyRequests(all[i])
           first == [all EXCEPT ![i] = h.side]
           u == refreshFileList(first[o])
           both == [first EXCEPT ![o] = u]
<1>1. i \in Side /\ o \in Side /\ o # i /\ Side = {i, o} /\ Other(o) = i
  BY PaneFields, OtherSide
<1>2. /\ sides' = first \/ sides' = [all EXCEPT ![i] = h.side, ![o] = refreshFileList(@)]
      /\ pane' = [pane EXCEPT !.split = TRUE, !.active = o] /\ UNCHANGED wrong
      /\ question' = IF h.asks THEN LocalQuestion(i, sides') ELSE question
  BY DEF switchSide
<1>3. Updated(all[i], h)
  BY <1>1, UpdateGood
<1> HIDE DEF i, h
<1>4. first \in [Side -> SideRec] /\ first[i] = h.side /\ first[o] = all[o] /\ \A j \in Side : SideGood(first[j])
  BY <1>1, <1>3, SideSet DEF Updated
<1>5. sides' = first \/ sides' = both
  BY <1>1, <1>2, <1>4
<1> HIDE DEF o, first
<1>6. SideGood(u) /\ (Waits(u) <=> Waits(first[o]))
  BY <1>1, <1>4, RefreshGood
<1> HIDE DEF u
<1>7. both \in [Side -> SideRec] /\ both[o] = u /\ both[i] = first[i] /\ \A j \in Side : SideGood(both[j])
  BY <1>1, <1>4, <1>6, SideSet
<1> HIDE DEF both
<1>8. /\ sides' \in [Side -> SideRec] /\ \A j \in Side : SideGood(sides'[j])
      /\ sides'[i] = h.side /\ ~Waits(sides'[o])
  BY <1>1, <1>4, <1>5, <1>6, <1>7
<1>9. pane' \in PaneRec /\ pane'.split
  BY <1>1, <1>2 DEF BrowseStrong, PaneRec
<1>10. SideShown'
  BY <1>9 DEF SideShown
<1>11. question \in QuestionRec /\ wrong' \in WrongRec
  BY <1>2 DEF BrowseStrong
<1>12. CASE h.asks
  <2>1. Waits(sides'[i]) /\ sides'[i].type = "LOCAL"
    BY <1>3, <1>8, <1>12 DEF Updated
  <2>2. question' = LocalQuestion(i, sides')
    BY <1>2, <1>12
  <2>3. question' \in QuestionRec /\ question'.kind = "confirm" /\ question'.asker = i /\ QuestionFits(sides'[i], question')
    BY <1>1, <1>8, <2>1, <2>2, LocalQuestionFits
  <2>4. \A j \in Side : j # question'.asker /\ Seen(pane', j) => ~Waits(sides'[j])
    BY <1>1, <1>8, <2>3
  <2>5. QuestionFits(sides'[question'.asker], question')
    BY <2>3
  <2> QED
    BY <1>2, <1>8, <1>9, <1>10, <2>3, <2>4, <2>5, Asked
<1>13. CASE ~h.asks
  <2>1. question' = question /\ question'.kind # "confirm"
    BY <1>2, <1>13
  <2>2. ~Waits(sides'[i])
    BY <1>1, <1>3, <1>8, <1>13 DEF Updated
  <2>3. \A j \in Side : ~wrong'.astray /\ Seen(pane', j) => ~Waits(sides'[j])
    BY <1>1, <1>8, <2>2
  <2> QED
    BY <1>8, <1>9, <1>10, <1>11, <2>1, <2>3, Unasked
<1> QED
  BY <1>12, <1>13

LEMMA SplitKeyKeeps ==
  ASSUME BrowseStrong, ~wrong.astray, SplitKey
  PROVE  BrowseStrong'
<1> DEFINE all == [sides EXCEPT ![2] = Selector]
<1>1. question.kind = "none" /\ (IF pane.split THEN switchSide(sides) ELSE switchSide(all))
  BY DEF SplitKey, OnTop
<1>2. sides \in [Side -> SideRec] /\ (\A j \in Side : SideGood(sides[j])) /\ 2 \in Side /\ Other(2) = 1 /\ Side = {1, 2}
  BY DEF BrowseStrong, Side, Other
<1>3. CASE pane.split
  <2>1. \A j \in Side : SideGood(sides[j]) /\ ~Waits(sides[j])
    BY <1>1, <1>2, <1>3, NobodyAsks DEF Seen
  <2> QED
    BY <1>1, <1>2, <1>3, <2>1, SwitchKeeps
<1>4. CASE ~pane.split
  <2>1. all \in [Side -> SideRec] /\ all[2] = Selector /\ all[1] = sides[1] /\ \A j \in Side : SideGood(all[j])
    BY <1>2, SelectorGood, SideSet
  <2> HIDE DEF all
  <2>2. ~Waits(sides[1])
    BY <1>1, <1>2, NobodyAsks DEF Seen
  <2>3. \A j \in Side : SideGood(all[j]) /\ ~Waits(all[j])
    BY <1>2, <2>1, <2>2, SelectorGood
  <2> QED
    BY <1>1, <1>4, <2>1, <2>3, SwitchKeeps
<1> QED
  BY <1>3, <1>4

LEMMA CloseKeyKeeps ==
  ASSUME BrowseStrong, ~wrong.astray, CloseKey
  PROVE  BrowseStrong'
<1> DEFINE i == pane.active
           o == Other(i)
<1>1. i \in Side /\ o \in Side /\ o # i /\ Side = {i, o} /\ Other(o) = i /\ Seen(pane, i) /\ Active = sides[i]
  BY PaneFields, OtherSide
<1>2. /\ sides \in [Side -> SideRec] /\ (\A j \in Side : SideGood(sides[j])) /\ 2 \in Side /\ 1 \in Side
      /\ Other(2) = 1 /\ Side = {1, 2} /\ pane \in PaneRec /\ question \in QuestionRec /\ wrong \in WrongRec
  BY DEF BrowseStrong, Side, Other
<1>3. question.kind = "none" /\ UNCHANGED <<question, wrong>>
  BY DEF CloseKey, OnTop
<1>4. ~Waits(sides[i]) /\ (pane.split => ~Waits(sides[o]))
  BY <1>1, <1>3, NobodyAsks DEF Seen
<1>5. \/ Leave
      \/ sides' = [sides EXCEPT ![i] = Selector] /\ UNCHANGED pane /\ pane.split
      \/ /\ sides' = [sides EXCEPT ![1] = sides[o], ![2] = Selector] /\ pane.split
         /\ pane' = [split |-> FALSE, active |-> 1, top |-> sides[o].type # "SELECTOR"]
  BY DEF CloseKey, closeSide
<1> HIDE DEF i, o
<1>6. CASE Leave
  <2>1. sides' = sides /\ pane' = [pane EXCEPT !.top = FALSE]
    BY <1>6 DEF Leave
  <2>2. pane' \in PaneRec /\ ~pane'.top /\ pane'.split = pane.split /\ pane'.active = pane.active
    BY <1>2, <2>1 DEF PaneRec
  <2>3. SideShown'
    BY <2>2 DEF BrowseStrong, SideShown
  <2>4. \A j \in Side : ~wrong'.astray /\ Seen(pane', j) => ~Waits(sides'[j])
    BY <1>3, <2>1, <2>2, NobodyAsks DEF Seen
  <2> QED
    BY <1>2, <1>3, <2>1, <2>2, <2>3, <2>4, Unasked
<1>7. CASE sides' = [sides EXCEPT ![i] = Selector] /\ UNCHANGED pane /\ pane.split
  <2> DEFINE both == [sides EXCEPT ![i] = Selector]
  <2>1. both \in [Side -> SideRec] /\ both[i] = Selector /\ both[Other(i)] = sides[Other(i)] /\ \A j \in Side : SideGood(both[j])
    BY <1>1, <1>2, SelectorGood, SideSet
  <2> HIDE DEF both
  <2>2. sides' = both
    BY <1>7 DEF both
  <2>3. SideShown'
    BY <1>7 DEF BrowseStrong, SideShown
  <2>4. ~Waits(both[i]) /\ ~Waits(both[o])
    BY <1>4, <1>7, <2>1, SelectorGood DEF o
  <2>5. \A j \in Side : ~wrong'.astray /\ Seen(pane', j) => ~Waits(sides'[j])
    BY <1>1, <2>2, <2>4
  <2> QED
    BY <1>2, <1>3, <1>7, <2>1, <2>2, <2>3, <2>5, Unasked
<1>8. CASE /\ sides' = [sides EXCEPT ![1] = sides[o], ![2] = Selector] /\ pane.split
           /\ pane' = [split |-> FALSE, active |-> 1, top |-> sides[o].type # "SELECTOR"]
  <2>1. Selector \in SideRec /\ sides[o] \in SideRec
    BY <1>1, <1>2, SelectorGood DEF SideGood
  <2>2. sides' \in [Side -> SideRec] /\ sides'[1] = sides[o] /\ sides'[2] = Selector
    BY <1>2, <1>8, <2>1
  <2>3. \A j \in Side : SideGood(sides'[j]) /\ ~Waits(sides'[j])
    BY <1>1, <1>2, <1>4, <1>8, <2>2, SelectorGood
  <2>4. (sides[o].type # "SELECTOR") \in BOOLEAN
    OBVIOUS
  <2>5. pane' \in PaneRec /\ ~pane'.split /\ pane'.active = 1 /\ (pane'.top <=> sides[o].type # "SELECTOR")
    BY <1>2, <1>8, <2>4 DEF PaneRec
  <2>6. SideShown'
    BY <2>2, <2>5 DEF SideShown
  <2> QED
    BY <1>2, <1>3, <2>2, <2>3, <2>5, <2>6, Unasked
<1> QED
  BY <1>5, <1>6, <1>7, <1>8

LEMMA BackKeyKeeps ==
  ASSUME BrowseStrong, ~wrong.astray, BackKey
  PROVE  BrowseStrong'
<1>1. question.kind = "none" /\ UNCHANGED <<question, wrong>>
  BY DEF BackKey, OnTop
<1>2. CASE sides' = [sides EXCEPT ![pane.active].selected = {}] /\ UNCHANGED pane
  <2> DEFINE u == [Active EXCEPT !.selected = {}]
  <2>1. sides' = [sides EXCEPT ![pane.active] = u]
    BY <1>2 DEF Active
  <2>2. SideGood(Active) /\ ~Waits(Active)
    BY <1>1, PaneFields, NobodyAsks
  <2>3. SideGood(u) /\ u.type = Active.type /\ ~Waits(u)
    BY <2>2, SelectedGood
  <2> HIDE DEF u
  <2> QED
    BY <1>1, <1>2, <2>1, <2>3, ActiveChanges
<1>3. CASE Leave
  <2>1. sides' = sides /\ pane' = [pane EXCEPT !.top = FALSE]
    BY <1>3 DEF Leave
  <2>2. pane' \in PaneRec /\ ~pane'.top /\ pane'.split = pane.split /\ pane'.active = pane.active
    BY <2>1 DEF BrowseStrong, PaneRec
  <2>3. SideShown'
    BY <2>2 DEF BrowseStrong, SideShown
  <2>4. \A j \in Side : ~wrong'.astray /\ Seen(pane', j) => ~Waits(sides'[j])
    BY <1>1, <2>1, <2>2, NobodyAsks DEF Seen
  <2> QED
    BY <1>1, <2>1, <2>2, <2>3, <2>4, Unasked DEF BrowseStrong
<1> QED
  BY <1>2, <1>3 DEF BackKey

LEMMA ContinueKeeps ==
  ASSUME BrowseStrong, continueBrowsing
  PROVE  BrowseStrong'
<1>1. UNCHANGED <<sides, question, wrong>> /\ pane' = [pane EXCEPT !.top = TRUE] /\ (Active.type # "SELECTOR" \/ pane.split)
  BY DEF continueBrowsing
<1>2. pane' \in PaneRec /\ pane'.split = pane.split /\ pane'.active = pane.active
  BY <1>1 DEF BrowseStrong, PaneRec
<1>3. SideShown'
  BY <1>1, <1>2 DEF BrowseStrong, SideShown, Active
<1> QED
  BY <1>1, <1>2, <1>3 DEF BrowseStrong, Seen

-----------------------------------------------------------------------------
(***************************************************************************)
(* Answers.                                                                *)
(***************************************************************************)
LEMMA SetAsSequence ==
  ASSUME NEW S, IsFiniteSet(S)
  PROVE  SetToSeq(S) \in Seq(S)
<1>1. Cardinality(S) \in Nat /\ ExistsBijection(1..Cardinality(S), S)
  BY FS_CardinalityType
<1>2. \E f \in [1..Cardinality(S) -> S] : IsInjective(f)
  BY <1>1 DEF ExistsBijection, Bijection, Injection
<1>3. SetToSeq(S) \in [1..Cardinality(S) -> S]
  BY <1>2 DEF SetToSeq
<1> QED
  BY <1>1, <1>3

\* The changes asked for are about the files, in the directory of the side.
LEMMA Asks ==
  ASSUME NEW type \in Changes, NEW s, s.path \in BPath \cup {Nowhere}, NEW files \in SUBSET BName
  PROVE  LET rs == Requests(type, s, files)
         IN /\ rs \in Seq(RequestRec)
            /\ \A k \in DOMAIN rs : /\ rs[k].type = type /\ rs[k].path = s.path /\ rs[k].state = "pending"
                                    /\ ~rs[k].late /\ rs[k].files \subseteq files
<1> DEFINE names == SetToSeq(files)
           One(k) == IF type = "DELETE" THEN {names[k]} ELSE {}
           rs == [k \in 1..Len(names) |-> Request(type, s.path, One(k))]
<1>1. names \in Seq(files)
  BY BrowseAssumption, FS_Subset, SetAsSequence
<1>2. Requests(type, s, files) = rs
  BY DEF Requests
<1> HIDE DEF names
<1>3. ASSUME NEW k \in 1..Len(names)
      PROVE  LET r == Request(type, s.path, One(k))
             IN r \in RequestRec /\ r.type = type /\ r.path = s.path /\ r.state = "pending" /\ ~r.late /\ r.files \subseteq files
  <2>1. names[k] \in files /\ One(k) \in SUBSET BName /\ One(k) \subseteq files
    BY <1>1
  <2> HIDE DEF One
  <2> QED
    BY <2>1, Requested
<1>4. Len(names) \in Nat
  BY <1>1
<1>5. rs \in Seq(RequestRec) /\ DOMAIN rs = 1..Len(names) /\ \A k \in 1..Len(names) : rs[k] = Request(type, s.path, One(k))
  <2> DEFINE n == Len(names)
             R(k) == Request(type, s.path, One(k))
  <2>1. n \in Nat /\ rs = [k \in 1..n |-> R(k)] /\ \A k \in 1..n : R(k) \in RequestRec
    BY <1>3, <1>4
  <2> HIDE DEF n, R
  <2>2. [k \in 1..n |-> R(k)] \in Seq(RequestRec)
    BY <2>1
  <2> QED
    BY <2>1, <2>2 DEF n, R
<1> HIDE DEF rs
<1> QED
  BY <1>2, <1>3, <1>5

LEMMA MoreChanges ==
  ASSUME NEW s, SideGood(s), NEW type \in Changes, NEW files \in SUBSET BName
  PROVE  LET t == [s EXCEPT !.requests = @ \o Requests(type, s, files)]
         IN SideGood(t) /\ t.type = s.type /\ (Waits(t) <=> Waits(s))
            /\ t.requests = s.requests \o Requests(type, s, files)
<1> DEFINE rs == Requests(type, s, files)
           t == [s EXCEPT !.requests = @ \o rs]
<1>1. s.path \in BPath \cup {Nowhere} /\ s \in SideRec
  BY SideFields DEF SideGood
<1>2. /\ rs \in Seq(RequestRec)
      /\ \A k \in DOMAIN rs : rs[k].type = type /\ rs[k].state = "pending" /\ ~rs[k].late
  BY <1>1, Asks
<1>3. type # "PATH_INFO"
  BY DEF Changes
<1> HIDE DEF rs
<1>4. t = [s EXCEPT !.requests = s.requests \o rs]
  OBVIOUS
<1> HIDE DEF t
<1>5. Extends(s, t, rs)
  BY <1>2, <1>3, <1>4 DEF Extends
<1> QED
  BY <1>5, ExtendGood DEF t, rs

LEMMA OneChange ==
  ASSUME NEW s, SideGood(s)
  PROVE  LET t == [s EXCEPT !.requests = Append(@, Request("MOVE", s.path, {}))]
         IN SideGood(t) /\ t.type = s.type /\ (Waits(t) <=> Waits(s))
            /\ t.requests = s.requests \o <<Request("MOVE", s.path, {})>>
<1> DEFINE r == Request("MOVE", s.path, {})
<1>1. s.path \in BPath \cup {Nowhere} /\ "MOVE" \in Changes
  BY SideFields DEF SideGood, Changes
<1>2. r \in RequestRec /\ r.type = "MOVE" /\ r.state = "pending" /\ ~r.late
  BY <1>1, Requested
<1> HIDE DEF r
<1>3. LET t == [s EXCEPT !.requests = Append(@, r)]
      IN SideGood(t) /\ t.type = s.type /\ (Waits(t) <=> Waits(s))
         /\ t.requests = Append(s.requests, r) /\ Append(s.requests, r) = s.requests \o <<r>>
  BY <1>2, OneMore
<1> QED
  BY <1>3 DEF r

\* A request about a question is dropped from the front.
LEMMA DropQuestion ==
  ASSUME NEW s, SideGood(s), s.requests # <<>>, Head(s.requests).type = "PATH_INFO"
  PROVE  LET t == [s EXCEPT !.requests = Tail(s.requests)]
         IN SideGood(t) /\ ~Waits(t) /\ t.type = s.type /\ t.path = s.path
<1> DEFINE t == [s EXCEPT !.requests = Tail(s.requests)]
           n == Len(s.requests)
           q == Tail(s.requests)
<1>1. s \in SideRec /\ s.requests \in Seq(RequestRec) /\ n \in Nat /\ n >= 1 /\ Head(s.requests) = s.requests[1]
      /\ DOMAIN s.requests = 1..n
  BY SideFields DEF SideGood
<1>2. q \in Seq(RequestRec) /\ Len(q) = n - 1 /\ DOMAIN q = 1..(n - 1) /\ \A k \in 1..(n - 1) : q[k] = s.requests[k + 1]
  BY <1>1
<1> HIDE DEF q
<1>3. /\ t \in SideRec /\ t.requests = q /\ t.type = s.type /\ t.path = s.path /\ t.stale = s.stale
      /\ t.missed = s.missed /\ t.refreshafter = s.refreshafter
  BY <1>1, <1>2 DEF SideRec, q
<1> HIDE DEF t
<1>4. \A k \in 1..(n - 1) : k + 1 \in 1..n /\ k + 1 # 1
  BY <1>1
<1>5. \A k \in 1..n : k # 1 => k - 1 \in 1..(n - 1) /\ (k - 1) + 1 = k
  BY <1>1
<1>6. s.requests[1].type \notin Changes /\ s.requests[1].type # "FILELIST"
  BY <1>1 DEF Changes
<1> HIDE DEF n
<1>7. SomeLate(t) => SomeLate(s)
  BY <1>1, <1>2, <1>3, <1>4 DEF SomeLate
<1>8. Changed(s) => Changed(t)
  <2> SUFFICES ASSUME NEW k \in 1..n, s.requests[k].type \in Changes, s.requests[k].state = "ok" PROVE Changed(t)
    BY <1>1 DEF Changed
  <2>1. k - 1 \in 1..(n - 1) /\ q[k - 1] = s.requests[k]
    BY <1>2, <1>5, <1>6
  <2> QED
    BY <1>2, <1>3, <2>1 DEF Changed
<1>9. Listing(s) => Listing(t)
  <2> SUFFICES ASSUME NEW k \in 1..n, s.requests[k].type = "FILELIST" PROVE Listing(t)
    BY <1>1 DEF Listing
  <2>1. k - 1 \in 1..(n - 1) /\ q[k - 1] = s.requests[k]
    BY <1>2, <1>5, <1>6
  <2> QED
    BY <1>2, <1>3, <2>1 DEF Listing
<1>10. FreshSide(t)
  BY <1>3, <1>7, <1>8, <1>9 DEF SideGood, FreshSide, Remedied
<1>11. \A k \in 1..(n - 1) : q[k].state # "asked" /\ (q[k].type = "PATH_INFO" => s.type = "LOCAL")
  BY <1>1, <1>2, <1>4 DEF SideGood, AsksFirst
<1>12. AsksFirst(t)
  BY <1>2, <1>3, <1>11 DEF AsksFirst
<1>13. ~Waits(t)
  <2>1. q # <<>> => 1 \in 1..(n - 1) /\ Head(q) = q[1]
    BY <1>2
  <2> QED
    BY <1>3, <1>11, <2>1 DEF Waits
<1> QED
  BY <1>3, <1>10, <1>12, <1>13 DEF SideGood, t, q

LEMMA SiteCommandGood ==
  ASSUME NEW s, SideGood(s), NEW c \in {"yes", "no", "makedir", "move"}
  PROVE  LET t == SiteCommand(s, c) IN SideGood(t) /\ t.type = s.type /\ (Waits(t) <=> Waits(s))
<1> DEFINE t == SiteCommand(s, c)
           off == [s EXCEPT !.confirm = "NONE"]
<1>1. s \in SideRec /\ s.confirm \in {"NONE", "DELETE"} /\ s.selected \in SUBSET BName /\ {"MOVE", "DELETE"} \subseteq Changes
  BY SideFields DEF SideGood, Changes
<1>2. SideGood(off) /\ off.type = s.type /\ (Waits(off) <=> Waits(s)) /\ off.selected = s.selected /\ off.path = s.path
      /\ off.requests = s.requests
  BY ConfirmGood
<1>3. CASE c = "yes" /\ s.confirm = "NONE"
  <2>1. t = off
    BY <1>1, <1>3 DEF SiteCommand, SideRec
  <2> QED
    BY <1>2, <2>1
<1>4. CASE c = "yes" /\ s.confirm = "DELETE"
  <2> DEFINE rs == Requests("DELETE", s, s.selected)
  <2>1. t = [s EXCEPT !.confirm = "NONE", !.requests = s.requests \o rs]
    BY <1>4 DEF SiteCommand
  <2>2. [s EXCEPT !.confirm = "NONE", !.requests = s.requests \o rs] = [off EXCEPT !.requests = off.requests \o rs]
    <3> HIDE DEF rs
    <3> QED
      BY <1>1 DEF SideRec
  <2>3. Requests("DELETE", off, off.selected) = rs
    BY <1>2 DEF Requests
  <2> HIDE DEF rs, off, t
  <2>4. t = [off EXCEPT !.requests = @ \o Requests("DELETE", off, off.selected)]
    BY <2>1, <2>2, <2>3
  <2>5. SideGood(t) /\ t.type = off.type /\ (Waits(t) <=> Waits(off))
    BY <1>1, <1>2, <2>4, MoreChanges
  <2> QED
    BY <1>2, <2>5 DEF t
<1>5. CASE c = "no"
  <2>1. t = off
    BY <1>5 DEF SiteCommand
  <2> QED
    BY <1>2, <2>1
<1>6. CASE c = "makedir"
  <2>1. t = [s EXCEPT !.requests = Append(@, Request("MOVE", s.path, {}))]
    BY <1>6 DEF SiteCommand
  <2> HIDE DEF t
  <2>2. SideGood(t) /\ t.type = s.type /\ (Waits(t) <=> Waits(s))
    BY <2>1, OneChange
  <2> QED
    BY <2>2 DEF t
<1>7. CASE c = "move"
  <2>1. t = [s EXCEPT !.requests = @ \o Requests("MOVE", s, s.selected)]
    BY <1>7 DEF SiteCommand
  <2> HIDE DEF t
  <2>2. SideGood(t) /\ t.type = s.type /\ (Waits(t) <=> Waits(s))
    BY <1>1, <2>1, MoreChanges
  <2> QED
    BY <2>2 DEF t
<1> QED
  BY <1>1, <1>3, <1>4, <1>5, <1>6, <1>7

\* What a local side asks for when its question is answered.
AnsweredBy(s, c) ==
  LET q == Head(s.requests)
  IN IF c = "yes" THEN Requests("DELETE", [s EXCEPT !.path = q.path], q.files) ELSE <<>>

LEMMA AnsweredAsks ==
  ASSUME NEW s, SideGood(s), s.requests # <<>>, NEW c
  PROVE  /\ AnsweredBy(s, c) \in Seq(RequestRec)
         /\ \A k \in DOMAIN AnsweredBy(s, c) :
              LET r == AnsweredBy(s, c)[k]
              IN /\ r.type = "DELETE" /\ r.path = Head(s.requests).path /\ r.state = "pending" /\ ~r.late
                 /\ r.files \subseteq Head(s.requests).files
<1> DEFINE q == Head(s.requests)
           s1 == [s EXCEPT !.path = q.path]
<1>1. s \in SideRec /\ q \in RequestRec /\ "DELETE" \in Changes
  BY SideFields DEF SideGood, Changes
<1>2. q.path \in BPath \cup {Nowhere} /\ q.files \in SUBSET BName
  BY <1>1, RequestFields
<1> HIDE DEF q
<1>3. s1.path = q.path
  BY <1>1 DEF SideRec
<1> HIDE DEF s1
<1> DEFINE rs == Requests("DELETE", s1, q.files)
<1>4. /\ rs \in Seq(RequestRec)
      /\ \A k \in DOMAIN rs : /\ rs[k].type = "DELETE" /\ rs[k].path = s1.path /\ rs[k].state = "pending"
                              /\ ~rs[k].late /\ rs[k].files \subseteq q.files
  BY <1>1, <1>2, <1>3, Asks
<1>5. AnsweredBy(s, c) = IF c = "yes" THEN rs ELSE <<>>
  BY DEF AnsweredBy, s1, q
<1> HIDE DEF rs
<1>6. CASE c = "yes"
  BY <1>3, <1>4, <1>5, <1>6 DEF q
<1>7. CASE c # "yes"
  <2>1. AnsweredBy(s, c) = <<>> /\ DOMAIN <<>> = {}
    BY <1>5, <1>7
  <2> QED
    BY <2>1
<1> QED
  BY <1>6, <1>7

LEMMA LocalAnswered ==
  ASSUME NEW s, SideGood(s), NEW c, s.requests # <<>>, Head(s.requests).type = "PATH_INFO"
  PROVE  LET t == LocalCommand(s, c)
         IN SideGood(t) /\ t.type = s.type /\ ~Waits(t) /\ t.requests = Tail(s.requests) \o AnsweredBy(s, c)
<1> DEFINE t == LocalCommand(s, c)
           d == [s EXCEPT !.requests = Tail(s.requests)]
           rs == AnsweredBy(s, c)
<1>1. s \in SideRec /\ s.requests \in Seq(RequestRec)
  BY SideFields DEF SideGood
<1>2. SideGood(d) /\ ~Waits(d) /\ d.type = s.type /\ d.requests = Tail(s.requests)
  BY <1>1, DropQuestion DEF SideRec
<1>3. /\ rs \in Seq(RequestRec)
      /\ \A k \in DOMAIN rs : rs[k].type = "DELETE" /\ rs[k].state = "pending" /\ ~rs[k].late
  BY AnsweredAsks
<1>4. t = [s EXCEPT !.requests = Tail(s.requests) \o rs]
  BY DEF LocalCommand, AnsweredBy
<1> HIDE DEF rs, t
<1>5. t = [d EXCEPT !.requests = d.requests \o rs]
  <2>1. [d EXCEPT !.requests = d.requests \o rs] = [s EXCEPT !.requests = Tail(s.requests) \o rs]
    BY <1>1, <1>2 DEF SideRec
  <2> QED
    BY <1>4, <2>1
<1> HIDE DEF d
<1>6. Extends(d, t, rs)
  BY <1>3, <1>5 DEF Extends
<1>7. SideGood(t) /\ t.type = d.type /\ t.requests = d.requests \o rs /\ (Waits(t) <=> Waits(d))
  BY <1>2, <1>6, ExtendGood
<1> QED
  BY <1>2, <1>7 DEF t, rs

LEMMA LocalUnanswered ==
  ASSUME NEW s, SideGood(s), NEW c \in {"yes", "no", "makedir", "move"},
         ~(s.requests # <<>> /\ Head(s.requests).type = "PATH_INFO")
  PROVE  LET t == LocalCommand(s, c) IN SideGood(t) /\ t.type = s.type /\ ~Waits(s) /\ ~Waits(t)
<1> DEFINE t == LocalCommand(s, c)
<1>1. s \in SideRec /\ s.selected \in SUBSET BName /\ "MOVE" \in Changes /\ s.requests \in Seq(RequestRec)
  BY SideFields DEF SideGood, Changes
<1>2. ~Waits(s)
  <2>1. s.requests # <<>> => 1 \in DOMAIN s.requests /\ Head(s.requests) = s.requests[1]
    BY <1>1
  <2> QED
    BY <2>1 DEF Waits, SideGood, AsksFirst
<1>3. CASE c = "makedir"
  <2>1. t = [s EXCEPT !.requests = Append(@, Request("MOVE", s.path, {}))]
    BY <1>3 DEF LocalCommand
  <2> HIDE DEF t
  <2>2. SideGood(t) /\ t.type = s.type /\ (Waits(t) <=> Waits(s))
    BY <2>1, OneChange
  <2> QED
    BY <1>2, <2>2 DEF t
<1>4. CASE c = "move"
  <2>1. t = [s EXCEPT !.requests = @ \o Requests("MOVE", s, s.selected)]
    BY <1>4 DEF LocalCommand
  <2> HIDE DEF t
  <2>2. SideGood(t) /\ t.type = s.type /\ (Waits(t) <=> Waits(s))
    BY <1>1, <2>1, MoreChanges
  <2> QED
    BY <1>2, <2>2 DEF t
<1>5. CASE c # "makedir" /\ c # "move"
  <2>1. t = s
    BY <1>5 DEF LocalCommand
  <2> QED
    BY <1>2, <2>1
<1> QED
  BY <1>3, <1>4, <1>5

\* The active side of a command.
Commanded(s, c) == CASE s.type = "SITE" -> SiteCommand(s, c)
                     [] s.type = "LOCAL" -> LocalCommand(s, c)
                     [] OTHER -> s

LEMMA CommandedGood ==
  ASSUME NEW s, SideGood(s), NEW c \in {"yes", "no", "makedir", "move"}
  PROVE  SideGood(Commanded(s, c)) /\ Commanded(s, c).type = s.type /\ ~Waits(Commanded(s, c))
<1> DEFINE t == Commanded(s, c)
<1>1. CASE s.type = "SITE"
  <2>1. t = SiteCommand(s, c)
    BY <1>1 DEF Commanded
  <2>2. SideGood(t) /\ t.type = s.type /\ (Waits(t) <=> Waits(s)) /\ ~Waits(s)
    BY <1>1, <2>1, SiteCommandGood, SiteNeverAsks
  <2> QED
    BY <2>2
<1>2. CASE s.type = "LOCAL"
  <2>1. t = LocalCommand(s, c)
    BY <1>2 DEF Commanded
  <2>2. CASE s.requests # <<>> /\ Head(s.requests).type = "PATH_INFO"
    BY <2>1, <2>2, LocalAnswered
  <2>3. CASE ~(s.requests # <<>> /\ Head(s.requests).type = "PATH_INFO")
    BY <2>1, <2>3, LocalUnanswered
  <2> QED
    BY <2>2, <2>3
<1>3. CASE s.type # "SITE" /\ s.type # "LOCAL"
  <2>1. t = s
    BY <1>3 DEF Commanded
  <2>2. ~Waits(s)
    BY <1>3, SiteNeverAsks
  <2> QED
    BY <2>1, <2>2
<1> QED
  BY <1>1, <1>2, <1>3

LEMMA AnswerShape ==
  ASSUME BrowseStrong, Answer
  PROVE  /\ question.kind # "none" /\ question' = NoQuestion /\ UNCHANGED pane
         /\ \/ \E c \in {"yes", "no", "makedir", "move"} :
                 /\ (question.kind = "confirm" => c \in {"yes", "no"})
                 /\ sides' = [sides EXCEPT ![pane.active] = Commanded(sides[pane.active], c)]
                 /\ wrong' \in WrongRec /\ (wrong'.astray <=> wrong.astray \/ question.asker # pane.active)
            \/ question.kind # "confirm" /\ UNCHANGED <<sides, wrong>>
<1>1. question.kind # "none" /\ question' = NoQuestion /\ UNCHANGED pane
  BY DEF Answer
<1>2. \/ \E c \in {"yes", "no", "makedir", "move"} : (question.kind = "confirm" => c \in {"yes", "no"}) /\ command(c)
      \/ question.kind # "confirm" /\ UNCHANGED <<sides, wrong>>
  BY DEF Answer
<1>3. ASSUME NEW c \in {"yes", "no", "makedir", "move"}, command(c)
      PROVE  /\ sides' = [sides EXCEPT ![pane.active] = Commanded(sides[pane.active], c)]
             /\ wrong' \in WrongRec /\ (wrong'.astray <=> wrong.astray \/ question.asker # pane.active)
  <2>1. sides' = [sides EXCEPT ![pane.active] = Commanded(sides[pane.active], c)]
    BY <1>3 DEF command, Commanded, Active
  <2> DEFINE a == wrong.astray \/ question.asker # pane.active
             b == wrong.assert \/ (Active.type = "SITE" /\ c = "yes" /\ Active.confirm = "NONE")
  <2>2. wrong' = [astray |-> a, assert |-> b]
    BY <1>3 DEF command
  <2>3. a \in BOOLEAN /\ b \in BOOLEAN
    BY PaneFields
  <2> HIDE DEF a, b
  <2>4. wrong' \in WrongRec /\ wrong'.astray = a
    BY <2>2, <2>3 DEF WrongRec
  <2> QED
    BY <2>1, <2>4 DEF a
<1> QED
  BY <1>1, <1>2, <1>3

LEMMA AnswerKeeps ==
  ASSUME BrowseStrong, ~wrong.astray, Answer
  PROVE  BrowseStrong'
<1> DEFINE i == pane.active
<1>1. question' \in QuestionRec /\ question'.kind # "confirm" /\ UNCHANGED pane /\ pane \in PaneRec
  BY AnswerShape DEF NoQuestion, QuestionRec, Side, BrowseStrong
<1>2. i \in Side /\ SideGood(sides[i])
  BY PaneFields
<1>3. /\ sides \in [Side -> SideRec] /\ wrong \in WrongRec /\ SideShown /\ \A j \in Side : SideGood(sides[j])
  BY DEF BrowseStrong
<1>4. ASSUME NEW c \in {"yes", "no", "makedir", "move"}, sides' = [sides EXCEPT ![i] = Commanded(sides[i], c)],
             wrong' \in WrongRec, wrong'.astray <=> wrong.astray \/ question.asker # i
      PROVE  BrowseStrong'
  <2> DEFINE u == Commanded(sides[i], c)
             both == [sides EXCEPT ![i] = u]
  <2>1. SideGood(u) /\ u.type = sides[i].type /\ ~Waits(u)
    BY <1>2, CommandedGood
  <2> HIDE DEF u, i
  <2>2. both \in [Side -> SideRec] /\ both[i] = u /\ both[Other(i)] = sides[Other(i)] /\ \A j \in Side : SideGood(both[j])
    BY <1>2, <1>3, <2>1, SideSet
  <2> HIDE DEF both
  <2>3. sides' = both
    BY <1>4 DEF both, u
  <2>4. \A j \in Side : both[j].type = sides[j].type
    BY <1>2, <2>1, <2>2, OtherSide
  <2>5. SideShown'
    BY <1>1, <1>3, <2>3, <2>4 DEF SideShown, Side
  <2>6. ASSUME NEW j \in Side, ~wrong'.astray, Seen(pane', j) PROVE ~Waits(sides'[j])
    <3>1. CASE j = i
      BY <2>1, <2>2, <2>3, <3>1
    <3>2. CASE j # i
      <4>1. j = Other(i) /\ question.asker = i /\ Seen(pane, j)
        BY <1>1, <1>2, <1>4, <2>6, <3>2, OtherSide
      <4>2. ~Waits(sides[j])
        BY <3>2, <4>1 DEF BrowseStrong
      <4> QED
        BY <2>2, <2>3, <4>1, <4>2
    <3> QED
      BY <3>1, <3>2
  <2> QED
    BY <1>1, <1>4, <2>2, <2>3, <2>5, <2>6, Unasked
<1>5. CASE question.kind # "confirm" /\ UNCHANGED <<sides, wrong>>
  <2>1. \A j \in Side : ~wrong'.astray /\ Seen(pane', j) => ~Waits(sides'[j])
    BY <1>1, <1>5, NobodyAsks
  <2>2. SideShown'
    BY <1>1, <1>3, <1>5 DEF SideShown
  <2> QED
    BY <1>1, <1>3, <1>5, <2>1, <2>2, Unasked
<1> QED
  BY <1>4, <1>5, AnswerShape

-----------------------------------------------------------------------------
LEMMA BrowseStepKeeps ==
  ASSUME BrowseStrong, BrowseNext
  PROVE  BrowseStrong'
<1>1. ~wrong.astray /\ BrowseStep
  BY DEF BrowseNext
<1>2. ASSUME NEW i \in Side, NEW k \in 1..MaxRequests, k <= Len(sides[i].requests), Execute(i, k)
      PROVE  BrowseStrong'
  BY <1>2, ExecuteGood
<1>3. update => BrowseStrong'
  BY <1>1, UpdateKeeps
<1>4. Select \/ ChangeDirectory \/ DeleteKeySite \/ DeleteKeyLocal \/ OpenInput => BrowseStrong'
  BY <1>1, SelectKeeps, ChangeDirectoryKeeps, DeleteKeySiteKeeps, DeleteKeyLocalKeeps, OpenInputKeeps
<1>5. SplitKey \/ OpenSide \/ CloseKey \/ BackKey \/ continueBrowsing => BrowseStrong'
  BY <1>1, SplitKeyKeeps, OpenSideKeeps, CloseKeyKeeps, BackKeyKeeps, ContinueKeeps
<1>6. Answer => BrowseStrong'
  BY <1>1, AnswerKeeps
<1> QED
  BY <1>1, <1>2, <1>3, <1>4, <1>5, <1>6 DEF BrowseStep

LEMMA BrowseStutters ==
  ASSUME BrowseStrong, UNCHANGED bvars
  PROVE  BrowseStrong'
BY DEF BrowseStrong, bvars, SideShown, Seen

LEMMA BrowseAgrees ==
  ASSUME BrowseStrong
  PROVE  BrowseInv
<1>1. BrowseTypeOK
  BY DEF BrowseStrong, BrowseTypeOK, PaneRec, QuestionRec, WrongRec
<1>2. BlockedIsAsked
  BY DEF BrowseStrong, BlockedIsAsked, Waits, Seen
<1>3. FreshWhenQuiet
  <2> SUFFICES ASSUME NEW i \in Side, sides[i].requests = <<>>, sides[i].stale
               PROVE  sides[i].refreshafter \/ sides[i].missed
    BY DEF FreshWhenQuiet
  <2>1. FreshSide(sides[i]) /\ DOMAIN sides[i].requests = {}
    BY DEF BrowseStrong, SideGood
  <2> QED
    BY <2>1 DEF FreshSide, Remedied, Changed, Listing
<1> QED
  BY <1>1, <1>2, <1>3 DEF BrowseInv, BrowseStrong

LEMMA BrowseAlways == BrowseSpec => []BrowseStrong
<1>1. BrowseInit => BrowseStrong
  BY BrowseStart
<1>2. BrowseStrong /\ [BrowseNext]_bvars => BrowseStrong'
  BY BrowseStepKeeps, BrowseStutters
<1> QED
  BY <1>1, <1>2, PTL DEF BrowseSpec

\* The sides of the browser, their requests and the question on screen agree
\* (BrowseInv): a side that waits for an answer is being asked
\* (BrowseScreen::update, switchSide, command), and a side that has nothing
\* under way shows no directory from before a change it made, but for the
\* exceptions of FreshWhenQuiet (handleReadyRequests of both kinds of side).
THEOREM BrowseCorrect == BrowseSpec => []BrowseInv
<1>1. BrowseStrong => BrowseInv
  BY BrowseAgrees
<1> QED
  BY <1>1, BrowseAlways, PTL

-----------------------------------------------------------------------------
(***************************************************************************)
(* What a "yes" deletes.                                                   *)
(***************************************************************************)
LEMMA InEither ==
  ASSUME NEW a \in Seq(RequestRec), NEW b \in Seq(RequestRec), NEW k \in DOMAIN (a \o b)
  PROVE  \/ \E j \in DOMAIN a : a[j] = (a \o b)[k]
         \/ \E j \in DOMAIN b : b[j] = (a \o b)[k]
<1>1. /\ Len(a) \in Nat /\ Len(b) \in Nat /\ DOMAIN a = 1..Len(a) /\ DOMAIN b = 1..Len(b)
      /\ DOMAIN (a \o b) = 1..(Len(a) + Len(b))
  OBVIOUS
<1>2. CASE k <= Len(a)
  <2>1. k \in DOMAIN a /\ (a \o b)[k] = a[k]
    BY <1>1, <1>2
  <2> QED
    BY <2>1
<1>3. CASE ~(k <= Len(a))
  <2>1. k - Len(a) \in DOMAIN b /\ (a \o b)[k] = b[k - Len(a)]
    BY <1>1, <1>3
  <2> QED
    BY <2>1
<1> QED
  BY <1>2, <1>3

\* A request r to delete is an old one of the side, or what q asked about.
Deletes(s, r, q) ==
  r.type = "DELETE" /\ r.state = "pending"
  => \/ \E j \in DOMAIN s.requests : s.requests[j] = r
     \/ r.path = q.path /\ r.files \subseteq q.files

LEMMA AnsweredDeletes ==
  ASSUME NEW s, SideGood(s), NEW c \in {"yes", "no"}, NEW q, QuestionFits(s, q),
         NEW k \in DOMAIN Commanded(s, c).requests
  PROVE  Deletes(s, Commanded(s, c).requests[k], q)
<1> DEFINE t == Commanded(s, c)
           r == t.requests[k]
<1>1. s \in SideRec /\ s.requests \in Seq(RequestRec) /\ s.selected \in SUBSET BName /\ s.path \in BPath \cup {Nowhere}
      /\ "DELETE" \in Changes
  BY SideFields DEF SideGood, Changes
<1>2. CASE s.type = "SITE" /\ q.path = s.path /\ q.files = s.selected
  <2> DEFINE rs == Requests("DELETE", s, s.selected)
  <2>1. t = SiteCommand(s, c)
    BY <1>2 DEF Commanded
  <2>2. t.requests = s.requests \/ t.requests = s.requests \o rs
    BY <1>1, <2>1 DEF SiteCommand, SideRec
  <2>3. /\ rs \in Seq(RequestRec)
        /\ \A j \in DOMAIN rs : rs[j].path = s.path /\ rs[j].files \subseteq s.selected
    BY <1>1, Asks
  <2> HIDE DEF rs, t
  <2>4. CASE t.requests = s.requests
    BY <2>4 DEF Deletes, t
  <2>5. CASE t.requests = s.requests \o rs
    <3>1. k \in DOMAIN (s.requests \o rs) /\ r = (s.requests \o rs)[k]
      BY <2>5 DEF t
    <3> HIDE DEF r
    <3>2. \/ \E j \in DOMAIN s.requests : s.requests[j] = r
          \/ \E j \in DOMAIN rs : rs[j] = r
      BY <1>1, <2>3, <3>1, InEither
    <3> QED
      BY <1>2, <2>3, <3>2 DEF Deletes, r, t
  <2> QED
    BY <2>2, <2>4, <2>5
<1>3. CASE s.type = "LOCAL" /\ Waits(s) /\ q.path = Head(s.requests).path /\ q.files = Head(s.requests).files
  <2> DEFINE rs == AnsweredBy(s, c)
             old == Tail(s.requests)
  <2>1. t = LocalCommand(s, c)
    BY <1>3 DEF Commanded
  <2>2. s.requests # <<>> /\ Head(s.requests).type = "PATH_INFO"
    <3>1. s.requests # <<>> /\ 1 \in DOMAIN s.requests /\ Head(s.requests) = s.requests[1]
      BY <1>1, <1>3 DEF Waits
    <3> QED
      BY <1>3, <3>1 DEF Waits, SideGood, AsksFirst
  <2>3. t.requests = old \o rs
    BY <2>1, <2>2, LocalAnswered
  <2>4. /\ rs \in Seq(RequestRec)
        /\ \A j \in DOMAIN rs : rs[j].path = Head(s.requests).path /\ rs[j].files \subseteq Head(s.requests).files
    BY <2>2, AnsweredAsks
  <2>5. old \in Seq(RequestRec) /\ DOMAIN old = 1..(Len(s.requests) - 1) /\ Len(s.requests) \in Nat
        /\ \A j \in DOMAIN old : j + 1 \in DOMAIN s.requests /\ old[j] = s.requests[j + 1]
    BY <1>1, <2>2
  <2> HIDE DEF rs, old, t
  <2>6. \/ \E j \in DOMAIN old : old[j] = r
        \/ \E j \in DOMAIN rs : rs[j] = r
    BY <2>3, <2>4, <2>5, InEither DEF t
  <2>7. (\E j \in DOMAIN old : old[j] = r) => \E j \in DOMAIN s.requests : s.requests[j] = r
    BY <2>5
  <2> QED
    BY <1>3, <2>4, <2>6, <2>7 DEF Deletes, t
<1> QED
  BY <1>2, <1>3 DEF QuestionFits

LEMMA StepDeletes ==
  ASSUME BrowseStrong, [BrowseNext]_bvars, question.kind = "confirm", question.asker = pane.active, NEW i \in Side,
         NEW k \in DOMAIN sides'[i].requests
  PROVE  Deletes(sides[i], sides'[i].requests[k], question)
<1>1. \/ UNCHANGED sides \/ Answer
      \/ \E j \in Side : \E n \in 1..MaxRequests : n <= Len(sides[j].requests) /\ Execute(j, n)
  BY DEF BrowseNext, BrowseStep, bvars, update, Select, ChangeDirectory, DeleteKeySite, DeleteKeyLocal, OpenInput,
         SplitKey, OpenSide, CloseKey, BackKey, continueBrowsing, OnTop
<1>2. sides \in [Side -> SideRec] /\ SideGood(sides[i]) /\ sides[i].requests \in Seq(RequestRec)
      /\ pane.active \in Side /\ QuestionFits(sides[question.asker], question)
  BY PaneFields, SideFields DEF BrowseStrong
<1>3. CASE sides'[i] = sides[i]
  BY <1>3 DEF Deletes
<1>4. ASSUME NEW n \in 1..MaxRequests, n <= Len(sides[i].requests), Execute(i, n)
      PROVE  Deletes(sides[i], sides'[i].requests[k], question)
  <2>1. n \in 1..Len(sides[i].requests)
    BY <1>2, <1>4
  <2>8. PICK result \in {"ok", "failed"} : \E u : ExecutedSo(sides[i], u, n, result) /\ sides' = [sides EXCEPT ![i] = u]
    BY <1>4, <2>1, ExecuteShape
  <2>2. PICK u : ExecutedSo(sides[i], u, n, result) /\ sides' = [sides EXCEPT ![i] = u]
    BY <2>8
  <2>3. sides'[i] = u
    BY <1>2, <2>2
  <2>4. DOMAIN u.requests = 1..Len(sides[i].requests) /\ DOMAIN sides[i].requests = 1..Len(sides[i].requests)
    BY <1>2, <2>2 DEF ExecutedSo
  <2>5. k \in 1..Len(sides[i].requests)
    BY <2>3, <2>4
  <2>6. CASE k = n
    BY <2>2, <2>3, <2>5, <2>6 DEF ExecutedSo, Deletes
  <2>7. CASE k # n
    BY <2>2, <2>3, <2>4, <2>5, <2>7 DEF ExecutedSo, Deletes
  <2> QED
    BY <2>6, <2>7
<1>5. ASSUME NEW j \in Side, NEW n \in 1..MaxRequests, n <= Len(sides[j].requests), Execute(j, n), j # i
      PROVE  sides'[i] = sides[i]
  BY <1>2, <1>5 DEF Execute
<1>6. CASE Answer
  <2>1. PICK c \in {"yes", "no"} : sides' = [sides EXCEPT ![pane.active] = Commanded(sides[pane.active], c)]
    BY <1>6, AnswerShape
  <2>2. CASE i # pane.active
    BY <1>2, <1>3, <2>1, <2>2
  <2>3. CASE i = pane.active
    <3>1. sides'[i] = Commanded(sides[i], c) /\ QuestionFits(sides[i], question)
      BY <1>2, <2>1, <2>3
    <3> QED
      BY <1>2, <3>1, AnsweredDeletes
  <2> QED
    BY <2>2, <2>3
<1> QED
  BY <1>1, <1>3, <1>4, <1>5, <1>6

\* A file that a "yes" starts to delete is one the question was about
\* (DeletedIsAsked), when the side that asked gets the answer: whatever has
\* been listed, selected or taken over between the question and the answer
\* (BrowseScreenSite::command, BrowseScreenLocal::command).
THEOREM OnlyAskedDeleted == BrowseSpec => DeletedIsAsked
<1> DEFINE Harmless ==
      \A i \in Side :
        /\ question.kind = "confirm" /\ question.asker = pane.active
        /\ Len(sides'[i].requests) >= Len(sides[i].requests)
        => \A k \in DOMAIN sides'[i].requests :
             LET r == sides'[i].requests[k] IN
             r.type = "DELETE" /\ r.state = "pending"
             => \/ \E j \in DOMAIN sides[i].requests : sides[i].requests[j] = r
                \/ r.path = question.path /\ r.files \subseteq question.files
<1>1. BrowseStrong /\ [BrowseNext]_bvars => Harmless
  BY StepDeletes DEF Deletes
<1>2. [][Harmless]_bvars => DeletedIsAsked
  BY PTL DEF DeletedIsAsked
<1> HIDE DEF Harmless
<1>3. []BrowseStrong /\ [][BrowseNext]_bvars => [][Harmless]_bvars
  BY <1>1, PTL
<1> QED
  BY <1>2, <1>3, BrowseAlways, PTL DEF BrowseSpec
=============================================================================
