----------------------------- MODULE SiteConfig -----------------------------
(***************************************************************************)
(* The configured sites and sections: SiteManager, Site, SectionManager    *)
(* and SiteLogicManager, changed by the screens of the user interface and  *)
(* by the requests of the HTTPS interface, which may arrive while a site   *)
(* is open in the edit screen.                                             *)
(*                                                                         *)
(* A Site is an object that others hold on to, found by its name.  Of its  *)
(* settings the model has those that refer to something else: the sites it *)
(* trades with, its sections, and the slots its SiteLogic is built from.   *)
(* A behaviour is about one aspect of them.                                *)
(***************************************************************************)
EXTENDS Integers, Sequences, FiniteSets, SequencesExt

CONSTANTS
  MaxSites,      \* bound: Site objects alive at one time
  SiteNames,     \* the names of sites
  SectionNames,  \* the names of sections
  SlotCounts,         \* the numbers of slots that are entered, -1 for unlimited
  MaxKeys,       \* bound: keys with a value in one change
  Aspects        \* the aspects to consider, of "pairs", "sections" and "slots"

ASSUME SiteConfigAssumption ==
  /\ MaxSites \in Nat \ {0} /\ IsFiniteSet(SiteNames) /\ SiteNames # {} /\ IsFiniteSet(SectionNames)
  /\ SlotCounts \subseteq Int /\ MaxKeys \in Nat
  /\ Aspects \subseteq {"pairs", "sections", "slots"}

VARIABLES
  aspect,   \* what the behaviour is about
  sites,    \* SiteManager::sites, every Site object, and SiteLogicManager::sitelogics
  known,    \* SectionManager::sections
  editing,  \* the edit screen: the site it is about and the copy it works on
  mishap    \* whether two sites have shared a name, whether the edit screen was overtaken,
            \* whether a SiteLogic has outlived its site

configVars == <<aspect, sites, known, editing, mishap>>

Objects == 1..MaxSites
NoSite == 0
Policy == {"ALLOW", "BLOCK"}

\* loose: settings of the object were changed without the step that carries them over
\* to the other sites and to its SiteLogic
SiteObject ==
  [name : SiteNames, source : Policy, target : Policy, exceptsource : SUBSET Objects, excepttarget : SUBSET Objects,
   sections : SUBSET SectionNames, logins : Int, up : Int, pre : Int, loose : BOOLEAN]

\* Site::Site, SiteManager::createNewSite
NewSite(n) ==
  [name |-> n, source |-> "ALLOW", target |-> "ALLOW", exceptsource |-> {}, excepttarget |-> {},
   sections |-> {}, logins |-> 3, up |-> 3, pre |-> -2, loose |-> FALSE]

NotEditing == [site |-> NoSite, add |-> FALSE, sections |-> {}, pre |-> -2]

ConfigInit ==
  /\ aspect \in Aspects
  /\ sites = [managed |-> {}, object |-> [o \in Objects |-> NewSite(CHOOSE n \in SiteNames : TRUE)], logics |-> << >>,
              conns |-> [o \in Objects |-> 0]]
  /\ known = {}
  /\ editing = NotEditing
  /\ mishap = [names |-> FALSE, overtaken |-> FALSE, leftover |-> FALSE]

-----------------------------------------------------------------------------
\* Site

\* Site::getMaxLogins, getMaxUp, getMaxDownPre
Unlimited == 10
getMaxLogins(s) == IF s.logins = -1 THEN Unlimited ELSE s.logins
getMaxUp(s) == IF s.up = -1 THEN getMaxLogins(s) ELSE s.up
getMaxDownPre(s) == IF s.pre = -1 THEN getMaxLogins(s) ELSE IF s.pre = -2 THEN getMaxUp(s) ELSE s.pre

\* Site::setMaxUp, setMaxDnPre, setMaxLogins
Limit(s, n) == IF n > s.logins /\ s.logins > 0 THEN s.logins ELSE n
setMaxUp(s, n) == [s EXCEPT !.up = Limit(s, n)]
setMaxDnPre(s, n) == [s EXCEPT !.pre = Limit(s, n)]

setMaxLogins(s, n) ==
  LET Cut(k) == IF n > 0 /\ k > n THEN n ELSE k
  IN [s EXCEPT !.logins = n, !.up = Cut(@), !.pre = Cut(@)]

\* Site::isAllowedTargetSite and its counterpart for sources
isAllowedTargetSite(a, b) == (b \in sites.object[a].excepttarget) = (sites.object[a].target = "BLOCK")
isAllowedSourceSite(a, b) == (b \in sites.object[a].exceptsource) = (sites.object[a].source = "BLOCK")

\* Site::addAllowedTargetSite, addBlockedTargetSite, addAllowedSourceSite, addBlockedSourceSite
\* for the sites of B
AllowTarget(s, B, allow) ==
  [s EXCEPT !.excepttarget = IF (s.target = "BLOCK") = allow THEN @ \cup B ELSE @ \ B]
AllowSource(s, B, allow) ==
  [s EXCEPT !.exceptsource = IF (s.source = "BLOCK") = allow THEN @ \cup B ELSE @ \ B]

-----------------------------------------------------------------------------
\* SiteManager and SiteLogicManager

Named(m, n) == {o \in m.managed : m.object[o].name = n}

\* SiteManager::getSite
getSite(m, n) == IF Named(m, n) = {} THEN NoSite ELSE CHOOSE o \in Named(m, n) : TRUE

\* SiteManager::resetSitePairsForSite
resetSitePairsForSite(m, a) ==
  LET s == m.object[a] IN
  [m EXCEPT !.object = [o \in Objects |->
     IF o = a THEN [s EXCEPT !.exceptsource = {}, !.excepttarget = {}]
     ELSE IF o \notin m.managed THEN @[o]
     ELSE AllowSource(AllowTarget(@[o], {a}, s.source = "ALLOW"), {a}, s.target = "ALLOW")]]

\* SiteManager::addExceptSourceForSite and addExceptTargetForSite for all sites of a set
addExceptForSite(m, a, sources, targets) ==
  LET s == m.object[a]
      from == sources \ {a, NoSite}
      to == targets \ {a, NoSite}
      Theirs(o) == AllowSource(AllowTarget(m.object[o], {x \in {a} : o \in from}, s.source = "BLOCK"),
                               {x \in {a} : o \in to}, s.target = "BLOCK")
  IN [m EXCEPT !.object = [o \in Objects |->
        IF o = a THEN AllowTarget(AllowSource(s, from, s.source = "BLOCK"), to, s.target = "BLOCK") ELSE Theirs(o)]]

\* SiteLogicManager::getSiteLogic makes the SiteLogic of a site that has none
FoundLogic(m, n) == SelectInSeq(m.logics, LAMBDA o : m.object[o].name = n)
getSiteLogic(m, n) ==
  LET o == getSite(m, n) IN
  IF FoundLogic(m, n) # 0 \/ o = NoSite THEN m
  ELSE [m EXCEPT !.logics = Append(@, o), !.conns[o] = getMaxLogins(m.object[o])]

\* SiteLogic::siteUpdated, setNumConnections
siteUpdated(m, n) ==
  LET i == FoundLogic(m, n) IN
  IF i = 0 THEN m ELSE [m EXCEPT !.conns[m.logics[i]] = getMaxLogins(m.object[m.logics[i]])]

\* The end of updateSite and of the edit screen: the pairs of the site found under
\* its name, then its SiteLogic
Carry(m, o, sources, targets) ==
  LET n == m.object[o].name
      a == getSite(m, n)
      Sites(names) == {getSite(m, x) : x \in names}
      paired == IF a = NoSite THEN m ELSE addExceptForSite(resetSitePairsForSite(m, a), a, Sites(sources), Sites(targets))
      tight  == IF a = NoSite THEN paired ELSE [paired EXCEPT !.object[a].loose = FALSE]
  IN siteUpdated(getSiteLogic(tight, n), n)

\* Nobody holds the object any more
Unheld(m, e, o) == o \notin m.managed /\ o # e /\ \A i \in DOMAIN m.logics : m.logics[i] # o
\* Of a site that only its SiteLogic still holds the name matters, as it is found by it
Released(m, e) ==
  [m EXCEPT !.object = [o \in Objects |-> IF Unheld(m, e, o) THEN NewSite(CHOOSE n \in SiteNames : TRUE)
                                          ELSE IF o \notin m.managed \cup {e} THEN NewSite(@[o].name) ELSE @[o]],
            !.conns = [o \in Objects |-> IF o \notin m.managed THEN 0 ELSE @[o]]]

ConfigBecomes(m) ==
  /\ sites' = Released(m, editing'.site)
  /\ mishap' = [mishap EXCEPT !.names = @ \/ \E a, b \in m.managed : a # b /\ m.object[a].name = m.object[b].name,
                             !.leftover = @ \/ \E i \in DOMAIN m.logics : m.logics[i] \notin m.managed]

\* The next object
Fresh(o) == Unheld(sites, editing.site, o) /\ \A p \in 1..(o - 1) : ~Unheld(sites, editing.site, p)

\* The limits of a site concern no other site: one at a time is enough
Wanted == aspect = "slots" => sites.managed = {} /\ editing.site = NoSite

-----------------------------------------------------------------------------
\* The HTTPS interface

\* The keys of a body, in the order in which updateSite meets them
Keys == <<"except_source_sites", "except_target_sites", "max_logins", "max_sim_down_pre", "max_sim_up", "name",
          "sections", "transfer_source_policy", "transfer_target_policy", "unknown">>

\* A body has a value for some keys; bad is the first key whose value is refused, if any
Optional(S) == {{}} \cup {{x} : x \in S}
Refused(about) == CASE about = "pairs" -> "transfer_target_policy" [] about = "sections" -> "unknown"
                    [] about = "slots" -> "name"
GoodBodies(about) ==
  {b \in [name : Optional(SiteNames),
          source : IF about = "pairs" THEN Optional(Policy) ELSE {{}},
          target : IF about = "pairs" THEN Optional(Policy) ELSE {{}},
          exceptsource : IF about = "pairs" THEN Optional({{n} : n \in SiteNames}) ELSE {{}},
          excepttarget : IF about = "pairs" THEN Optional({{n} : n \in SiteNames}) ELSE {{}},
          sections : IF about = "sections" THEN Optional(SUBSET SectionNames) ELSE {{}},
          logins : IF about = "slots" THEN Optional(SlotCounts) ELSE {{}},
          up : IF about = "slots" THEN Optional(SlotCounts) ELSE {{}},
          pre : IF about = "slots" THEN Optional(SlotCounts \cup {-2}) ELSE {{}},
          bad : {"none"}] :
     Cardinality({f \in DOMAIN b \ {"bad"} : b[f] # {}}) <= MaxKeys}
Bodies == [about \in Aspects |->
  {[b EXCEPT !.bad = key] : b \in GoodBodies(about), key \in {"none", Refused(about)}}]
Body == Bodies[aspect]

Place == [k \in {Keys[i] : i \in DOMAIN Keys} |-> CHOOSE i \in DOMAIN Keys : Keys[i] = k]
Reads(b, key) == b.bad = "none" \/ Place[key] < Place[b.bad]
Get(opt, default) == IF opt = {} THEN default ELSE CHOOSE x \in opt : TRUE

\* updateSite, the loop over the keys: the setters up to the one that throws
Apply(s, b) ==
  LET l == IF b.logins # {} /\ Reads(b, "max_logins") THEN setMaxLogins(s, Get(b.logins, 0)) ELSE s
      p == IF b.pre # {} /\ Reads(b, "max_sim_down_pre") THEN setMaxDnPre(l, Get(b.pre, 0)) ELSE l
      u == IF b.up # {} /\ Reads(b, "max_sim_up") THEN setMaxUp(p, Get(b.up, 0)) ELSE p
  IN [u EXCEPT !.name = IF Reads(b, "name") THEN Get(b.name, @) ELSE @,
               !.sections = IF Reads(b, "sections") THEN Get(b.sections, @) ELSE @,
               !.source = IF Reads(b, "transfer_source_policy") THEN Get(b.source, @) ELSE @,
               !.target = IF Reads(b, "transfer_target_policy") THEN Get(b.target, @) ELSE @,
               !.loose = TRUE]

\* Site::addSection makes the section known
Announce(b) == known' = known \cup (IF Reads(b, "sections") THEN UNION b.sections ELSE {})

\* updateSite
updateSite(m, o, b) ==
  LET s == m.object[o]
      NamesOf(objects) == {m.object[x].name : x \in objects}
      done == [m EXCEPT !.object[o] = Apply(s, b)]
  IN /\ Announce(b)
     /\ \/ b.bad # "none" /\ ConfigBecomes(done)
        \/ /\ b.bad = "none"
           /\ ConfigBecomes(Carry(done, o, Get(b.exceptsource, NamesOf(s.exceptsource)),
                                           Get(b.excepttarget, NamesOf(s.excepttarget))))

\* RestApi::handleSitesPost: the new object joins the sites when its body was good
handleSitesPost(o, b) ==
  /\ b.name # {} /\ Named(sites, Get(b.name, "")) = {} /\ Fresh(o) /\ Wanted
  /\ UNCHANGED editing
  /\ LET new == [sites EXCEPT !.object[o] = NewSite(Get(b.name, "")), !.conns[o] = 0] IN
     IF b.bad = "none" THEN updateSite([new EXCEPT !.managed = @ \cup {o}], o, b)
     ELSE Announce(b) /\ ConfigBecomes(sites)

\* RestApi::handleSitePatch
handleSitePatch(o, b) ==
  /\ o \in sites.managed
  /\ UNCHANGED editing
  /\ updateSite(sites, o, b)

deleteSiteUnpurged(m, o) == [m EXCEPT !.managed = @ \ {o}]

\* SiteManager::deleteSite, purgeSite, Site::purgeOtherSite
deleteSite(m, o) ==
  [m EXCEPT !.managed = @ \ {o},
            !.object = [x \in Objects |->
               IF x \in m.managed
                 THEN [m.object[x] EXCEPT !.exceptsource = @ \ {o}, !.excepttarget = @ \ {o}] ELSE m.object[x]]]

\* RestApi::handleSiteDelete: the SiteLogic of the site stays
handleSiteDelete(o) ==
  /\ o \in sites.managed
  /\ UNCHANGED <<known, editing>> /\ ConfigBecomes(deleteSite(sites, o))

\* RestApi::handleSiteSectionPost, handleSiteSectionDelete
handleSiteSectionPost(o, x) ==
  /\ o \in sites.managed /\ x \notin sites.object[o].sections
  /\ known' = known \cup {x} /\ UNCHANGED editing
  /\ ConfigBecomes([sites EXCEPT !.object[o].sections = @ \cup {x}])
handleSiteSectionDelete(o, x) ==
  /\ o \in sites.managed /\ x \in sites.object[o].sections
  /\ UNCHANGED <<known, editing>> /\ ConfigBecomes([sites EXCEPT !.object[o].sections = @ \ {x}])

\* RestApi::handleSectionPost, SectionManager::addSection
handleSectionPost(x) ==
  /\ x \notin known
  /\ known' = known \cup {x} /\ UNCHANGED <<sites, editing, mishap>>

\* The edit screen keeps the sections it was opened with
Overtakes(x) == mishap' = [mishap EXCEPT !.overtaken = @ \/ x \in editing.sections]

\* SectionManager::removeSection
removeSection(x) ==
  /\ x \in known
  /\ known' = known \ {x} /\ Overtakes(x) /\ UNCHANGED editing
  /\ sites' = [sites EXCEPT !.object = [o \in Objects |->
                 IF o \in sites.managed THEN [sites.object[o] EXCEPT !.sections = @ \ {x}] ELSE sites.object[o]]]

\* SectionManager::replaceSection with another name
replaceSection(x, y) ==
  /\ x \in known /\ y \notin known
  /\ known' = (known \ {x}) \cup {y} /\ Overtakes(x) /\ UNCHANGED editing
  /\ sites' = [sites EXCEPT !.object = [o \in Objects |->
                 IF o \in sites.managed /\ x \in sites.object[o].sections
                   THEN [sites.object[o] EXCEPT !.sections = (@ \ {x}) \cup {y}] ELSE sites.object[o]]]

-----------------------------------------------------------------------------
\* The user interface

\* MainScreen, KEYACTION_COPY: the copy has the policies of the site, not its exceptions
CopySite(o, c, n) ==
  /\ aspect = "pairs" /\ o \in sites.managed /\ Fresh(c)
  /\ Named(sites, n) = {} /\ UNCHANGED <<known, editing>>
  /\ ConfigBecomes([sites EXCEPT
       !.object[c] = [sites.object[o] EXCEPT !.name = n, !.exceptsource = {}, !.excepttarget = {}, !.loose = TRUE],
       !.managed = @ \cup {c}, !.conns[c] = 0])

\* MainScreen::command, a site is deleted with its SiteLogic
DeleteSite(o) ==
  LET i == FoundLogic(sites, sites.object[o].name)
      gone == IF i = 0 THEN sites ELSE [sites EXCEPT !.logics = RemoveAt(@, i)]
  IN /\ o \in sites.managed /\ editing.site = NoSite
     /\ UNCHANGED <<known, editing>> /\ ConfigBecomes(deleteSite(gone, o))

\* EditSiteScreen::initialize with a site, or with a new object
EditSite(o) ==
  /\ editing.site = NoSite /\ o \in sites.managed
  /\ editing' = [site |-> o, add |-> FALSE, sections |-> sites.object[o].sections, pre |-> sites.object[o].pre]
  /\ UNCHANGED <<sites, known, mishap>>
AddSite(o, n) ==
  /\ aspect # "pairs" /\ Wanted /\ editing.site = NoSite /\ Fresh(o)
  /\ editing' = [site |-> o, add |-> TRUE, sections |-> {}, pre |-> -2]
  /\ sites' = [sites EXCEPT !.object[o] = NewSite(n), !.conns[o] = 0] /\ UNCHANGED <<known, mishap>>

\* EditSiteSectionScreen::setSections on the copy of the edit screen
EditSections(S) ==
  /\ aspect = "sections" /\ editing.site # NoSite
  /\ editing' = [editing EXCEPT !.sections = S]
  /\ known' = known \cup S /\ UNCHANGED <<sites, mishap>>

\* EditSiteScreen::keyPressed, KEYACTION_BACK_CANCEL
EditCancel ==
  /\ editing.site # NoSite
  /\ editing' = NotEditing /\ UNCHANGED known /\ ConfigBecomes(sites)

\* EditSiteScreen::keyPressed, KEYACTION_DONE: what the fields and the copy have is
\* written into the site, which is still the object the screen was opened with
EditDone(b) ==
  LET o == editing.site
      s == sites.object[o]
      field == Apply([s EXCEPT !.sections = editing.sections], b)
      set == [sites EXCEPT !.object[o] = setMaxDnPre(field, editing.pre),
                           !.managed = IF editing.add THEN @ \cup {o} ELSE @]
      NamesOf(objects) == {sites.object[x].name : x \in objects}
  IN /\ o # NoSite /\ b.bad = "none" /\ b.sections = {} /\ b.pre = {}
     /\ LET n == Get(b.name, s.name) IN (n # s.name \/ editing.add) => Named(sites, n) = {}
     /\ editing' = NotEditing /\ UNCHANGED known
     /\ ConfigBecomes(Carry(set, o, Get(b.exceptsource, NamesOf(s.exceptsource)),
                                    Get(b.excepttarget, NamesOf(s.excepttarget))))

RestChanges ==
  \/ \E o \in Objects : handleSiteDelete(o) \/ \E b \in Body : handleSitesPost(o, b) \/ handleSitePatch(o, b)
  \/ aspect = "sections" /\ \E x \in SectionNames :
       \/ handleSectionPost(x) \/ removeSection(x)
       \/ \E y \in SectionNames : replaceSection(x, y)
       \/ \E o \in Objects : handleSiteSectionPost(o, x) \/ handleSiteSectionDelete(o, x)

UiChanges ==
  \/ \E o \in Objects : EditSite(o) \/ DeleteSite(o)
  \/ \E o \in Objects, n \in SiteNames : AddSite(o, n) \/ \E c \in Objects : CopySite(o, c, n)
  \/ EditCancel
  \/ \E S \in SUBSET SectionNames : EditSections(S)
  \/ \E b \in Body : EditDone(b)

\* Two sites of one name, and there is no telling which one is found: not followed further
ConfigNext == ~mishap.names /\ (RestChanges \/ UiChanges) /\ UNCHANGED aspect

ConfigSpec == ConfigInit /\ [][ConfigNext]_configVars

-----------------------------------------------------------------------------
\* Type invariant of the sites, the sections and the edit screen.
ConfigTypeOK ==
  /\ sites.managed \subseteq Objects /\ known \subseteq SectionNames
  /\ \A o \in Objects : sites.object[o] \in SiteObject
  /\ \A i \in DOMAIN sites.logics : sites.logics[i] \in Objects
  /\ editing.site \in Objects \cup {NoSite} /\ editing.sections \subseteq SectionNames

\* Two sites agree on whether files may go from one to the other, as both screens
\* show it and the race engine asks only one of them (SiteManager::
\* resetSitePairsForSite, addExceptSourceForSite, addExceptTargetForSite): as long
\* as names are unique, and for sites whose last change was carried over.
PairsAgree ==
  ~mishap.names =>
    \A a, b \in sites.managed :
      a # b /\ ~sites.object[a].loose /\ ~sites.object[b].loose =>
        isAllowedTargetSite(a, b) = isAllowedSourceSite(b, a)

\* An exception of a site names a site that exists, as the screens and saveSettings
\* take its name from it (SiteManager::purgeSite).
ExceptionsExist ==
  \A a \in sites.managed : sites.object[a].exceptsource \cup sites.object[a].excepttarget \subseteq sites.managed

\* A section of a site is a section (SectionManager::removeSection, replaceSection,
\* Site::addSection), unless it was removed or renamed while the edit screen held it.
SectionsKnown ==
  ~mishap.overtaken => \A o \in sites.managed : sites.object[o].sections \subseteq known

\* No limit of a site is above its number of logins (Site::setMaxLogins and the
\* setters of the limits, whatever the order in which they are called).
WithinLogins ==
  \A o \in Objects : LET s == sites.object[o] IN
    s.logins > 0 => getMaxUp(s) <= getMaxLogins(s) /\ getMaxDownPre(s) <= getMaxLogins(s)

\* The SiteLogic that is found under the name of a site serves this site, with as many
\* connections as it has logins once its last change was carried over, unless a SiteLogic
\* has outlived a site that was deleted over the HTTPS interface (SiteLogicManager::
\* getSiteLogic, SiteLogic::siteUpdated).
LogicServes ==
  ~mishap.names /\ ~mishap.leftover =>
    \A o \in sites.managed :
      LET i == FoundLogic(sites, sites.object[o].name) IN
      i # 0 => /\ sites.logics[i] = o
               /\ sites.object[o].loose \/ sites.conns[o] = getMaxLogins(sites.object[o])

\* What the sites say about one another, about sections and about slots stays
\* consistent, whichever interface changes it.
ConfigInv ==
  /\ ConfigTypeOK /\ PairsAgree /\ ExceptionsExist /\ SectionsKnown
  /\ WithinLogins /\ LogicServes
=============================================================================
