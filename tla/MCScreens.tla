----------------------------- MODULE MCScreens -----------------------------
(***************************************************************************)
(* Instances of Ui, SiteConfig and Settings for TLC.  They share no state: *)
(* a behaviour is one of them, the others keep an initial state.           *)
(***************************************************************************)
EXTENDS Ui, SiteConfig, Settings

VARIABLE part   \* which of the components the behaviour is about

\* Bound on what is unusual about the frame at a time: the height of the
\* terminal, the full screen, the missing legend.
Unusual == {x \in {"rows", "full", "mode"} :
              \/ x = "rows" /\ frame.rows = 30
              \/ x = "full" /\ frame.full
              \/ x = "mode" /\ frame.mode = "DISABLED"}
SmallFrame == \/ Unusual \subseteq {"mode"}
              \/ data = "EXISTS_PLAIN" /\ Unusual \in {{"rows"}, {"full"}, {"full", "mode"}}

\* Bounds: the last change of at most one site has not been carried over, and
\* sites keep their names where only their sections matter.
SmallSites ==
  /\ Cardinality({o \in sites.managed : sites.object[o].loose}) <= 1
  /\ aspect = "sections" => \A o \in sites.managed : sites.object[o].name = IF o = 1 THEN "A" ELSE "B"

ScreensInit ==
  /\ part \in {"ui", "sites", "settings"}
  /\ IF part = "ui" THEN TRUE ELSE data = "EXISTS_PLAIN"
  /\ UiInit
  /\ SmallFrame
  /\ part # "ui" => frame.rows = 24 /\ frame.mode = "STATIC"
  /\ IF part = "sites" THEN TRUE ELSE aspect = "pairs"
  /\ ConfigInit
  /\ IF part = "settings" THEN TRUE ELSE disk = NoFile /\ focus = CHOOSE s \in Setting : TRUE
  /\ SettingsInit

UiStep == part = "ui" /\ UiNext /\ SmallFrame' /\ UNCHANGED <<part, configVars, settingsVars>>
SitesStep == part = "sites" /\ ConfigNext /\ SmallSites' /\ UNCHANGED <<part, uivars, settingsVars>>
SettingsStep == part = "settings" /\ SettingsNext /\ UNCHANGED <<part, uivars, configVars>>
ScreensSpec ==
  ScreensInit /\ [][UiStep \/ SitesStep \/ SettingsStep]_<<part, uivars, configVars, settingsVars>>
=============================================================================
