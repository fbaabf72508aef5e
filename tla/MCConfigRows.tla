---------------------------- MODULE MCConfigRows ----------------------------
(* What an operator writes, one kind per behaviour: the configs, the cluster's *)
(* settings, the console's connection to the daemon, and manifests.           *)
EXTENDS ConfigRows, Connection, ClusterSettings, Manifest, TLC

VARIABLES kind

Samples == INSTANCE MCManifest
SmallManifests   == Samples!SmallManifests
SmallLiterals    == Samples!SmallLiterals
SmallEnvironment == Samples!SmallEnvironment
SmallContent     == Samples!SmallContent

EitherInit ==
  /\ Init /\ SettingsInit /\ ConInit /\ ManifestInit
  /\ kind \in {"configs", "settings", "connection", "manifests"}
  /\ kind = "connection" \/ stored = Blank
ConfigStep     == kind = "configs" /\ Next /\ UNCHANGED <<kind, settingVars, conVars, manifestVars>>
SettingsStep   == kind = "settings" /\ SettingsNext /\ UNCHANGED <<kind, vars, conVars, manifestVars>>
ConnectionStep == kind = "connection" /\ ConNext /\ UNCHANGED <<kind, vars, settingVars, manifestVars>>
ManifestStep   == kind = "manifests" /\ ManifestNext /\ UNCHANGED <<kind, vars, settingVars, conVars>>
EitherNext == ConfigStep \/ SettingsStep \/ ConnectionStep \/ ManifestStep
EitherSpec == EitherInit /\ [][EitherNext]_<<kind, vars, settingVars, conVars, manifestVars>>

RowSymmetry == Permutations(Clients) \union Permutations(Names) \union Permutations(Contents)
=============================================================================
