------------------------------ MODULE MCHosts ------------------------------
(* What runs around the stacks, one kind per behaviour: the edge in front of *)
(* the daemon, the certificates of the hosts, the services themselves, and   *)
(* the versioned artifacts they mount: a secret, or a Docker config, any run *)
(* of which may die or fail.                                                 *)
EXTENDS VersionedArtifact, EdgeShield, Workloads, Certificates, TLC

\* The stack with the longer name has one service, and the other a service of the same
\* full name.
CONSTANTS Stack, Longer, Shared

VARIABLE kind

Config == INSTANCE VersionedArtifact WITH HashInStore <- FALSE

NamesOf == Stack :> Names @@ Longer :> {Shared}

hostVars == <<kind, vars, shieldVars, certVars, workVars>>

\* A cluster without certificates.
NoTls ==
  /\ files = NULL /\ held = {} /\ digests = NULL /\ rows = [d \in Domains |-> NULL]
  /\ configs = {} /\ recorded = NULL /\ deployed = NULL /\ uploads = 0 /\ settled = {}
  /\ phase = [o \in Admins |-> "idle"] /\ cmd = [o \in Admins |-> NoCmd]

HostsInit ==
  /\ kind \in {"edge", "tls", "run", "secret", "config"}
  /\ Init /\ ShieldInit /\ WorkInit
  /\ IF kind = "tls" THEN CertInit ELSE NoTls
EdgeStep   == kind = "edge" /\ ShieldNext /\ UNCHANGED <<kind, vars, certVars, workVars>>
TlsStep    == kind = "tls" /\ CertNext /\ UNCHANGED <<kind, vars, shieldVars, workVars>>
RunStep    == kind = "run" /\ WorkNext /\ UNCHANGED <<kind, vars, shieldVars, certVars>>
SecretStep == kind = "secret" /\ Next /\ UNCHANGED <<kind, shieldVars, certVars, workVars>>
ConfigStep == kind = "config" /\ Config!Next /\ UNCHANGED <<kind, shieldVars, certVars, workVars>>
HostsNext == EdgeStep \/ TlsStep \/ RunStep \/ SecretStep \/ ConfigStep
HostsSpec == HostsInit /\ [][HostsNext]_hostVars

HostsSymmetry == Permutations(Admins) \union Permutations(Hosts) \union Permutations(Contents)
=============================================================================
