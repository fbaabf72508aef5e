---------------------------- MODULE Certificates ----------------------------
(***************************************************************************)
(* Uploading and removing the certificates of the cluster's own domain and *)
(* of other hosts (cluster/sitecert.go, hostcerts.go, secrets.go).  The    *)
(* certificate of the cluster's own domain is two files that every run of  *)
(* update makes secrets of; the others are secrets from the start.         *)
(* Commands run side by side and may be cut off at any step.  update is    *)
(* reduced to what it does with certificates: the two secrets, the dynamic *)
(* config of Traefik and the infra stack (Platform has the rest of it).    *)
(***************************************************************************)
EXTENDS Nil, Integers, FiniteSets

CONSTANTS
  Admins,      \* commands that run at a time
  Main,        \* the cluster's own domain
  Hosts,       \* other domains
  Pairs,       \* certificate and key that belong together, for any domain
  MaxUploads,  \* bound on the commands
  MaxMinted    \* bound on the versions of a secret

VARIABLES
  files,      \* "cert" and "key" -> pair the file belongs to
  held,       \* the Swarm secrets
  digests,    \* <<part, base>> -> pair whose hash the settings hold, or NULL
  rows,       \* domain -> row of site_certs, or NULL
  configs,    \* the Docker configs pmcluster_traefik_dynamic
  recorded,   \* what the infra stack was last rendered with, by its rendered_hash
  deployed,   \* what it was last deployed with
  uploads,    \* commands so far
  phase, cmd, \* per command: next step, what it was sent and has made
  settled     \* domains whose last command went through undisturbed

certVars == <<files, held, digests, rows, configs, recorded, deployed, uploads, phase, cmd, settled>>
traefik  == <<configs, recorded, deployed>>
-----------------------------------------------------------------------------
Domains == {Main} \union Hosts
Parts   == {"cert", "key"}
Secrets == [part : Parts, base : Domains, ver : 1 .. MaxMinted, pair : Pairs]
Row     == [cert : Secrets \union {NULL}, key : Secrets \union {NULL}, pair : Pairs]

\* The dynamic config names the secrets of the cluster's own certificate and lists those
\* of the hosts.  The infra stack is rendered with the same two and the config's name.
Entries == [cert : Secrets \union {NULL}, key : Secrets \union {NULL}]
Configs == [ver : Nat \ {0}, cert : Secrets, key : Secrets, lists : SUBSET Entries]

Sent(d, p, refresh, c, k, alone) ==
  [domain |-> d, pair |-> p, refresh |-> refresh, cert |-> c, key |-> k, lists |-> {},
   siteCert |-> NULL, siteKey |-> NULL, config |-> NULL, changed |-> FALSE, alone |-> alone]
NoCmd   == Sent(NULL, NULL, FALSE, NULL, NULL, FALSE)

\* The cluster has one domain of its own, and NULL is no certificate, secret or row.
ASSUME CertConstants ==
  /\ Main \notin Hosts /\ NULL \notin Domains \union Pairs
  /\ MaxMinted \in Nat \ {0} /\ NULL \notin Secrets \union Row

\* hostSecretBase, for hosts it keeps apart; cert and key for the cluster's own.  The
\* faulty variant uses one base for every host.
OneBase(d) == IF d = Main THEN Main ELSE CHOOSE h \in Hosts : TRUE
Base(d)    == d

Busy      == {o \in Admins : phase[o] # "idle"}

\* The services of the infra stack mount the cluster's own certificate and key.
Mounted   == {deployed.cert, deployed.key}

CertInit ==
  /\ \E p \in Pairs :
       LET own(x) == [part |-> x, base |-> Main, ver |-> 1, pair |-> p]
       IN  /\ files = [x \in Parts |-> p]
           /\ held = {own(x) : x \in Parts}
           /\ digests = [k \in Parts \X Domains |-> IF k[2] = Main THEN p ELSE NULL]
           /\ deployed = [ver |-> 1, cert |-> own("cert"), key |-> own("key"), lists |-> {}]
  /\ configs = {deployed} /\ recorded = deployed
  /\ rows = [d \in Domains |-> NULL]
  /\ phase = [o \in Admins |-> "idle"] /\ cmd = [o \in Admins |-> NoCmd]
  /\ settled = {} /\ uploads = 0
-----------------------------------------------------------------------------
ToPhase(o, s) == phase' = [phase EXCEPT ![o] = s]
EndCmd(o)     == ToPhase(o, "idle") /\ cmd' = [cmd EXCEPT ![o] = NoCmd]
Finish(o)     == /\ EndCmd(o)
                 /\ settled' = IF cmd[o].alone THEN settled \union {cmd[o].domain} ELSE settled

\* EnsureVersionedSecret: the newest version if the recorded hash is that of the data,
\* otherwise a new one; docker keeps the older ones that are mounted, and failures to
\* remove the others are ignored.
Versions(x, b) == {s \in held : s.part = x /\ s.base = b}
Newest(x, b)   == CHOOSE s \in Versions(x, b) : \A t \in Versions(x, b) : t.ver <= s.ver
Reused(x, b, p)  == Versions(x, b) # {} /\ digests[<<x, b>>] = p
NextVer(x, b)  == IF Versions(x, b) = {} THEN 1 ELSE 1 + Newest(x, b).ver
Fresh(x, b, p) == [part |-> x, base |-> b, ver |-> NextVer(x, b), pair |-> p]
Minted(x, b, p) == IF Reused(x, b, p) THEN Newest(x, b) ELSE Fresh(x, b, p)

Mint(x, b, p) ==
  IF Reused(x, b, p)
    THEN UNCHANGED <<held, digests>>
    ELSE /\ NextVer(x, b) <= MaxMinted
         /\ \E gone \in SUBSET (Versions(x, b) \ Mounted) : held' = (held \ gone) \union {Fresh(x, b, p)}
         /\ digests' = [digests EXCEPT ![<<x, b>>] = p]

\* What EnsureVersionedSecret relies on: the recorded hash is that of the newest version.
Noted(x, b) == Versions(x, b) # {} => digests[<<x, b>>] = Newest(x, b).pair

\* Nothing is left of an earlier command that was cut off: the hashes are those of the
\* newest secrets, and for the own domain the stored rendering is what is deployed.
Whole(d) == /\ \A x \in Parts : Noted(x, Base(d))
            /\ d = Main => recorded = deployed

\* A command for domain d starts, after ParseAndCheck and Validate.  It disturbs those
\* for the same domain, and those for the cluster's own, which every update touches.
BeginCmd(o, s, d, p, refresh, c, k) ==
  /\ phase[o] = "idle" /\ uploads < MaxUploads /\ uploads' = uploads + 1
  /\ ToPhase(o, s)
  /\ cmd' = [e \in Admins |->
        IF e = o THEN Sent(d, p, refresh, c, k,
                           Whole(d) /\ \A b \in Busy : d # Main /\ cmd[b].domain # d)
        ELSE [cmd[e] EXCEPT !.alone = @ /\ cmd[e].domain \notin {d, Main}]]
  /\ settled' = settled \ {d}
  /\ UNCHANGED <<files, held, digests, rows, traefik>>

\* ApplyCert, through SiteCert, which always refreshes, or ApplyHostCert.
StartApply(o, d, p, refresh) ==
  BeginCmd(o, IF d = Main THEN "keyFile" ELSE "hostCert", d, p, refresh, NULL, NULL)

\* RemoveCert refuses the cluster's own domain and a host without a row, and deletes
\* the row with its own statement.
StartRemoval(o, d, refresh) ==
  /\ d # Main /\ rows[d] # NULL
  /\ BeginCmd(o, "deleteRow", d, NULL, refresh, rows[d].cert, rows[d].key)

\* writeSiteCertFile, the key first; each file is replaced at once.
WriteFile(o) ==
  /\ \/ /\ phase[o] = "keyFile" /\ ToPhase(o, "certFile")
        /\ files' = [files EXCEPT !["key"] = cmd[o].pair]
     \/ /\ phase[o] = "certFile" /\ ToPhase(o, IF cmd[o].refresh THEN "load" ELSE "putRow")
        /\ files' = [files EXCEPT !["cert"] = cmd[o].pair]
  /\ UNCHANGED <<uploads, held, digests, rows, traefik, cmd, settled>>

MintHost(o) ==
  LET d == cmd[o].domain
  IN  /\ \/ /\ phase[o] = "hostCert" /\ ToPhase(o, "hostKey")
            /\ Mint("cert", Base(d), cmd[o].pair)
            /\ cmd' = [cmd EXCEPT ![o].cert = Minted("cert", Base(d), cmd[o].pair)]
         \/ /\ phase[o] = "hostKey" /\ ToPhase(o, IF cmd[o].refresh THEN "load" ELSE "putRow")
            /\ Mint("key", Base(d), cmd[o].pair)
            /\ cmd' = [cmd EXCEPT ![o].key = Minted("key", Base(d), cmd[o].pair)]
      /\ UNCHANGED <<uploads, files, rows, traefik, settled>>

\* DeleteSiteCert, then SecretRemove of both, whose errors are ignored.
DeleteRow(o) ==
  /\ phase[o] = "deleteRow" /\ ToPhase(o, "dropSecrets")
  /\ rows' = [rows EXCEPT ![cmd[o].domain] = NULL]
  /\ UNCHANGED <<uploads, files, held, digests, traefik, cmd, settled>>

DropSecrets(o) ==
  /\ phase[o] = "dropSecrets"
  /\ \E gone \in SUBSET ({cmd[o].cert, cmd[o].key} \ Mounted) : held' = held \ gone
  /\ IF cmd[o].refresh THEN ToPhase(o, "load") /\ UNCHANGED <<cmd, settled>>
                       ELSE Finish(o)
  /\ UNCHANGED <<uploads, files, digests, rows, traefik>>

\* update: the rows of the other hosts are read first (loadHostCertEntries), then the
\* cluster's own certificate is made two secrets of the files.
LoadRows(o) ==
  /\ phase[o] = "load" /\ ToPhase(o, "siteCert")
  /\ cmd' = [cmd EXCEPT ![o].lists =
       {[cert |-> rows[h].cert, key |-> rows[h].key] : h \in {g \in Hosts : rows[g] # NULL}}]
  /\ UNCHANGED <<uploads, files, held, digests, rows, traefik, settled>>

MintSite(o) ==
  /\ \/ /\ phase[o] = "siteCert" /\ ToPhase(o, "siteKey")
        /\ Mint("cert", Main, files["cert"])
        /\ cmd' = [cmd EXCEPT ![o].siteCert = Minted("cert", Main, files["cert"])]
     \/ /\ phase[o] = "siteKey" /\ ToPhase(o, "render")
        /\ Mint("key", Main, files["key"])
        /\ cmd' = [cmd EXCEPT ![o].siteKey = Minted("key", Main, files["key"])]
  /\ UNCHANGED <<uploads, files, rows, traefik, settled>>

\* EnsureConfig: the newest dynamic config if it has this content, otherwise the next,
\* and docker keeps of the older ones what is deployed.
NewestConfig  == CHOOSE c \in configs : \A e \in configs : e.ver <= c.ver
Body(o, n)    == [ver |-> n, cert |-> cmd[o].siteCert, key |-> cmd[o].siteKey, lists |-> cmd[o].lists]
Rendering(o)  == IF NewestConfig = Body(o, NewestConfig.ver) THEN NewestConfig
                                                             ELSE Body(o, NewestConfig.ver + 1)
RenderConfig(o) ==
  /\ phase[o] = "render" /\ ToPhase(o, "compare")
  /\ cmd' = [cmd EXCEPT ![o].config = Rendering(o)]
  /\ configs' = IF Rendering(o) = NewestConfig THEN configs
                ELSE (configs \intersect {deployed}) \union {Rendering(o)}
  /\ UNCHANGED <<uploads, files, held, digests, rows, recorded, deployed, settled>>

\* Is the infra stack rendered otherwise than by the stored hash?  The faulty variant
\* looks at what the dynamic config lists only.
OtherList(o) == recorded.lists # cmd[o].config.lists
Changed(o)   == recorded # cmd[o].config

CompareHash(o) ==
  /\ phase[o] = "compare" /\ ToPhase(o, "record")
  /\ cmd' = [cmd EXCEPT ![o].changed = Changed(o)]
  /\ UNCHANGED <<uploads, files, held, digests, rows, traefik, settled>>

\* update is over: a removal with it, an upload has its row to write.
Updated(o) == IF cmd[o].pair = NULL THEN Finish(o)
                                    ELSE ToPhase(o, "putRow") /\ UNCHANGED <<cmd, settled>>

\* SetRendered, in any case and before the stack is deployed.
SetRendered(o) ==
  /\ phase[o] = "record"
  /\ recorded' = cmd[o].config
  /\ IF cmd[o].changed THEN ToPhase(o, "deploy") /\ UNCHANGED <<cmd, settled>> ELSE Updated(o)
  /\ UNCHANGED <<uploads, files, held, digests, rows, configs, deployed>>

\* Docker refuses a stack that names a secret or a config it does not have: cut off.
DeployTraefik(o) ==
  /\ phase[o] = "deploy"
  /\ {cmd[o].siteCert, cmd[o].siteKey} \subseteq held /\ cmd[o].config \in configs
  /\ deployed' = cmd[o].config
  /\ Updated(o)
  /\ UNCHANGED <<uploads, files, held, digests, rows, configs, recorded>>

\* The names a row records.  The faulty variant records the version that was mounted
\* when the command started.
StaleNames(o) ==
  LET old(x) == CHOOSE s \in Mounted \union held : s.part = x /\ s.base = Base(cmd[o].domain)
                  /\ \A t \in held : t.part = x /\ t.base = s.base => s.ver <= t.ver
  IN  [cert |-> old("cert"), key |-> old("key"), pair |-> cmd[o].pair]
Named(o) ==
  IF cmd[o].domain = Main
    THEN [cert |-> cmd[o].siteCert, key |-> cmd[o].siteKey, pair |-> cmd[o].pair]
    ELSE [cert |-> cmd[o].cert, key |-> cmd[o].key, pair |-> cmd[o].pair]

\* PutSiteCert, last of all.
PutRow(o) ==
  LET d == cmd[o].domain
  IN  /\ phase[o] = "putRow"
      /\ rows' = [rows EXCEPT ![d] = Named(o)]
      /\ Finish(o)
      /\ UNCHANGED <<uploads, files, held, digests, traefik>>

\* A command fails or is killed between two steps, or, with a secret created whose
\* hash is not recorded, within EnsureVersionedSecret.
CutOff(o) ==
  /\ phase[o] # "idle"
  /\ EndCmd(o)
  /\ UNCHANGED <<uploads, files, held, digests, rows, traefik, settled>>

Orphan(o, x, b, p) ==
  /\ ~Reused(x, b, p) /\ NextVer(x, b) <= MaxMinted
  /\ held' = held \union {Fresh(x, b, p)}
  /\ EndCmd(o)
  /\ UNCHANGED <<uploads, files, digests, rows, traefik, settled>>

CutInMint(o) ==
  \/ phase[o] = "hostCert" /\ Orphan(o, "cert", Base(cmd[o].domain), cmd[o].pair)
  \/ phase[o] = "hostKey"  /\ Orphan(o, "key", Base(cmd[o].domain), cmd[o].pair)
  \/ phase[o] = "siteCert" /\ Orphan(o, "cert", Main, files["cert"])
  \/ phase[o] = "siteKey"  /\ Orphan(o, "key", Main, files["key"])
-----------------------------------------------------------------------------
CertNext ==
  \E o \in Admins :
    \/ \E d \in Domains, p \in Pairs, refresh \in BOOLEAN : StartApply(o, d, p, refresh)
    \/ \E d \in Domains, refresh \in BOOLEAN : StartRemoval(o, d, refresh)
    \/ WriteFile(o) \/ MintHost(o) \/ DeleteRow(o) \/ DropSecrets(o)
    \/ LoadRows(o) \/ MintSite(o) \/ RenderConfig(o) \/ CompareHash(o) \/ SetRendered(o)
    \/ DeployTraefik(o) \/ PutRow(o) \/ CutOff(o) \/ CutInMint(o)

CertSpec == CertInit /\ [][CertNext]_certVars
-----------------------------------------------------------------------------
\* Whatever commands for other hosts ran beside it or were cut off, the row of a host
\* whose own last command went through names secrets that exist and hold the uploaded
\* certificate and key (hostcerts.go: "The base name MUST differ per host"; secrets.go: a
\* version that "already holds exactly these bytes" is reused).  That command must have
\* found the stored hashes to be those of the newest secrets.
RowsHoldTheirPair ==
  \A d \in Hosts \intersect settled : rows[d] # NULL =>
    /\ {rows[d].cert, rows[d].key} \subseteq held
    /\ rows[d].cert.pair = rows[d].pair /\ rows[d].key.pair = rows[d].pair

\* After a refreshing upload for the cluster's own domain that no other command
\* overlapped, and that found nothing left behind by one that was cut off, Traefik mounts
\* that certificate with the key that belongs to it, and goes on doing so whatever
\* commands for hosts come later, overlap and are cut off (ApplyCert, update).
OwnPairServed ==
  Main \in settled /\ rows[Main] # NULL /\ rows[Main].cert # NULL =>
    /\ {rows[Main].cert, rows[Main].key} \subseteq Mounted
    /\ rows[Main].cert.pair = rows[Main].pair /\ rows[Main].key.pair = rows[Main].pair

\* "Adding or removing one re-renders the Traefik dynamic config and re-deploys the infra
\* stack so it takes effect immediately" (README.md:576): when an upload for a host that
\* refreshes has gone through undisturbed, Traefik runs with a config that lists the
\* secrets of the new row, and can read them.
AddedTakesEffect ==
  [][\A o \in Admins :
       LET d == cmd[o].domain
       IN  phase[o] = "putRow" /\ cmd[o].refresh /\ d \in Hosts /\ d \in settled' =>
             /\ [cert |-> rows'[d].cert, key |-> rows'[d].key] \in deployed'.lists
             /\ {rows'[d].cert, rows'[d].key} \subseteq Mounted']_certVars
=============================================================================
