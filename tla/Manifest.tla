------------------------------ MODULE Manifest ------------------------------
(***************************************************************************)
(* The way of a manifest to the Compose file that is deployed              *)
(* (internal/manifest): Parse, Interpolate, Validate, BuildIR, the writer. *)
(* A text is a sequence of atoms, literals and placeholders, and none      *)
(* comes about out of pieces; a name is a sequence of the words its dashes *)
(* separate.  A service has one entry of each list: one word of its        *)
(* command or entrypoint, one value of its environment, one alias and the  *)
(* source of one volume.  An app has one free text besides the             *)
(* environment's name, the domain, where the code has version and registry *)
(* too.  Fields that are copied, wording and layout are left out.          *)
(***************************************************************************)
EXTENDS Nil, Integers, FiniteSets, Sequences, SequencesExt

CONSTANTS Manifests,      \* what operators deploy
          Literals,       \* what their texts hold beside placeholders
          Environment,    \* ${env:VAR} -> its value, for the VARs the daemon's environment sets
          ConfigContent,  \* config -> content, or Lines, where there is a row
          Lines           \* a content of several lines

VARIABLES stage,     \* of the manifest under way
          written,   \* as it was written
          app,       \* as it is now
          ir,        \* the intermediate form
          stacks     \* app -> the file that is deployed, or NULL

manifestVars == <<stage, written, app, ir, stacks>>

Builtins    == {"${app}", "${env}", "${domain}"}
Variables   == {"${env:SET}", "${env:UNSET}"}
Placeholder == Builtins \union Variables
Texts       == Seq(Literals \union Placeholder)
ServiceType == [image : Texts, command : Texts, env : Texts, mounts : SUBSET Texts, volume : Texts,
                port : Int \union {NULL}, host : Texts, alias : Texts, replicas : Int \union {NULL},
                runOnce : BOOLEAN]
ManifestType(m) ==
  /\ m = [name |-> m.name, env |-> m.env, domain |-> m.domain, secret |-> m.secret,
          services |-> m.services, unknownKey |-> m.unknownKey]
  /\ {m.name, m.env, m.domain, m.secret} \subseteq Texts
  /\ m.services \in [DOMAIN m.services -> ServiceType]

\* The path under which a container finds a secret is an atom of its own where the
\* translation has written it.
ASSUME ManifestConstants ==
  /\ \A m \in Manifests : ManifestType(m)
  /\ Environment \in [DOMAIN Environment -> Texts] /\ DOMAIN Environment \subseteq Variables
  /\ \A x \in DOMAIN ConfigContent : ConfigContent[x] # Lines => ConfigContent[x] \in Texts
  /\ "/run/secrets" \notin Literals

AppNames == {m.name : m \in Manifests}

ManifestInit == /\ stage = "none" /\ written = NULL /\ app = NULL /\ ir = NULL
                /\ stacks = [a \in AppNames |-> NULL]

ToStage(s) == stage' = s
Drop    == stage' = "none" /\ written' = NULL /\ app' = NULL /\ ir' = NULL
Reject  == Drop /\ UNCHANGED stacks
-----------------------------------------------------------------------------
\* Parse is strict: an unknown key is an error.
Parse ==
  /\ stage = "none"
  /\ \E m \in Manifests :
       IF m.unknownKey THEN UNCHANGED manifestVars
       ELSE ToStage("parsed") /\ written' = m /\ app' = m /\ UNCHANGED <<ir, stacks>>

\* substitute: one ReplaceAll for each built-in, in the order of a Go map, over what
\* the ones before have left; then the values of the environment, NULL where one is not set.
Replace(t, p, v) == FlattenSeq([i \in DOMAIN t |-> IF t[i] = p THEN v ELSE <<t[i]>>])
Orders  == {o \in [1 .. 3 -> Builtins] : \A i, j \in 1 .. 3 : o[i] = o[j] => i = j}
Value(m, p)  == CASE p = "${app}" -> m.name [] p = "${env}" -> m.env [] p = "${domain}" -> m.domain
Put(m, t, p) == Replace(t, p, Value(m, p))
Substituted(m, t) == {Put(m, Put(m, Put(m, t, o[1]), o[2]), o[3]) : o \in Orders}
Has(t, atoms) == \E i \in DOMAIN t : t[i] \in atoms
Getenv(t) ==
  IF Has(t, Variables \ DOMAIN Environment) THEN NULL
  ELSE FlattenSeq([i \in DOMAIN t |-> IF t[i] \in DOMAIN Environment THEN Environment[t[i]] ELSE <<t[i]>>])
Outcomes(m, t) == {Getenv(s) : s \in Substituted(m, t)}

\* interpolateService: image, command, environment, volume, exposed host and alias, and not
\* the secrets the service mounts.  The faulty variant passes over the environment.
ServiceButEnv(m, s) ==
  {[s EXCEPT !.image = t.image, !.command = t.command, !.volume = t.volume, !.host = t.host, !.alias = t.alias] :
     t \in [image : Outcomes(m, s.image), command : Outcomes(m, s.command), volume : Outcomes(m, s.volume),
            host : Outcomes(m, s.host), alias : Outcomes(m, s.alias)]}
InterpolateService(m, s) ==
  {[s EXCEPT !.image = t.image, !.command = t.command, !.env = t.env, !.volume = t.volume,
             !.host = t.host, !.alias = t.alias] :
     t \in [image : Outcomes(m, s.image), command : Outcomes(m, s.command), env : Outcomes(m, s.env),
            volume : Outcomes(m, s.volume), host : Outcomes(m, s.host), alias : Outcomes(m, s.alias)]}

\* Every value is taken from the fields as they were before the first of them changed.
InterpolatedServices(m) ==
  {f \in [DOMAIN m.services -> UNION {InterpolateService(m, m.services[n]) : n \in DOMAIN m.services}] :
     \A n \in DOMAIN m.services : f[n] \in InterpolateService(m, m.services[n])}
Interpolated(m) ==
  {[m EXCEPT !.domain = t.domain, !.secret = t.secret, !.services = t.services] :
     t \in [domain : Outcomes(m, m.domain), secret : Outcomes(m, m.secret), services : InterpolatedServices(m)]}
ServiceTexts(s) == {s.image, s.command, s.env, s.volume, s.host, s.alias}
Unresolved(m)   == NULL \in {m.domain, m.secret} \union UNION {ServiceTexts(m.services[n]) : n \in DOMAIN m.services}
Interpolate ==
  /\ stage = "parsed"
  /\ \E m \in Interpolated(app) :
       \/ Unresolved(m) /\ Reject
       \/ ~Unresolved(m) /\ ToStage("interpolated") /\ app' = m /\ UNCHANGED <<written, ir, stacks>>
-----------------------------------------------------------------------------
\* ParseEnvRef, MalformedEnvRef: what a value of the environment has become once all is put
\* in.  "secrets()" and "config()" stand around the name that follows them, which holds no
\* closing bracket; "secrets(" is one that is not closed.
References == {"secrets()", "config()"}
Refers(t, r) == t # <<>> /\ Head(t) = r /\ Tail(t) # <<>> /\ ~Has(Tail(t), References)
Malformed(t) == /\ t # <<>> /\ Head(t) \in References \union {"secrets("}
                /\ \A r \in References : ~Refers(t, r)

\* validateService.
Ports == 1 .. 65535
EnvIsMounted(s) == Refers(s.env, "secrets()") => Tail(s.env) \in s.mounts

Valid(s) ==
  /\ s.image # <<>> /\ ~Malformed(s.env) /\ EnvIsMounted(s)
  /\ s.replicas # NULL => s.replicas >= 0 /\ ~s.runOnce
  /\ s.port # NULL => /\ s.port \in Ports /\ s.host # <<>>
                      /\ ~Has(s.host \o s.alias, Placeholder)   \* no host name

\* nameRe admits no placeholder.
IsName(n) == n # <<>> /\ ~Has(n, Placeholder)
Validate ==
  /\ stage = "interpolated"
  /\ LET valid == /\ IsName(app.name) /\ app.env # <<>> /\ app.domain # <<>> /\ DOMAIN app.services # {}
                  /\ \A n \in DOMAIN app.services : IsName(n) /\ Valid(app.services[n])
     IN  \/ valid /\ ToStage("valid") /\ UNCHANGED <<written, app, ir, stacks>>
         \/ ~valid /\ Reject

\* resolveServiceEnv: secrets(x) is the path of its mount, config(x) the content of the
\* row, which has to be there and to be one line.
Path(x)  == <<"/run/secrets">> \o x
Resolves(s) ==
  Refers(s.env, "config()") => Tail(s.env) \in DOMAIN ConfigContent /\ ConfigContent[Tail(s.env)] # Lines
Resolved(s) == CASE Refers(s.env, "secrets()") -> Path(Tail(s.env))
                 [] Refers(s.env, "config()")  -> ConfigContent[Tail(s.env)]
                 [] OTHER                      -> s.env

\* A volume that starts with a slash is a directory of the host.
IsHost(v)  == v # <<>> /\ Head(v) = "/"
IsNamed(v) == v # <<>> /\ Head(v) # "/"

\* What BuildIR makes of a service: a replica where the manifest says nothing.
IRService(s) ==
  [image |-> s.image, command |-> s.command, env |-> Resolved(s), mounts |-> s.mounts, volume |-> s.volume,
   port |-> s.port, host |-> s.host, alias |-> s.alias, runOnce |-> s.runOnce,
   replicas |-> IF s.replicas = NULL THEN 1 ELSE s.replicas]

\* The secrets of the file: those of the services and those of the app.  The faulty
\* variant takes what the app lists.
ListedSecrets(m)   == {m.secret} \ {<<>>}
DeclaredSecrets(m) == ({m.secret} \ {<<>>}) \union UNION {m.services[n].mounts : n \in DOMAIN m.services}

BuildIR ==
  /\ stage = "valid"
  /\ \/ /\ \A n \in DOMAIN app.services : Resolves(app.services[n])
        /\ ToStage("built")
        /\ ir' = [name |-> app.name, secrets |-> DeclaredSecrets(app),
                  volumes |-> {app.services[n].volume : n \in {k \in DOMAIN app.services :
                                                                 IsNamed(app.services[k].volume)}},
                  services |-> [n \in DOMAIN app.services |-> IRService(app.services[n])]]
        /\ UNCHANGED <<written, app, stacks>>
     \/ (\E n \in DOMAIN app.services : ~Resolves(app.services[n])) /\ Reject

\* ComposeWriter.Write: the directory of a volume is its name, or the last part of its
\* path, under <root>/<app>; an app's routers are named after app and service.
Directory(a, v) == <<a, IF IsHost(v) THEN Tail(v) ELSE v>>
Routers(a, n, s) ==
  IF s.port = NULL THEN {} ELSE {a \o n} \union (IF s.alias = <<>> THEN {} ELSE {a \o n \o <<"alias0">>})
Replicas(s) == IF s.runOnce THEN NULL ELSE IF s.replicas = 0 THEN 1 ELSE s.replicas
ComposeService(a, n, s) ==
  [image |-> s.image, command |-> s.command, env |-> s.env, mounts |-> s.mounts, hosts |-> {s.host, s.alias} \ {<<>>},
   dir |-> Directory(a, s.volume), routers |-> Routers(a, n, s),
   nets |-> {"private"} \union (IF s.port = NULL THEN {} ELSE {"traefik-net", "monitoring-net"}),
   replicas |-> Replicas(s)]

\* Nothing that is put in for a placeholder holds one that is not put in after it.
Flat(m) == /\ ~Has(m.domain \o m.env, Builtins)
           /\ \A v \in DOMAIN Environment : ~Has(Environment[v], Placeholder)

WriteCompose ==
  /\ stage = "built"
  /\ stacks' = [stacks EXCEPT ![ir.name] =
       [secrets |-> ir.secrets, volumes |-> ir.volumes, flat |-> Flat(written),
        services |-> [n \in DOMAIN ir.services |-> ComposeService(ir.name, n, ir.services[n])]]]
  /\ Drop

ManifestNext == Parse \/ Interpolate \/ Validate \/ BuildIR \/ WriteCompose
ManifestSpec == ManifestInit /\ [][ManifestNext]_manifestVars
-----------------------------------------------------------------------------
Deployed == {a \in AppNames : stacks[a] # NULL}

\* A value that names a secret's file is of a service that mounts the secret, and every
\* secret a service mounts is declared by its file (validateService, resolveServiceEnv,
\* BuildIR): a container finds the file its environment points at.
MountedIsDeclared ==
  \A a \in Deployed : \A n \in DOMAIN stacks[a].services :
    LET s == stacks[a].services[n] IN
    /\ s.mounts \subseteq stacks[a].secrets
    /\ s.env # <<>> /\ Head(s.env) = "/run/secrets" => Tail(s.env) \in s.mounts

\* Where the environment's name and the domain hold no built-in placeholder and the
\* variables hold none, none of either kind is left in an image, a command, a volume, a
\* value of the environment or a host that is deployed (Interpolate); what a config holds
\* is taken as it is.  The secrets a service mounts and the tests of its health check are
\* not gone through: theirs are deployed.
NothingUnresolved ==
  \A a \in Deployed : stacks[a].flat =>
    \A n \in DOMAIN stacks[a].services :
      LET s == stacks[a].services[n] IN
      /\ \A t \in {s.image, s.command, s.dir[2]} \union s.hosts : ~Has(t, Placeholder)
      /\ Has(s.env, Placeholder) => \E x \in DOMAIN ConfigContent : s.env = ConfigContent[x]

\* The files a container is pointed at are declared and mounted, and no placeholder is left
\* in the fields that are gone through (manifest.TranslateIR).
RenderingIsClosed == MountedIsDeclared /\ NothingUnresolved
=============================================================================
