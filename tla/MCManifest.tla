----------------------------- MODULE MCManifest -----------------------------
(* Manifests of two apps: one that varies field by field, one with routers.   *)
EXTENDS Integers, Sequences, TLC

CONSTANTS Lines, NULL

Service == [image |-> <<"${app}">>, command |-> <<>>, env |-> <<"x">>, mounts |-> {}, volume |-> <<>>,
            port |-> NULL, host |-> <<>>, alias |-> <<>>, replicas |-> NULL, runOnce |-> FALSE]

Envs == {<<"${domain}">>, <<"${env:SET}">>, <<"${env:UNSET}">>, <<"secrets()", "s">>,
         <<"secrets()", "${app}", "s">>, <<"config()", "c">>, <<"config()", "lines">>,
         <<"config()", "gone">>, <<"config()">>, <<"secrets(">>, <<"config()", "${env:SET}">>}
Mounts == {{}, {<<"s">>}, {<<"${app}", "s">>}}
Exposed(port, h, a) == [Service EXCEPT !.port = port, !.host = h, !.alias = a]

Services ==
  {[Service EXCEPT !.env = e, !.mounts = m] : e \in Envs, m \in Mounts}
    \union {Exposed(p, <<"${domain}">>, a) : p \in {0, 80}, a \in {<<>>, <<"other">>}}
    \union {[Service EXCEPT !.replicas = n, !.runOnce = o] : n \in {NULL, -1, 0, 2}, o \in BOOLEAN}
    \union {[Service EXCEPT !.volume = v] :
              v \in {<<"d">>, <<"/", "d">>, <<"${app}", "d">>, <<"${env:UNSET}">>}}
    \union {[Service EXCEPT !.command = t] : t \in {<<"x", "${env}">>, <<"${env:SET}">>, <<"${env:UNSET}">>}}
    \union {[Service EXCEPT !.image = <<>>], Exposed(80, <<>>, <<>>)}

App(n, d, x, sv) == [name |-> n, env |-> <<"prod">>, domain |-> d, secret |-> x, services |-> sv,
                     unknownKey |-> FALSE]
First == {App(<<"a">>, d, x, <<"b", "c">> :> s) :
            d \in {<<"d">>, <<"${env}", "d">>}, x \in {<<>>, <<"${app}", "s">>}, s \in Services}
Pairs == {App(<<"a">>, <<"d">>, <<>>, (<<"b">> :> s) @@ (<<"c">> :> t)) :
            s, t \in {[Service EXCEPT !.mounts = m] : m \in Mounts}}
Odd   == {App(<<"a">>, <<>>, <<>>, <<"b">> :> Service), App(<<"${env}">>, <<"d">>, <<>>, <<"b">> :> Service),
          App(<<"a">>, <<"d">>, <<>>, <<"${app}">> :> Service),
          App(<<"a">>, <<"${env:UNSET}">>, <<>>, <<"b">> :> Service),
          [App(<<"a">>, <<"${app}">>, <<>>, <<"b">> :> Exposed(80, <<"${domain}">>, <<>>)) EXCEPT
             !.env = <<"${domain}">>]} \union
         {[App(<<"a">>, <<"d">>, <<>>, <<>>) EXCEPT !.unknownKey = k] : k \in BOOLEAN}
Second == {App(<<"a", "b">>, <<"d">>, <<>>, <<"c">> :> Exposed(80, h, <<>>)) : h \in {<<"d">>, <<"e">>}}

SmallLiterals  == {"a", "b", "c", "d", "e", "s", "v", "x", "other", "prod", "lines", "gone", "/",
                   "secrets()", "config()", "secrets("}
SmallEnvironment == "${env:SET}" :> <<"secrets()", "s">>
SmallManifests == First \union Pairs \union Odd \union Second
SmallContent   == (<<"c">> :> <<"v">>) @@ (<<"lines">> :> Lines)
=============================================================================
