----------------------------- MODULE Connection -----------------------------
(***************************************************************************)
(* The console's connection to the daemon: one client (internal/ui/pmapi)  *)
(* that every request of the console shares, whose address and token each  *)
(* page sets anew from the stored settings before it calls (loadParams),   *)
(* and the settings page that stores and sets them (Settings.Save).  The   *)
(* client guards its two fields with a lock of their own each time, so     *)
(* that a call reads one and then the other.                               *)
(***************************************************************************)
EXTENDS Integers

CONSTANTS Requests,  \* requests of the console
          Given,     \* addresses, and tokens, an operator may store
          Env        \* the address, and the token, of the environment

VARIABLES
  stored,  \* the console's table settings: field -> value, or "" where it was cleared
  client,  \* what the client holds
  page,    \* per request: next step
  got,     \* per request: the pair it has read
  due      \* field -> what a page may use: the value stored when the console was last idle,
           \* those saves were told since and, since a read of the table failed, Env's

conVars == <<stored, client, page, got, due>>
Fields == {"base", "token"}
Pairs  == [Fields -> Given \union {Env, ""}]
Blank  == [f \in Fields |-> ""]
-----------------------------------------------------------------------------
\* The token pmcluster provisions is stored once, SeedSettingOnce: it is Env's.
ConInit ==
  /\ stored \in {Blank, [Blank EXCEPT !["token"] = Env]}
  /\ client = [f \in Fields |-> Env] /\ due = [f \in Fields |-> {Env}]
  /\ page = [r \in Requests |-> "idle"] /\ got = [r \in Requests |-> Blank]

Waiting(r)   == page[r] = "idle"
Goto(r, s)    == page' = [page EXCEPT ![r] = s]
OthersWait(r) == \A q \in Requests \ {r} : Waiting(q)

\* What a field that holds v stands for: one that is empty falls back to the environment.
InForce(v) == IF v = "" THEN Env ELSE v

\* Nobody else is served: what the next page uses is what is stored by now.
Anew(r) ==
  due' = IF OthersWait(r) THEN [f \in Fields |-> {InForce(stored[f])}] ELSE due

\* A page begins; the webhooks page goes on with the client as it is.
Begin(r) ==
  /\ Waiting(r) /\ \E s \in {"load", "call"} : Goto(r, s)
  /\ Anew(r)
  /\ UNCHANGED <<stored, client, got>>

\* loadParams: the overrides that are stored, or, when the table cannot be read, the
\* environment alone, without a word.
Load(r) ==
  /\ page[r] = "load" /\ Goto(r, "set base")
  /\ \/ /\ got' = [got EXCEPT ![r] = [f \in Fields |-> InForce(stored[f])]]
        /\ UNCHANGED due
     \/ /\ got' = [got EXCEPT ![r] = [f \in Fields |-> Env]]
        /\ due' = [f \in Fields |-> due[f] \union {Env}]
  /\ UNCHANGED <<stored, client>>

SetField(r, f, s, t) ==
  /\ page[r] = s /\ Goto(r, t)
  /\ client' = [client EXCEPT ![f] = got[r][f]]
  /\ UNCHANGED <<stored, got, due>>

SetBase(r)  == SetField(r, "base", "set base", "set token")
\* The faulty variant keeps the token that is there.
KeepToken(r) == page[r] = "set token" /\ Goto(r, "loaded") /\ UNCHANGED <<stored, client, got, due>>
SetToken(r) == SetField(r, "token", "set token", "loaded")

\* Client.do: the address and then the token of the call.
CallBase(r) ==
  /\ page[r] \in {"loaded", "call"}
  /\ Goto(r, IF page[r] = "loaded" THEN "loaded base" ELSE "call base")
  /\ got' = [got EXCEPT ![r] = [Blank EXCEPT !["base"] = client["base"]]]
  /\ UNCHANGED <<stored, client, due>>

CallToken(r) ==
  /\ page[r] \in {"loaded base", "call base"}
  /\ Goto(r, IF page[r] = "loaded base" THEN "loaded call" ELSE "bare call")
  /\ got' = [got EXCEPT ![r]["token"] = client["token"]]
  /\ UNCHANGED <<stored, client, due>>

Return(r) ==
  /\ page[r] \in {"loaded call", "bare call"}
  /\ Goto(r, "idle")
  /\ got' = [got EXCEPT ![r] = Blank]
  /\ UNCHANGED <<stored, client, due>>

\* Settings.Save: the address is stored, then set, then the token, unless it was left
\* as it is, and each is set even when it could not be stored; the page that answers loads
\* and calls like any other.
Save(r) ==
  /\ Waiting(r) /\ Goto(r, "save base")
  /\ \E v \in Given \union {""} : got' = [got EXCEPT ![r] = [Blank EXCEPT !["base"] = v]]
  /\ Anew(r)
  /\ UNCHANGED <<stored, client>>

Store(r, f, s, t) ==
  /\ page[r] = s /\ Goto(r, t)
  /\ stored' \in {stored, [stored EXCEPT ![f] = got[r][f]]}
  /\ due' = [due EXCEPT ![f] = @ \union {InForce(got[r][f])}]
  /\ UNCHANGED <<client, got>>

Use(r, f, s) ==
  /\ page[r] = s
  /\ client' = [client EXCEPT ![f] = InForce(got[r][f])]
  /\ UNCHANGED <<stored, due>>

SaveBase(r)  == Store(r, "base", "save base", "use base")
SaveToken(r) == Store(r, "token", "save token", "use token")

UseBase(r) ==
  /\ Use(r, "base", "use base")
  /\ \/ \E v \in Given \union {""} :
          got' = [got EXCEPT ![r] = [Blank EXCEPT !["token"] = v]] /\ Goto(r, "save token")
     \/ got' = [got EXCEPT ![r] = Blank] /\ Goto(r, "load")

UseToken(r) == Use(r, "token", "use token") /\ UNCHANGED got /\ Goto(r, "load")

ConNext == \E r \in Requests :
  \/ Begin(r) \/ Load(r) \/ SetBase(r) \/ SetToken(r) \/ CallBase(r) \/ CallToken(r) \/ Return(r)
  \/ Save(r) \/ SaveBase(r) \/ UseBase(r) \/ SaveToken(r) \/ UseToken(r)

ConSpec == ConInit /\ [][ConNext]_conVars
-----------------------------------------------------------------------------
\* A page calls with an address and a token that were stored when the console was last
\* idle, or that a save was told to use since, be it stored or not, or with the environment's
\* after a failed read; so that without either it is the pair that is stored.  What earlier
\* pages and saves left in the shared client does not outlive the next load (loadParams,
\* Settings.Save), however the steps of others fall between its own.
SavedIsUsed ==
  \A r \in Requests : page[r] = "loaded call" => \A f \in Fields : got[r][f] \in due[f]
=============================================================================
