-------------------------- MODULE ClusterSettings --------------------------
(***************************************************************************)
(* The settings of the cluster (table cluster_settings): the admin page of *)
(* the console, which shows every value but a secret and posts its whole   *)
(* form back, `cluster settings set`, and the set-up wizard, each of which *)
(* writes key by key.  A value the store has no row for is read as the     *)
(* default its reader names; a row that holds "" is not (cluster_state.go).*)
(* Four keys stand for their kind: a text with a default, a flag that is   *)
(* on by default, a secret, and a key the form does not have.              *)
(***************************************************************************)
EXTENDS Integers, FiniteSets, Nil

CONSTANTS
  Pages,     \* operators at the page
  Commands,  \* and at the command line
  MaxMisread \* bound on the reads of a page that fail

Savers == Pages \union Commands

Cookie == "sso_cookie_expire"
Login  == "edge_login_disabled"
Secret == "sso_client_secret"
Days   == "backup_retention_days"
Keys     == {Cookie, Login, Secret, Days}   \* what Update allows
FormKeys == Keys \ {Days}                   \* what the page posts
Foreign  == "tls_mode"                      \* a key it does not allow

Empty == ""
Words(k) ==
  CASE k = Login -> {"true", "false"} [] k = Cookie -> {Empty, "1h"}
    [] k = Secret -> {Empty, "x"}        [] k \in {Days, Foreign} -> {"x"}
Values == UNION {Words(k) : k \in Keys}

\* No text is NULL, which stands for a row that is not there.
ASSUME NoRowIsNoValue == NULL \notin Values

VARIABLES
  rows,     \* key -> value, or NULL where there is no row
  doing,    \* per saver: what it does next
  shown,    \* the values a page read
  sent,     \* key -> value, what an Update or the wizard has yet to write
  touched,  \* the keys among them its operator gave a value for
  alone,    \* no other saver has written since it began
  misread   \* the keys a page reads as empty because the read failed

settingVars == <<rows, doing, shown, sent, touched, alone, misread>>
-----------------------------------------------------------------------------
Nothing == [k \in {} |-> Empty]

\* A fresh install has no row of these: `cluster up` writes the domain and two names.
SettingsInit ==
  /\ rows = [k \in Keys |-> NULL]
  /\ doing = [s \in Savers |-> "idle"] /\ shown = [s \in Savers |-> Nothing]
  /\ sent = [s \in Savers |-> Nothing] /\ touched = [s \in Savers |-> {}]
  /\ alone = [s \in Savers |-> FALSE] /\ misread = [s \in Savers |-> {}]

\* What the renderer makes of a row (loadSSOSettings, loadEdgeLoginDisabled).
Effective(k, v) ==
  CASE k = Login           -> v \in {NULL, "true"}
    [] k = Cookie          -> IF v = NULL THEN "1h" ELSE v
    [] k \in {Secret, Days} -> IF v = NULL THEN Empty ELSE v

At(s, f, step) == doing[s] = f /\ doing' = [doing EXCEPT ![s] = step]
Quiet(s)       == shown' = [shown EXCEPT ![s] = Nothing]
Leave(s) ==
  /\ doing' = [doing EXCEPT ![s] = "idle"] /\ Quiet(s)
  /\ sent' = [sent EXCEPT ![s] = Nothing] /\ touched' = [touched EXCEPT ![s] = {}]
  /\ alone' = [alone EXCEPT ![s] = FALSE] /\ misread' = [misread EXCEPT ![s] = {}]
-----------------------------------------------------------------------------
\* ClusterSettingsPage: Get reads key after key; "" for a key without a row, and for
\* one that cannot be read (GetSettingDefault).
Show(s) ==
  /\ At(s, "idle", "get") /\ alone' = [alone EXCEPT ![s] = TRUE]
  /\ UNCHANGED <<rows, shown, sent, touched, misread>>

Read(s) ==
  /\ doing[s] = "get"
  /\ LET todo == Keys \ DOMAIN shown[s]
         k    == CHOOSE x \in todo : TRUE
     IN  \/ /\ todo # {} /\ \E fails \in {x \in BOOLEAN : x => Cardinality(misread[s]) < MaxMisread} :
                 /\ shown' = [shown EXCEPT ![s] = [x \in DOMAIN @ \union {k} |->
                                IF x # k THEN @[x] ELSE IF fails \/ rows[k] = NULL THEN Empty ELSE rows[k]]]
                 /\ misread' = [misread EXCEPT ![s] = @ \union {x \in {k} : fails}]
            /\ UNCHANGED doing
         \/ todo = {} /\ At(s, "get", "form") /\ UNCHANGED <<shown, misread>>
  /\ UNCHANGED <<rows, sent, touched, alone>>

\* maskClusterSettings and the form: a secret is not shown, a flag is a box that is
\* ticked when the value is "true".
Masked(s, k) == IF k = Secret THEN Empty ELSE
                IF k # Login THEN shown[s][k] ELSE IF shown[s][k] = "true" THEN "true" ELSE "false"

\* ClusterSettingsSave posts every key of the form; a secret left empty is left out.
\* The faulty variant posts it.
WholeForm(form) == [k \in FormKeys |-> form[k]]
Posted(form) == [k \in FormKeys \ {x \in {Secret} : form[x] = Empty} |-> form[k]]

Post(s) ==
  /\ At(s, "form", "put")
  /\ \E form \in {f \in [FormKeys -> Values] : \A k \in FormKeys : f[k] \in Words(k) \union {Masked(s, k)}} :
       /\ sent' = [sent EXCEPT ![s] = Posted(form)]
       /\ touched' = [touched EXCEPT ![s] = {k \in FormKeys : form[k] # Masked(s, k)}]
  /\ Quiet(s) /\ UNCHANGED <<rows, alone, misread>>

\* `cluster settings set key=value`, of any keys.
Set(s) ==
  /\ At(s, "idle", "put") /\ alone' = [alone EXCEPT ![s] = TRUE]
  /\ \E k \in Keys \union {Foreign} : \E v \in Words(k) :
       /\ sent' = [sent EXCEPT ![s] = [x \in {k} |-> v]]
       /\ touched' = [touched EXCEPT ![s] = {k}]
  /\ UNCHANGED <<rows, shown, misread>>

\* The wizard without a terminal: what neither a flag nor the environment names is
\* written as the zero of its kind, a cookie without a lifetime as "1h".
Unasked(k) == CASE k = Login -> "true" [] k = Cookie -> "1h" [] k = Secret -> Empty
Answer(s) ==
  /\ At(s, "idle", "setup") /\ alone' = [alone EXCEPT ![s] = TRUE]
  /\ \E f \in {g \in [FormKeys -> Values] : \A k \in FormKeys : g[k] \in (Words(k) \ {Empty}) \union {Unasked(k)}} :
       /\ sent' = [sent EXCEPT ![s] = f]
       /\ touched' = [touched EXCEPT ![s] = {k \in FormKeys : f[k] # Unasked(k)}]
  /\ UNCHANGED <<rows, shown, misread>>

\* Local.Update refuses an unknown key before it writes; the wizard asks for none.
Refuse(s) ==
  /\ doing[s] = "put" /\ Foreign \in DOMAIN sent[s]
  /\ Leave(s) /\ UNCHANGED rows

\* SetSetting, one key after the other in the order of a Go map; one may fail.
Write(s) ==
  /\ doing[s] \in {"put", "setup"} /\ Foreign \notin DOMAIN sent[s]
  /\ \E k \in DOMAIN sent[s] :
       /\ rows' = [rows EXCEPT ![k] = sent[s][k]]
       /\ sent' = [sent EXCEPT ![s] = [x \in DOMAIN @ \ {k} |-> @[x]]]
       /\ touched' = [touched EXCEPT ![s] = @ \ {k}]
  /\ alone' = [r \in Savers |-> alone[r] /\ (r = s \/ doing[r] = "idle")]
  /\ UNCHANGED <<doing, shown, misread>>

EndUpdate(s) ==
  /\ doing[s] \in {"put", "setup"} /\ Foreign \notin DOMAIN sent[s]  \* done, or SetSetting failed
  /\ Leave(s) /\ UNCHANGED rows

SettingsNext ==
  \/ \E s \in Pages : Show(s) \/ Read(s) \/ Post(s)
  \/ \E s \in Commands : Set(s) \/ Answer(s) \/ Refuse(s)
  \/ \E s \in Savers : Write(s) \/ EndUpdate(s)

SettingsSpec == SettingsInit /\ [][SettingsNext]_settingVars
-----------------------------------------------------------------------------
\* What saver s writes in a step, where it was alone since it read or was told.
Writes(s, k) == alone[s] /\ sent'[s] # sent[s] /\ rows'[k] # rows[k]
Same(k)      == Effective(k, rows'[k]) = Effective(k, rows[k])

\* The fields shown as empty, or as a box that is not ticked, because the read failed.
Blanked(s) == misread[s] \intersect (FormKeys \ {Secret})

\* A save that no other overlaps changes what the cluster makes of a stored setting
\* only where the operator gave it a value or was shown a field whose read had failed: a
\* secret that is not shown, whether it could be read or not, a flag that is posted as a
\* box and a key the form does not have stay what they were (maskClusterSettings,
\* ClusterSettingsSave).
UntouchedStays ==
  [][\A s \in Savers, k \in Keys :
       doing[s] = "put" /\ Writes(s, k) /\ k \notin touched[s] \union Blanked(s) /\ rows[k] # NULL
         => Same(k)]_settingVars
=============================================================================
