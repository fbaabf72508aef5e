------------------------------- MODULE Webhook -------------------------------
(***************************************************************************)
(* The webhook receiver, internal/webhooks/receiver.go, over the table of  *)
(* sources and the history of deliveries (internal/store/webhooks.go).  A  *)
(* CI system signs a payload with the secret of a source and its own clock; *)
(* the network delivers the request late, again, or never.  Requests are   *)
(* handled concurrently with each other and with the removal and creation  *)
(* of the source.  Every database statement, every reading of the clock    *)
(* and the two effects of the deploy are actions.                          *)
(***************************************************************************)
EXTENDS Integers, Sequences, FiniteSets

CONSTANTS
  Requests,   \* requests the daemon handles
  Secrets,    \* secrets rand.Read yields for the source, all different
  Payloads,   \* bodies
  Oversized,  \* bodies of more than MaxBodyBytes
  Malformed,  \* bodies that are not JSON, or lack repo_url or file
  Invalid,    \* payloads the deploy rejects before it records anything
  Skew,       \* MaxClockSkew
  Drift,      \* how far the CI system's clock is off
  MaxTime,      \* bound on the clock
  MaxSent,      \* bound on the requests that are signed
  MaxFailures,  \* bound on what fails
  NULL

ASSUME WebhookConstants ==
  /\ Oversized \subseteq Payloads /\ Malformed \subseteq Payloads
  /\ Invalid \subseteq Payloads \ Malformed
  /\ Skew \in Nat /\ Drift \in Nat /\ MaxTime \in Nat \ {0}
  /\ MaxSent \in Nat /\ MaxFailures \in Nat
  /\ NULL \notin Secrets /\ NULL \notin Requests

VARIABLES
  time,       \* the daemon's clock
  source,     \* row of the source: [secret, used] or NULL
  minted,     \* secrets the source has or had
  sent,       \* requests the CI system has signed
  revisions,  \* revisions the deploys recorded, oldest first
  deployed,   \* requests whose revision reached the Swarm
  history,    \* rows of webhook_deliveries
  failures,   \* what has failed so far
  pc, loc

vars == <<time, source, minted, sent, revisions, deployed, history, failures, pc, loc>>
ci      == <<time, source, minted, sent>>
effects == <<revisions, deployed, history>>
-----------------------------------------------------------------------------
Steps == {"idle", "clock", "verify", "mark", "parse", "deploy", "apply", "record",
          "ended"}
Statuses == {"accepted", "unauthorized", "bad_request", "server_error"}
Messages == [payload : Payloads, secret : Secrets, timestamp : 1 .. MaxTime + Drift]

\* A request at the receiver.  since: the secrets the source has had since the
\* request came in; checked: when its timestamp was found fresh.
Locals == [msg : Messages \union {NULL}, cancelled : BOOLEAN,
           since : SUBSET Secrets, checked : 0 .. MaxTime,
           status : Statuses \union {NULL}, revision : Nat]
NoLocals == [msg |-> NULL, cancelled |-> FALSE, since |-> {}, checked |-> 0,
             status |-> NULL, revision |-> 0]

Handling(r) == pc[r] \notin {"idle", "ended"}
Goto(r, step) == pc' = [pc EXCEPT ![r] = step]
\* The response is written, then the delivery is recorded.
Respond(r, status) == /\ loc' = [loc EXCEPT ![r].status = status]
                      /\ Goto(r, "record")

Init ==
  /\ time = 1
  /\ source = NULL
  /\ minted = {}
  /\ sent = {}
  /\ revisions = << >>
  /\ deployed = {}
  /\ history = {}
  /\ failures = 0
  /\ pc  = [r \in Requests |-> "idle"]
  /\ loc = [r \in Requests |-> NoLocals]

-----------------------------------------------------------------------------
(* The operator, the CI system and the clock *)

Create(k) ==
  /\ source = NULL
  /\ k \notin minted
  /\ source' = [secret |-> k, used |-> FALSE]
  /\ minted' = minted \union {k}
  /\ loc' = [r \in Requests |->
               IF Handling(r) THEN [loc[r] EXCEPT !.since = @ \union {k}] ELSE loc[r]]
  /\ UNCHANGED <<time, sent, effects, failures, pc>>

Delete ==
  /\ source # NULL
  /\ source' = NULL
  /\ UNCHANGED <<time, minted, sent, effects, failures, pc, loc>>

\* The CI system keeps the secret it was given, also after it was removed.
Sign(p, k, t) ==
  /\ k \in minted
  /\ t \in time - Drift .. time + Drift /\ t > 0
  /\ Cardinality(sent) < MaxSent
  /\ sent' = sent \union {[payload |-> p, secret |-> k, timestamp |-> t]}
  /\ UNCHANGED <<time, source, minted, effects, failures, pc, loc>>

Tick ==
  /\ time < MaxTime
  /\ time' = time + 1
  /\ UNCHANGED <<source, minted, sent, effects, failures, pc, loc>>

-----------------------------------------------------------------------------
(* Handling a request *)

Receive(r, m) ==
  /\ pc[r] = "idle"
  /\ LET l == [NoLocals EXCEPT !.msg = m,
                 !.since = IF source = NULL THEN {} ELSE {source.secret}]
     IN  IF m.payload \in Oversized
           THEN /\ loc' = [loc EXCEPT ![r] = [l EXCEPT !.status = "bad_request"]]
                /\ Goto(r, "record")
           ELSE /\ loc' = [loc EXCEPT ![r] = l]
                /\ Goto(r, "clock")
  /\ UNCHANGED <<ci, effects, failures>>

\* The faulty variant takes a timestamp ahead of the clock for fresh.
OnlyPast(t) == time - t <= Skew
Fresh(t) == time - t <= Skew /\ t - time <= Skew

ReadClock(r) ==
  /\ pc[r] = "clock"
  /\ IF Fresh(loc[r].msg.timestamp)
       THEN /\ loc' = [loc EXCEPT ![r].checked = time]
            /\ Goto(r, "verify")
       ELSE Respond(r, "unauthorized")
  /\ UNCHANGED <<ci, effects, failures>>

\* The faulty variant compares with any secret the source ever had.
EverSigned(r) == loc[r].msg.secret \in minted
Signed(r) == source # NULL /\ source.secret = loc[r].msg.secret

\* What comes after a signature that matches.
AfterVerify == "mark"

\* GetWebhookSource and the comparison; a cancelled request reads nothing.
Verify(r) ==
  /\ pc[r] = "verify"
  /\ IF Signed(r) /\ ~loc[r].cancelled
       THEN Goto(r, AfterVerify) /\ UNCHANGED loc
       ELSE Respond(r, "unauthorized")
  /\ UNCHANGED <<ci, effects, failures>>

\* UPDATE ... WHERE source = ?, whose failure is ignored.
Marked(r) == IF source = NULL \/ loc[r].cancelled THEN source
                                                  ELSE [source EXCEPT !.used = TRUE]

MarkUsed(r) ==
  /\ pc[r] = "mark"
  /\ source' = Marked(r)
  /\ Goto(r, "parse")
  /\ UNCHANGED <<time, minted, sent, effects, failures, loc>>

Parse(r) ==
  /\ pc[r] = "parse"
  /\ IF loc[r].msg.payload \in Malformed
       THEN Respond(r, "bad_request")
       ELSE Goto(r, "deploy") /\ UNCHANGED loc
  /\ UNCHANGED <<ci, effects, failures>>

\* Deploy validates, then records a revision of its own for every request: see
\* StackDeploy.
RecordRevision(r) ==
  /\ pc[r] = "deploy"
  /\ IF loc[r].msg.payload \in Invalid \/ loc[r].cancelled
       THEN /\ Respond(r, "server_error")
            /\ UNCHANGED revisions
       ELSE /\ revisions' = Append(revisions, [by |-> r, msg |-> loc[r].msg,
                                               checked |-> loc[r].checked])
            /\ loc' = [loc EXCEPT ![r].revision = Len(revisions')]
            /\ Goto(r, "apply")
  /\ UNCHANGED <<ci, deployed, history, failures>>

\* The status of a deploy that returned an error; the faulty variant lost the
\* return after it.
ErrorIgnored == "accepted"
DeployError  == "server_error"

\* docker stack deploy is killed with the request, or fails by itself - before or
\* after the Swarm has changed.
Apply(r) ==
  /\ pc[r] = "apply"
  /\ \/ /\ ~loc[r].cancelled
        /\ deployed' = deployed \union {r}
        /\ Respond(r, "accepted")
     \/ /\ deployed' \in {deployed, deployed \union {r}}
        /\ Respond(r, DeployError)
  /\ UNCHANGED <<ci, revisions, history, failures>>

\* Only an accepted delivery carries its revision.  The faulty variant records
\* what was deployed only.
AcceptedRows(r) == IF loc[r].status # "accepted" THEN {} ELSE
  {[by |-> r, status |-> "accepted", revision |-> loc[r].revision]}
Rows(r) ==
  {[by |-> r, status |-> loc[r].status,
    revision |-> IF loc[r].status = "accepted" THEN loc[r].revision ELSE 0]}

\* The insert runs in the request's context and its failure is ignored.
Record(r) ==
  /\ pc[r] = "record"
  /\ history' = IF loc[r].cancelled THEN history ELSE history \union Rows(r)
  /\ Goto(r, "ended")
  /\ UNCHANGED <<ci, revisions, deployed, failures, loc>>

Step(r) ==
  \/ \E m \in sent : Receive(r, m)
  \/ ReadClock(r) \/ Verify(r) \/ MarkUsed(r) \/ Parse(r) \/ RecordRevision(r)
  \/ Apply(r) \/ Record(r)

Normal ==
  \/ \E r \in Requests : Step(r)
  \/ \E k \in Secrets : Create(k)
  \/ Delete
  \/ \E p \in Payloads, k \in Secrets, t \in 1 .. MaxTime + Drift : Sign(p, k, t)
  \/ Tick

-----------------------------------------------------------------------------
(* What fails *)

\* The client goes away, or the 30 seconds of the router's timeout are over.
Cancel(r) ==
  /\ Handling(r) /\ ~loc[r].cancelled
  /\ loc' = [loc EXCEPT ![r].cancelled = TRUE]
  /\ UNCHANGED <<ci, effects, pc>>

\* A statement fails: what cannot be read is refused, what cannot be marked or
\* recorded is passed over, what cannot be stored is not deployed.
StatementFails(r) ==
  /\ \/ pc[r] = "verify" /\ Respond(r, "unauthorized")
     \/ pc[r] = "mark" /\ Goto(r, "parse") /\ UNCHANGED loc
     \/ pc[r] = "deploy" /\ Respond(r, DeployError)
     \/ pc[r] = "record" /\ Goto(r, "ended") /\ UNCHANGED loc
  /\ UNCHANGED <<ci, effects>>

Failure ==
  /\ failures < MaxFailures
  /\ failures' = failures + 1
  /\ \E r \in Requests : Cancel(r) \/ StatementFails(r)

Next == Normal \/ Failure
Spec == Init /\ [][Next]_vars
-----------------------------------------------------------------------------
TypeOK ==
  /\ time \in 1 .. MaxTime
  /\ source \in [secret : Secrets, used : BOOLEAN] \union {NULL}
  /\ minted \subseteq Secrets
  /\ sent \subseteq Messages
  /\ revisions \in Seq([by : Requests, msg : Messages, checked : 1 .. MaxTime])
  /\ deployed \subseteq Requests
  /\ history \subseteq [by : Requests, status : Statuses, revision : Nat]
  /\ failures \in 0 .. MaxFailures
  /\ pc \in [Requests -> Steps]
  /\ loc \in [Requests -> Locals]

\* Removing a source takes effect for every request that comes in afterwards: a
\* revision is signed with a secret the source has had since then, however late
\* the request was delivered and whatever was removed and created meanwhile.
RevokedIsRefused ==
  \A i \in DOMAIN revisions :
     revisions[i].msg.secret \in loc[revisions[i].by].since

\* A request that is delivered again is deployed again only for as long as its
\* timestamp may be fresh, on whichever side of the CI system's clock.
DuplicatesExpire ==
  \A i, j \in DOMAIN revisions :
     revisions[i].msg = revisions[j].msg
        => revisions[i].checked - revisions[j].checked <= 2 * Skew

\* What the history says is what happened: an accepted delivery was deployed as
\* the revision it names, and one that was refused has left no revision.
HistoryIsTrue ==
  \A d \in history :
     /\ d.status = "accepted" => /\ d.by \in deployed
                                 /\ d.revision \in DOMAIN revisions
                                 /\ revisions[d.revision].by = d.by
     /\ d.status \in {"unauthorized", "bad_request"}
           => \A i \in DOMAIN revisions : revisions[i].by # d.by

\* docs/webhook.md: "Every request the receiver handles - accepted or rejected -
\* is recorded as a delivery".  It holds as long as nothing fails.
EveryRequestRecorded ==
  failures = 0 => \A r \in Requests :
                     pc[r] = "ended" => \E d \in history : d.by = r

\* The history says what happened, and leaves nothing out.
HistoryIsExact == HistoryIsTrue /\ EveryRequestRecorded
=============================================================================
