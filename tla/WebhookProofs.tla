---------------------------- MODULE WebhookProofs ----------------------------
(***************************************************************************)
(* Who may deploy through the webhook, until when, and what the history of *)
(* deliveries says of it, for any number of requests, secrets and payloads *)
(* and any failures.  And what a caller of the API is told, for any number *)
(* of callers and any names.                                               *)
(***************************************************************************)
EXTENDS Webhook, ApiPath, NaturalsInduction, WellFoundedInduction, TLAPS

\* Request r has made a revision; n is a revision it made.
Recorded(r, n) == n \in DOMAIN revisions /\ revisions[n].by = r
Trace(r)       == \E n \in DOMAIN revisions : revisions[n].by = r

Near(t, u) == t - u <= Skew /\ u - t <= Skew

\* What a request brings to the step that records its delivery.
Outcome(r) ==
  /\ loc[r].status \in Statuses
  /\ loc[r].status = "accepted" => r \in deployed /\ Recorded(r, loc[r].revision)
  /\ loc[r].status \in {"unauthorized", "bad_request"} => ~Trace(r)

\* What is known of a request at each step.
Knows(r) ==
  /\ pc[r] \in {"idle", "clock", "verify", "mark", "parse", "deploy"} => ~Trace(r)
  /\ pc[r] # "idle" => loc[r].msg \in Messages
  /\ Handling(r) /\ source # NULL => source.secret \in loc[r].since
  /\ pc[r] \in {"verify", "mark", "parse", "deploy", "apply"}
        => /\ loc[r].checked \in 1 .. MaxTime
           /\ Near(loc[r].checked, loc[r].msg.timestamp)
  /\ pc[r] \in {"mark", "parse", "deploy", "apply"}
        => loc[r].msg.secret \in loc[r].since
  /\ pc[r] = "apply"  => Recorded(r, loc[r].revision)
  /\ pc[r] = "record" => Outcome(r)

\* Every revision was signed with a secret its request may use and was fresh.
LogFits ==
  \A n \in DOMAIN revisions :
     /\ revisions[n].msg.secret \in loc[revisions[n].by].since
     /\ Near(revisions[n].checked, revisions[n].msg.timestamp)

HistoryFits == HistoryIsTrue /\ \A d \in history : pc[d.by] = "ended"

IInv == TypeOK /\ (\A r \in Requests : Knows(r)) /\ LogFits /\ HistoryFits
-----------------------------------------------------------------------------
(* The steps of one request *)

Acts(r) == Step(r) \/ Cancel(r) \/ StatementFails(r)

\* The row a deploy appends.
Row(r) == [by |-> r, msg |-> loc[r].msg, checked |-> loc[r].checked]

\* The initial value of a request's locals has the right type.
LEMMA NoLocalsType == NoLocals \in Locals
PROOF
BY WebhookConstants DEF NoLocals, Locals

\* A step of r leaves the other requests alone; it may mark the source, append
\* its own revision, or join what is deployed.
LEMMA StepFrame ==
  ASSUME IInv, NEW r \in Requests, Acts(r)
  PROVE  /\ \A d \in Requests \ {r} : pc'[d] = pc[d] /\ loc'[d] = loc[d]
         /\ \/ source' = source
            \/ source # NULL /\ source' = [source EXCEPT !.used = TRUE]
         /\ \/ revisions' = revisions
            \/ pc[r] = "deploy" /\ revisions' = Append(revisions, Row(r))
         /\ deployed' = deployed \/ deployed' = deployed \union {r}
         /\ \/ history' = history
            \/ pc[r] = "record" /\ history' = history \union Rows(r)
         /\ time' = time /\ minted' = minted /\ sent' = sent
PROOF
<1> USE DEF Goto, Respond, ci, effects
<1>1. pc \in [Requests -> Steps] /\ loc \in [Requests -> Locals]
  BY DEF IInv, TypeOK
<1>2. CASE \E m \in sent : Receive(r, m)
  BY <1>1, <1>2 DEF Receive
<1>3. CASE ReadClock(r)
  BY <1>1, <1>3 DEF ReadClock
<1>4. CASE Verify(r)
  BY <1>1, <1>4 DEF Verify
<1>5. CASE MarkUsed(r)
  BY <1>1, <1>5 DEF MarkUsed, Marked
<1>6. CASE Parse(r)
  BY <1>1, <1>6 DEF Parse
<1>7. CASE RecordRevision(r)
  BY <1>1, <1>7 DEF RecordRevision, Row
<1>8. CASE Apply(r)
  BY <1>1, <1>8 DEF Apply
<1>9. CASE Record(r)
  BY <1>1, <1>9 DEF Record
<1>10. CASE Cancel(r)
  BY <1>1, <1>10 DEF Cancel
<1>11. CASE StatementFails(r)
  BY <1>1, <1>11 DEF StatementFails
<1> QED
  BY <1>2, <1>3, <1>4, <1>5, <1>6, <1>7, <1>8, <1>9, <1>10, <1>11 DEF Acts, Step

\* A revision that is appended has the right type and is the last one.
LEMMA RevisionType ==
  ASSUME IInv, NEW r \in Requests, pc[r] = "deploy"
  PROVE  LET new == Append(revisions, Row(r))
         IN  /\ new \in Seq([by : Requests, msg : Messages, checked : 1 .. MaxTime])
             /\ Len(new) \in Nat /\ DOMAIN new = DOMAIN revisions \union {Len(new)}
             /\ Len(new) \notin DOMAIN revisions
             /\ new[Len(new)] = Row(r)
             /\ \A n \in DOMAIN revisions : new[n] = revisions[n]
PROOF
<1> DEFINE R == [by : Requests, msg : Messages, checked : 1 .. MaxTime]
<1>1. revisions \in Seq(R) /\ Row(r) \in R
  BY DEF IInv, TypeOK, Knows, Row
<1>2. Append(revisions, Row(r)) \in Seq(R)
  BY <1>1
<1> HIDE DEF R
<1>3. /\ Len(Append(revisions, Row(r))) = Len(revisions) + 1
      /\ DOMAIN revisions = 1 .. Len(revisions) /\ Len(revisions) \in Nat
      /\ DOMAIN Append(revisions, Row(r)) = 1 .. Len(revisions) + 1
      /\ Append(revisions, Row(r))[Len(revisions) + 1] = Row(r)
      /\ \A n \in 1 .. Len(revisions) : Append(revisions, Row(r))[n] = revisions[n]
  BY <1>1
<1> QED
  BY <1>2, <1>3 DEF R

\* A step of r moves it to a step of the receiver, with locals of the right type.
LEMMA StepTypes ==
  ASSUME IInv, NEW r \in Requests, Acts(r)
  PROVE  pc' \in [Requests -> Steps] /\ loc' \in [Requests -> Locals]
PROOF
<1> USE DEF Goto, Respond, ci, effects, Steps
<1>1. /\ pc \in [Requests -> Steps] /\ loc \in [Requests -> Locals] /\ time \in 1 .. MaxTime
      /\ source \in [secret : Secrets, used : BOOLEAN] \union {NULL}
      /\ sent \subseteq Messages /\ MaxTime \in Nat
  BY WebhookConstants DEF IInv, TypeOK
<1>2. CASE \E m \in sent : Receive(r, m)
  <2>1. PICK m \in sent : Receive(r, m)
    BY <1>2
  <2> DEFINE l == [NoLocals EXCEPT !.msg = m,
                     !.since = IF source = NULL THEN {} ELSE {source.secret}]
  <2>2. l \in Locals /\ [l EXCEPT !.status = "bad_request"] \in Locals
    BY <1>1, NoLocalsType DEF Locals, Statuses, NoLocals
  <2>3. loc' = [loc EXCEPT ![r] = l] \/ loc' = [loc EXCEPT ![r] = [l EXCEPT !.status = "bad_request"]]
    BY <2>1 DEF Receive
  <2>4. loc' \in [Requests -> Locals]
    BY <1>1, <2>2, <2>3
  <2> QED
    BY <1>1, <2>1, <2>4 DEF Receive
<1>3. CASE ReadClock(r)
  BY <1>1, <1>3 DEF ReadClock, Respond, Locals, Statuses
<1>4. CASE Verify(r)
  BY <1>1, <1>4 DEF Verify, AfterVerify, Locals, Statuses
<1>5. CASE MarkUsed(r)
  BY <1>1, <1>5 DEF MarkUsed
<1>6. CASE Parse(r)
  <2>1. loc' = loc \/ loc' = [loc EXCEPT ![r].status = "bad_request"]
    BY <1>6 DEF Parse
  <2>2. loc' \in [Requests -> Locals]
    BY <1>1, <2>1 DEF Locals, Statuses
  <2> QED
    BY <1>1, <1>6, <2>2 DEF Parse
<1>7. CASE RecordRevision(r)
  <2>1. CASE loc[r].msg.payload \in Invalid \/ loc[r].cancelled
    <3>1. /\ loc' = [loc EXCEPT ![r].status = "server_error"]
          /\ pc' = [pc EXCEPT ![r] = "record"]
      BY <1>7, <2>1 DEF RecordRevision, DeployError
    <3> QED
      BY <1>1, <3>1 DEF Locals, Statuses
  <2>2. CASE ~(loc[r].msg.payload \in Invalid \/ loc[r].cancelled)
    <3>1. Len(revisions') \in Nat /\ loc' = [loc EXCEPT ![r].revision = Len(revisions')]
      BY <1>7, <2>2, RevisionType DEF RecordRevision, Row
    <3>2. loc' \in [Requests -> Locals]
      BY <1>1, <3>1 DEF Locals
    <3> QED
      BY <1>1, <1>7, <2>2, <3>2 DEF RecordRevision
  <2> QED
    BY <2>1, <2>2
<1>8. CASE Apply(r)
  BY <1>1, <1>8 DEF Apply, DeployError, Locals, Statuses
<1>9. CASE Record(r)
  BY <1>1, <1>9 DEF Record
<1>10. CASE Cancel(r)
  BY <1>1, <1>10 DEF Cancel, Locals
<1>11. CASE StatementFails(r)
  BY <1>1, <1>11 DEF StatementFails, DeployError, Locals, Statuses
<1> QED
  BY <1>2, <1>3, <1>4, <1>5, <1>6, <1>7, <1>8, <1>9, <1>10, <1>11 DEF Acts, Step

\* A step of r keeps the type invariant.
LEMMA StepKeepsTypes ==
  ASSUME IInv, NEW r \in Requests, Acts(r), failures' \in 0 .. MaxFailures
  PROVE  TypeOK'
PROOF
<1>1. /\ source \in [secret : Secrets, used : BOOLEAN] \union {NULL}
      /\ deployed \subseteq Requests
      /\ history \subseteq [by : Requests, status : Statuses, revision : Nat]
      /\ revisions \in Seq([by : Requests, msg : Messages, checked : 1 .. MaxTime])
      /\ time \in 1 .. MaxTime /\ minted \subseteq Secrets /\ sent \subseteq Messages
      /\ loc \in [Requests -> Locals]
  BY DEF IInv, TypeOK
<1>2. source' \in [secret : Secrets, used : BOOLEAN] \union {NULL}
  BY <1>1, StepFrame
<1>3. revisions' \in Seq([by : Requests, msg : Messages, checked : 1 .. MaxTime])
  <2>1. CASE revisions' = revisions
    BY <1>1, <2>1
  <2>2. CASE pc[r] = "deploy" /\ revisions' = Append(revisions, Row(r))
    <3>1. Append(revisions, Row(r))
            \in Seq([by : Requests, msg : Messages, checked : 1 .. MaxTime])
      BY <2>2, RevisionType
    <3> QED
      BY <2>2, <3>1
  <2>3. \/ revisions' = revisions
        \/ pc[r] = "deploy" /\ revisions' = Append(revisions, Row(r))
    BY StepFrame
  <2> QED
    BY <2>1, <2>2, <2>3
<1>4. history' \subseteq [by : Requests, status : Statuses, revision : Nat]
  <2>1. ASSUME pc[r] = "record"
        PROVE  Rows(r) \subseteq [by : Requests, status : Statuses, revision : Nat]
    <3>1. loc[r].status \in Statuses /\ loc[r].revision \in Nat
      BY <1>1, <2>1 DEF IInv, Knows, Outcome, Locals
    <3> QED
      BY <3>1 DEF Rows
  <2> QED
    BY <1>1, <2>1, StepFrame
<1>5. deployed' \subseteq Requests
  BY <1>1, StepFrame
<1>6. time' \in 1 .. MaxTime /\ minted' \subseteq Secrets /\ sent' \subseteq Messages
  BY <1>1, StepFrame
<1> QED
  BY <1>2, <1>3, <1>4, <1>5, <1>6, StepTypes DEF TypeOK

\* What is recorded stays recorded; only a deploy of r gives r a new revision.
LEMMA RevisionsKept ==
  ASSUME IInv, NEW r \in Requests, Acts(r)
  PROVE  /\ \A d \in Requests : \A n : Recorded(d, n) => Recorded(d, n)'
         /\ \A d \in Requests \ {r} : Trace(d)' <=> Trace(d)
         /\ pc[r] # "deploy" => (Trace(r)' <=> Trace(r))
PROOF
<1>1. CASE revisions' = revisions
  BY <1>1 DEF Recorded, Trace
<1>2. CASE pc[r] = "deploy" /\ revisions' = Append(revisions, Row(r))
  BY <1>2, RevisionType DEF Recorded, Trace, Row
<1> QED
  BY <1>1, <1>2, StepFrame

\* What is known of the other requests stays true.
LEMMA OthersKnow ==
  ASSUME IInv, NEW r \in Requests, Acts(r), NEW d \in Requests \ {r}
  PROVE  Knows(d)'
PROOF
<1>1. Knows(d) /\ source \in [secret : Secrets, used : BOOLEAN] \union {NULL}
  BY DEF IInv, TypeOK
<1>2. pc'[d] = pc[d] /\ loc'[d] = loc[d] /\ deployed \subseteq deployed'
  BY StepFrame
<1>3. source' # NULL => source # NULL /\ source'.secret = source.secret
  BY <1>1, StepFrame
<1>4. Outcome(d) => Outcome(d)'
  BY <1>2, RevisionsKept DEF Outcome
<1> QED
  BY <1>1, <1>2, <1>3, <1>4, RevisionsKept DEF Knows, Handling

\* A request that is refused, with no revision, may go and be recorded.
LEMMA Refused ==
  ASSUME IInv, NEW r \in Requests, Knows(r), Handling(r), ~Trace(r),
         NEW status \in {"unauthorized", "bad_request"}, Respond(r, status),
         UNCHANGED <<source, revisions, deployed>>
  PROVE  Knows(r)'
PROOF
<1>1. /\ loc'[r].msg = loc[r].msg /\ loc'[r].since = loc[r].since
      /\ loc'[r].status = status /\ pc'[r] = "record"
  BY DEF IInv, TypeOK, Locals, Respond, Goto
<1>2. Outcome(r)'
  BY <1>1 DEF Outcome, Trace, Statuses
<1> QED
  BY <1>1, <1>2 DEF Knows, Handling

\* So may one whose deploy returned an error.
LEMMA Errs ==
  ASSUME IInv, NEW r \in Requests, Knows(r), Handling(r),
         loc' = [loc EXCEPT ![r].status = "server_error"],
         pc' = [pc EXCEPT ![r] = "record"], UNCHANGED <<source, revisions>>
  PROVE  Knows(r)'
PROOF
<1>1. /\ loc'[r].msg = loc[r].msg /\ loc'[r].since = loc[r].since
      /\ loc'[r].status = "server_error" /\ pc'[r] = "record"
  BY DEF IInv, TypeOK, Locals
<1>2. Outcome(r)'
  BY <1>1 DEF Outcome, Statuses
<1> QED
  BY <1>1, <1>2 DEF Knows, Handling

\* The step that a request takes establishes what its next one knows.
LEMMA SelfKnows ==
  ASSUME IInv, NEW r \in Requests, Acts(r)
  PROVE  Knows(r)'
PROOF
<1> USE DEF Goto, Respond, ci, effects, Handling
<1>1. /\ pc \in [Requests -> Steps] /\ loc \in [Requests -> Locals] /\ time \in 1 .. MaxTime
      /\ source \in [secret : Secrets, used : BOOLEAN] \union {NULL}
      /\ sent \subseteq Messages /\ Knows(r)
  BY DEF IInv, TypeOK
<1>2. CASE \E m \in sent : Receive(r, m)
  <2>1. PICK m \in sent : Receive(r, m)
    BY <1>2
  <2>2. /\ loc'[r].msg = m /\ loc'[r].status \in {NULL, "bad_request"}
        /\ source # NULL => source.secret \in loc'[r].since
        /\ pc'[r] = "record" => loc'[r].status = "bad_request"
        /\ pc'[r] \in {"clock", "record"}
    <3> DEFINE l == [NoLocals EXCEPT !.msg = m,
                       !.since = IF source = NULL THEN {} ELSE {source.secret}]
    <3>1. /\ l.msg = m /\ l.status = NULL
          /\ source # NULL => source.secret \in l.since
          /\ [l EXCEPT !.status = "bad_request"].status = "bad_request"
          /\ [l EXCEPT !.status = "bad_request"].msg = m
          /\ [l EXCEPT !.status = "bad_request"].since = l.since
      BY DEF NoLocals
    <3> HIDE DEF l
    <3>2. \/ loc' = [loc EXCEPT ![r] = l] /\ pc' = [pc EXCEPT ![r] = "clock"]
          \/ /\ loc' = [loc EXCEPT ![r] = [l EXCEPT !.status = "bad_request"]]
             /\ pc' = [pc EXCEPT ![r] = "record"]
      BY <2>1 DEF Receive, l
    <3> QED
      BY <1>1, <3>1, <3>2
  <2>3. ~Trace(r)' /\ UNCHANGED <<source, revisions, deployed>>
    BY <1>1, <2>1, RevisionsKept DEF Knows, Receive
  <2>4. Outcome(r)' \/ pc'[r] # "record"
    BY <2>2, <2>3 DEF Outcome, Statuses
  <2> QED
    BY <1>1, <2>1, <2>2, <2>3, <2>4 DEF Knows
<1>3. CASE ReadClock(r)
  <2>1. UNCHANGED <<source, revisions, deployed>> /\ (Trace(r)' <=> Trace(r))
    BY <1>3, RevisionsKept DEF ReadClock
  <2>2. CASE Fresh(loc[r].msg.timestamp)
    <3>1. loc' = [loc EXCEPT ![r].checked = time] /\ pc' = [pc EXCEPT ![r] = "verify"]
      BY <1>3, <2>2 DEF ReadClock
    <3>2. Near(time, loc[r].msg.timestamp)
      BY <2>2 DEF Fresh, Near
    <3>3. /\ loc'[r].checked = time /\ loc'[r].msg = loc[r].msg /\ loc'[r].since = loc[r].since
          /\ pc'[r] = "verify"
      BY <1>1, <3>1 DEF Locals
    <3> QED
      BY <1>1, <1>3, <2>1, <3>2, <3>3 DEF Knows, Near, ReadClock
  <2>3. CASE ~Fresh(loc[r].msg.timestamp)
    BY <1>1, <1>3, <2>1, <2>3, Refused DEF ReadClock, Knows
  <2> QED
    BY <2>2, <2>3
<1>4. CASE Verify(r)
  <2>1. UNCHANGED <<source, revisions, deployed>> /\ (Trace(r)' <=> Trace(r))
    BY <1>4, RevisionsKept DEF Verify
  <2>2. CASE Signed(r) /\ ~loc[r].cancelled
    BY <1>1, <1>4, <2>1, <2>2 DEF Verify, AfterVerify, Signed, Knows, Near
  <2>3. CASE ~(Signed(r) /\ ~loc[r].cancelled)
    BY <1>1, <1>4, <2>1, <2>3, Refused DEF Verify, Knows
  <2> QED
    BY <2>2, <2>3
<1>5. CASE MarkUsed(r)
  <2>1. /\ UNCHANGED <<loc, revisions, deployed>> /\ (Trace(r)' <=> Trace(r))
        /\ source' # NULL => source # NULL /\ source'.secret = source.secret
    BY <1>1, <1>5, StepFrame, RevisionsKept DEF MarkUsed
  <2> QED
    BY <1>1, <1>5, <2>1 DEF MarkUsed, Knows, Near
<1>6. CASE Parse(r)
  <2>1. UNCHANGED <<source, revisions, deployed>> /\ (Trace(r)' <=> Trace(r))
    BY <1>6, RevisionsKept DEF Parse
  <2>2. CASE loc[r].msg.payload \in Malformed
    BY <1>1, <1>6, <2>1, <2>2, Refused DEF Parse, Knows
  <2>3. CASE loc[r].msg.payload \notin Malformed
    BY <1>1, <1>6, <2>1, <2>3 DEF Parse, Knows, Near
  <2> QED
    BY <2>2, <2>3
<1>7. CASE RecordRevision(r)
  <2>1. UNCHANGED <<source, deployed>>
    BY <1>7 DEF RecordRevision
  <2>2. CASE loc[r].msg.payload \in Invalid \/ loc[r].cancelled
    <3>1. loc' = [loc EXCEPT ![r].status = "server_error"]
          /\ pc' = [pc EXCEPT ![r] = "record"] /\ revisions' = revisions
      BY <1>7, <2>2 DEF RecordRevision, DeployError
    <3> QED
      BY <1>1, <1>7, <2>1, <3>1, Errs DEF Knows, RecordRevision
  <2>3. CASE ~(loc[r].msg.payload \in Invalid \/ loc[r].cancelled)
    <3>1. /\ revisions' = Append(revisions, Row(r)) /\ pc[r] = "deploy"
          /\ loc' = [loc EXCEPT ![r].revision = Len(revisions')]
          /\ pc' = [pc EXCEPT ![r] = "apply"]
      BY <1>7, <2>3 DEF RecordRevision, Row
    <3>2. Len(revisions') \in DOMAIN revisions' /\ revisions'[Len(revisions')].by = r
      BY <3>1, RevisionType DEF Row
    <3>3. /\ loc'[r].revision = Len(revisions') /\ loc'[r].msg = loc[r].msg
          /\ loc'[r].since = loc[r].since /\ loc'[r].checked = loc[r].checked
          /\ pc'[r] = "apply"
      BY <1>1, <3>1 DEF Locals
    <3>4. Recorded(r, loc[r].revision)'
      BY <3>2, <3>3 DEF Recorded
    <3> QED
      BY <1>1, <2>1, <3>1, <3>3, <3>4 DEF Knows, Near
  <2> QED
    BY <2>2, <2>3
<1>8. CASE Apply(r)
  <2>1. UNCHANGED <<source, revisions>>
    BY <1>8 DEF Apply
  <2>2. CASE loc' = [loc EXCEPT ![r].status = "accepted"]
             /\ deployed' = deployed \union {r}
    <3>1. /\ loc'[r].revision = loc[r].revision /\ loc'[r].msg = loc[r].msg
          /\ loc'[r].since = loc[r].since /\ loc'[r].status = "accepted"
          /\ pc'[r] = "record"
      BY <1>1, <1>8, <2>2 DEF Locals, Apply
    <3>2. Recorded(r, loc[r].revision)'
      BY <1>1, <1>8, <2>1, <3>1 DEF Knows, Recorded, Apply
    <3> QED
      BY <1>1, <1>8, <2>1, <2>2, <3>1, <3>2 DEF Knows, Outcome, Statuses, Apply
  <2>3. CASE loc' = [loc EXCEPT ![r].status = "server_error"]
    BY <1>1, <1>8, <2>1, <2>3, Errs DEF Knows, Apply
  <2> QED
    BY <1>8, <2>2, <2>3 DEF Apply, DeployError
<1>9. CASE Record(r)
  BY <1>1, <1>9 DEF Record, Knows
<1>10. CASE Cancel(r)
  <2>1. UNCHANGED <<source, revisions, deployed, pc>> /\ (Trace(r)' <=> Trace(r))
    BY <1>10, RevisionsKept DEF Cancel, Trace
  <2>2. /\ loc'[r].revision = loc[r].revision /\ loc'[r].msg = loc[r].msg
        /\ loc'[r].since = loc[r].since /\ loc'[r].checked = loc[r].checked
        /\ loc'[r].status = loc[r].status
    BY <1>1, <1>10 DEF Cancel, Locals
  <2>3. /\ Outcome(r) => Outcome(r)'
        /\ Recorded(r, loc[r].revision) => Recorded(r, loc[r].revision)'
    BY <2>1, <2>2 DEF Outcome, Recorded
  <2> QED
    BY <1>1, <2>1, <2>2, <2>3 DEF Knows, Near
<1>11. CASE StatementFails(r)
  <2>1. UNCHANGED <<source, revisions, deployed>> /\ (Trace(r)' <=> Trace(r))
    BY <1>11, RevisionsKept DEF StatementFails, Trace
  <2>2. CASE pc[r] = "verify" /\ Respond(r, "unauthorized")
    BY <1>1, <2>1, <2>2, Refused DEF Knows
  <2>3. CASE pc[r] = "mark" /\ Goto(r, "parse") /\ UNCHANGED loc
    BY <1>1, <2>1, <2>3 DEF Knows, Near
  <2>4. CASE pc[r] = "deploy" /\ Respond(r, DeployError)
    BY <1>1, <2>1, <2>4, Errs DEF Knows, DeployError
  <2>5. CASE pc[r] = "record" /\ Goto(r, "ended") /\ UNCHANGED loc
    BY <1>1, <2>1, <2>5 DEF Knows
  <2> QED
    BY <1>11, <2>2, <2>3, <2>4, <2>5 DEF StatementFails
<1> QED
  BY <1>2, <1>3, <1>4, <1>5, <1>6, <1>7, <1>8, <1>9, <1>10, <1>11 DEF Acts, Step

\* A recorded revision belongs to a request, and its times are times.
LEMMA RevisionsTyped ==
  ASSUME IInv, NEW n \in DOMAIN revisions
  PROVE  /\ revisions[n].by \in Requests
         /\ revisions[n].checked \in Int /\ revisions[n].msg.timestamp \in Int
PROOF
<1> DEFINE R == [by : Requests, msg : Messages, checked : 1 .. MaxTime]
<1>1. revisions \in Seq(R)
  BY DEF IInv, TypeOK
<1>2. \A x \in R : x.by \in Requests /\ x.checked \in Int /\ x.msg.timestamp \in Int
  BY WebhookConstants DEF Messages
<1> HIDE DEF R
<1>3. revisions[n] \in R
  BY <1>1
<1> QED
  BY <1>2, <1>3

\* Once a request has come in, its own steps do not touch what it may be signed with.
LEMMA SinceKept ==
  ASSUME IInv, NEW r \in Requests, Acts(r), pc[r] # "idle"
  PROVE  loc'[r].since = loc[r].since
PROOF
<1>1. loc \in [Requests -> Locals]
  BY DEF IInv, TypeOK
<1>2. CASE \E m \in sent : Receive(r, m)
  BY <1>2 DEF Receive
<1>3. CASE ReadClock(r)
  BY <1>1, <1>3 DEF ReadClock, Respond, Locals
<1>4. CASE Verify(r)
  BY <1>1, <1>4 DEF Verify, Respond, Locals
<1>5. CASE MarkUsed(r)
  BY <1>1, <1>5 DEF MarkUsed, Respond, Locals
<1>6. CASE Parse(r)
  BY <1>1, <1>6 DEF Parse, Respond, Locals
<1>7. CASE RecordRevision(r)
  BY <1>1, <1>7 DEF RecordRevision, Respond, Locals
<1>8. CASE Apply(r)
  BY <1>1, <1>8 DEF Apply, Respond, Locals
<1>9. CASE Record(r) \/ Cancel(r)
  BY <1>1, <1>9 DEF Record, Cancel, Locals
<1>10. CASE StatementFails(r)
  BY <1>1, <1>10 DEF StatementFails, Respond, Locals
<1> QED
  BY <1>2, <1>3, <1>4, <1>5, <1>6, <1>7, <1>8, <1>9, <1>10 DEF Acts, Step

\* A request that has ended takes no step.
LEMMA ActsNotEnded ==
  ASSUME NEW r \in Requests, Acts(r)
  PROVE  pc[r] # "ended"
PROOF
BY DEF Acts, Step, Receive, ReadClock, Verify, MarkUsed, Parse, RecordRevision, Apply, Record,
       Cancel, StatementFails, Handling

\* The history changes in the last step of a request only.
LEMMA OnlyRecordEnds ==
  ASSUME IInv, NEW r \in Requests, Acts(r), history' # history
  PROVE  pc'[r] = "ended"
PROOF
<1>1. pc \in [Requests -> Steps]
  BY DEF IInv, TypeOK
<1>2. Record(r)
  BY DEF Acts, Step, Receive, ReadClock, Verify, MarkUsed, Parse, RecordRevision, Apply,
         Cancel, StatementFails, effects
<1> QED
  BY <1>1, <1>2 DEF Record, Goto

\* A step of a request keeps the record of revisions and the history true.
LEMMA StepKeepsLogs ==
  ASSUME IInv, NEW r \in Requests, Acts(r)
  PROVE  LogFits' /\ HistoryFits'
PROOF
<1>1. /\ pc \in [Requests -> Steps] /\ loc \in [Requests -> Locals]
      /\ revisions \in Seq([by : Requests, msg : Messages, checked : 1 .. MaxTime])
      /\ history \subseteq [by : Requests, status : Statuses, revision : Nat]
      /\ Knows(r) /\ LogFits /\ HistoryFits
  BY DEF IInv, TypeOK
<1>2. \A n \in DOMAIN revisions : revisions[n].by \in Requests /\ pc[revisions[n].by] # "idle"
  <2> SUFFICES ASSUME NEW n \in DOMAIN revisions
               PROVE  revisions[n].by \in Requests /\ pc[revisions[n].by] # "idle"
    OBVIOUS
  <2>1. revisions[n].by \in Requests
    BY RevisionsTyped
  <2>2. Trace(revisions[n].by) /\ Knows(revisions[n].by)
    BY <2>1 DEF Trace, IInv
  <2> QED
    BY <2>1, <2>2 DEF Knows
<1>3. pc[r] # "idle" => loc'[r].since = loc[r].since
  BY <1>1, SinceKept
<1>4. \A d \in Requests : pc[d] # "idle" => loc'[d].since = loc[d].since
  BY <1>3, StepFrame
<1>5. LogFits'
  <2>1. CASE revisions' = revisions
    BY <1>1, <1>2, <1>4, <2>1 DEF LogFits, Near
  <2>2. CASE pc[r] = "deploy" /\ revisions' = Append(revisions, Row(r))
    <3>1. Row(r).msg.secret \in loc'[r].since /\ Near(Row(r).checked, Row(r).msg.timestamp)
      BY <1>1, <1>4, <2>2 DEF Row, Knows
    <3>2. \A n \in DOMAIN revisions' :
             \/ n \in DOMAIN revisions /\ revisions'[n] = revisions[n]
             \/ revisions'[n] = Row(r)
      BY <2>2, RevisionType
    <3>3. Row(r).by = r
      BY DEF Row
    <3> QED
      BY <1>1, <1>2, <1>4, <3>1, <3>2, <3>3 DEF LogFits, Near
  <2> QED
    BY <2>1, <2>2, StepFrame
<1>6. HistoryFits'
  <2> SUFFICES ASSUME NEW e \in history'
               PROVE  /\ e.status = "accepted" => /\ e.by \in deployed'
                                                  /\ Recorded(e.by, e.revision)'
                      /\ e.status \in {"unauthorized", "bad_request"} => ~Trace(e.by)'
                      /\ pc'[e.by] = "ended"
    BY DEF HistoryFits, HistoryIsTrue, Recorded, Trace
  <2>1. CASE e \in history
    <3>1. e.by \in Requests /\ pc[e.by] = "ended" /\ e.by # r
      BY <1>1, <2>1, ActsNotEnded DEF HistoryFits
    <3>2. /\ e.status = "accepted" => e.by \in deployed /\ Recorded(e.by, e.revision)
          /\ e.status \in {"unauthorized", "bad_request"} => ~Trace(e.by)
      BY <1>1, <2>1 DEF HistoryFits, HistoryIsTrue, Recorded, Trace
    <3> QED
      BY <3>1, <3>2, StepFrame, RevisionsKept
  <2>2. CASE e \notin history
    <3>1. e \in Rows(r) /\ pc[r] = "record" /\ history' # history
      BY <2>2, StepFrame
    <3>2. pc'[r] = "ended"
      BY <1>1, <3>1, OnlyRecordEnds
    <3>3. /\ e.by = r /\ e.status = loc[r].status
          /\ e.status = "accepted" => e.revision = loc[r].revision
      BY <3>1 DEF Rows
    <3>4. Outcome(r)
      BY <1>1, <3>1 DEF Knows
    <3> QED
      BY <3>1, <3>2, <3>3, <3>4, StepFrame, RevisionsKept DEF Outcome
  <2> QED
    BY <2>1, <2>2
<1> QED
  BY <1>5, <1>6
-----------------------------------------------------------------------------
(* The operator, the CI system and the clock *)

\* Removing the source, signing and the passing of time change nothing that the
\* requests know; a new source adds its secret to what they may be signed with.
LEMMA Surroundings ==
  ASSUME IInv,
         \/ \E k \in Secrets : Create(k)
         \/ Delete
         \/ \E p \in Payloads, k \in Secrets, t \in 1 .. MaxTime + Drift : Sign(p, k, t)
         \/ Tick
  PROVE  IInv'
PROOF
<1> USE DEF ci, effects
<1>1. TypeOK
  BY DEF IInv
<1>2. UNCHANGED <<revisions, deployed, history, failures, pc>>
  BY DEF Create, Delete, Sign, Tick
<1>3. CASE \E k \in Secrets : Create(k)
  <2>1. PICK k \in Secrets : Create(k)
    BY <1>3
  <2> DEFINE Grown(d) == [loc[d] EXCEPT !.since = @ \union {k}]
  <2>2. /\ loc' = [d \in Requests |-> IF Handling(d) THEN Grown(d) ELSE loc[d]]
        /\ source' = [secret |-> k, used |-> FALSE] /\ UNCHANGED <<time, sent>>
        /\ minted' = minted \union {k}
    BY <2>1 DEF Create
  <2>3. \A d \in Requests :
           /\ Grown(d) \in Locals
           /\ Grown(d).msg = loc[d].msg /\ Grown(d).checked = loc[d].checked
           /\ Grown(d).status = loc[d].status /\ Grown(d).revision = loc[d].revision
           /\ Grown(d).since = loc[d].since \union {k}
    BY <1>1 DEF TypeOK, Locals
  <2> HIDE DEF Grown
  <2>4. /\ loc' \in [Requests -> Locals]
        /\ \A d \in Requests :
              /\ loc'[d].msg = loc[d].msg /\ loc'[d].checked = loc[d].checked
              /\ loc'[d].status = loc[d].status /\ loc'[d].revision = loc[d].revision
              /\ loc[d].since \subseteq loc'[d].since
              /\ Handling(d) => k \in loc'[d].since
    BY <1>1, <2>2, <2>3 DEF TypeOK
  <2>5. TypeOK'
    BY <1>1, <1>2, <2>2, <2>4 DEF TypeOK
  <2>6. \A d \in Requests : Knows(d)'
    <3> SUFFICES ASSUME NEW d \in Requests PROVE Knows(d)'
      OBVIOUS
    <3>1. Knows(d) /\ (Outcome(d) => Outcome(d)')
      BY <1>2, <2>4 DEF IInv, Outcome, Recorded, Trace
    <3> QED
      BY <1>2, <2>2, <2>4, <3>1 DEF Knows, Handling, Recorded, Trace, Near
  <2>7. LogFits'
    BY <1>2, <2>4, RevisionsTyped DEF IInv, LogFits, Near
  <2> QED
    BY <1>2, <2>5, <2>6, <2>7 DEF IInv, HistoryFits, HistoryIsTrue
<1>4. CASE \/ Delete
           \/ \E p \in Payloads, k \in Secrets, t \in 1 .. MaxTime + Drift : Sign(p, k, t)
           \/ Tick
  <2>1. UNCHANGED loc /\ (source' = source \/ source' = NULL)
    BY <1>4 DEF Delete, Sign, Tick
  <2>2. time' \in 1 .. MaxTime /\ minted' \subseteq Secrets /\ sent' \subseteq Messages
    BY <1>1, <1>4, WebhookConstants DEF TypeOK, Delete, Sign, Tick, Messages
  <2>3. TypeOK'
    BY <1>1, <1>2, <2>1, <2>2 DEF TypeOK
  <2>4. \A d \in Requests : Knows(d)'
    BY <1>2, <2>1 DEF IInv, Knows, Handling, Outcome, Recorded, Trace, Near
  <2> QED
    BY <1>2, <2>1, <2>3, <2>4 DEF IInv, LogFits, HistoryFits, HistoryIsTrue, Near
<1> QED
  BY <1>3, <1>4
-----------------------------------------------------------------------------
\* The initial state satisfies the invariant.
LEMMA InitEstablishes ==
  ASSUME Init PROVE IInv
PROOF
<1>1. TypeOK
  BY WebhookConstants, NoLocalsType DEF Init, TypeOK, Steps
<1>2. \A r \in Requests : Knows(r)
  BY DEF Init, Knows, Trace, Handling
<1> QED
  BY <1>1, <1>2 DEF Init, IInv, LogFits, HistoryFits, HistoryIsTrue

\* Every step keeps the invariant.
LEMMA NextPreserves ==
  ASSUME IInv, [Next]_vars PROVE IInv'
PROOF
<1>1. ASSUME NEW r \in Requests, Acts(r), failures' \in 0 .. MaxFailures
      PROVE  IInv'
  BY <1>1, StepKeepsTypes, OthersKnow, SelfKnows, StepKeepsLogs DEF IInv
<1>2. CASE Normal
  <2>1. failures' \in 0 .. MaxFailures \/ ~(\E r \in Requests : Step(r))
    BY DEF IInv, TypeOK, Step, Receive, ReadClock, Verify, MarkUsed, Parse, RecordRevision,
           Apply, Record
  <2> QED
    BY <1>1, <1>2, <2>1, Surroundings DEF Normal, Acts
<1>3. CASE Failure
  <2>1. failures \in 0 .. MaxFailures
    BY DEF IInv, TypeOK
  <2>2. failures' \in 0 .. MaxFailures
    BY <1>3, <2>1, WebhookConstants DEF Failure
  <2> QED
    BY <1>1, <1>3, <2>2 DEF Failure, Acts
<1>4. CASE UNCHANGED vars
  BY <1>4 DEF vars, IInv, TypeOK, Knows, Handling, Outcome, Recorded, Trace, Near, LogFits,
              HistoryFits, HistoryIsTrue
<1> QED
  BY <1>2, <1>3, <1>4 DEF Next

-----------------------------------------------------------------------------
(* Nothing is left out *)

\* As long as nothing failed no request is cancelled, and one that has ended
\* has its row.
CompleteInv ==
  failures = 0 => \A r \in Requests :
                     /\ ~loc[r].cancelled
                     /\ pc[r] = "ended" => \E d \in history : d.by = r

\* A step of r other than a failure leaves it as cancelled as it was, and ends
\* it only by inserting its row.
LEMMA StepRecords ==
  ASSUME IInv, NEW r \in Requests, Step(r), ~loc[r].cancelled
  PROVE  /\ ~loc'[r].cancelled
         /\ pc'[r] = "ended" => \E d \in history' : d.by = r
PROOF
<1> USE DEF Goto, Respond
<1>1. /\ pc \in [Requests -> Steps] /\ loc \in [Requests -> Locals]
  BY DEF IInv, TypeOK
<1>2. CASE \E m \in sent : Receive(r, m)
  <2>1. PICK m \in sent : Receive(r, m)
    BY <1>2
  <2> DEFINE l == [NoLocals EXCEPT !.msg = m,
                     !.since = IF source = NULL THEN {} ELSE {source.secret}]
  <2>2. l.cancelled = FALSE /\ [l EXCEPT !.status = "bad_request"].cancelled = FALSE
    BY DEF NoLocals
  <2>3. /\ pc'[r] \in {"record", "clock"}
        /\ \/ loc' = [loc EXCEPT ![r] = l]
           \/ loc' = [loc EXCEPT ![r] = [l EXCEPT !.status = "bad_request"]]
    BY <1>1, <2>1 DEF Receive
  <2> HIDE DEF l
  <2> QED
    BY <1>1, <2>2, <2>3
<1>3. CASE ReadClock(r) \/ Verify(r) \/ MarkUsed(r) \/ Parse(r)
  BY <1>1, <1>3 DEF ReadClock, Verify, AfterVerify, MarkUsed, Parse, Locals
<1>4. CASE RecordRevision(r) \/ Apply(r)
  BY <1>1, <1>4 DEF RecordRevision, Apply, DeployError, Locals
<1>5. CASE Record(r)
  <2>1. history' = history \union Rows(r) /\ loc' = loc
    BY <1>5 DEF Record
  <2>2. PICK row \in Rows(r) : row.by = r
    BY DEF Rows
  <2> QED
    BY <2>1, <2>2
<1> QED
  BY <1>2, <1>3, <1>4, <1>5 DEF Step

LEMMA CompleteInductive ==
  ASSUME IInv, CompleteInv, [Next]_vars
  PROVE  CompleteInv'
PROOF
<1> SUFFICES ASSUME failures' = 0, NEW r \in Requests
             PROVE  /\ ~loc'[r].cancelled
                    /\ pc'[r] = "ended" => \E d \in history' : d.by = r
  BY DEF CompleteInv
<1>1. CASE Failure
  <2>1. failures \in Nat /\ failures' = failures + 1
    BY <1>1, WebhookConstants DEF Failure, IInv, TypeOK
  <2> QED
    BY <2>1
<1>2. ASSUME NEW q \in Requests, Step(q)
      PROVE  /\ ~loc'[r].cancelled
             /\ pc'[r] = "ended" => \E d \in history' : d.by = r
  <2>1. failures = 0
    BY <1>2 DEF Step, Receive, ReadClock, Verify, MarkUsed, Parse,
                RecordRevision, Apply, Record
  <2>2. CASE q = r
    BY <1>2, <2>1, <2>2, StepRecords DEF CompleteInv
  <2>3. CASE q # r
    BY <1>2, <2>1, <2>3, StepFrame DEF CompleteInv, Acts
  <2> QED
    BY <2>2, <2>3
<1>3. CASE \E k \in Secrets : Create(k)
  <2>1. /\ pc' = pc /\ history' = history /\ failures' = failures
        /\ loc'[r].cancelled = loc[r].cancelled
    BY <1>3 DEF Create, effects, IInv, TypeOK, Locals
  <2> QED
    BY <2>1 DEF CompleteInv
<1>4. CASE \/ Delete
           \/ \E p \in Payloads, k \in Secrets, t \in 1 .. MaxTime + Drift : Sign(p, k, t)
           \/ Tick
  BY <1>4 DEF Delete, Sign, Tick, effects, CompleteInv
<1>5. CASE UNCHANGED vars
  BY <1>5 DEF vars, CompleteInv
<1> QED
  BY <1>1, <1>2, <1>3, <1>4, <1>5 DEF Next, Normal

-----------------------------------------------------------------------------
(* What follows from the invariants *)

\* verify: removing a source takes effect for every request that comes in
\* afterwards; a revision is signed with a secret the source has had since its
\* request came in, however requests, removals and failures interleave.
THEOREM RevocationHolds == Spec => [](TypeOK /\ RevokedIsRefused)
PROOF
<1>1. IInv => TypeOK /\ RevokedIsRefused
  BY DEF IInv, LogFits, RevokedIsRefused
<1> QED
  BY <1>1, InitEstablishes, NextPreserves, PTL DEF Spec

\* MaxClockSkew is all that keeps a delivery from being replayed: two
\* deployments of one signed request lie within twice the skew of each other.
THEOREM ReplaysExpire == Spec => []DuplicatesExpire
PROOF
<1>1. IInv => DuplicatesExpire
  <2> SUFFICES ASSUME IInv, NEW i \in DOMAIN revisions, NEW j \in DOMAIN revisions,
                      revisions[i].msg = revisions[j].msg
               PROVE  revisions[i].checked - revisions[j].checked <= 2 * Skew
    BY DEF DuplicatesExpire
  <2>1. /\ revisions[i].checked \in Int /\ revisions[j].checked \in Int
        /\ revisions[i].msg.timestamp \in Int /\ Skew \in Int
    BY RevisionsTyped, WebhookConstants DEF Messages
  <2> QED
    BY <2>1 DEF IInv, LogFits, Near
<1> QED
  BY <1>1, InitEstablishes, NextPreserves, PTL DEF Spec

\* record: an accepted delivery was deployed as the revision it names, a
\* refused one left no revision, and as long as nothing fails every request
\* that was handled has its row.
THEOREM HistoryIsKept == Spec => []HistoryIsExact
PROOF
<1>1. Init => CompleteInv
  BY DEF Init, CompleteInv, NoLocals
<1>2. IInv /\ CompleteInv => HistoryIsExact
  BY DEF IInv, HistoryFits, CompleteInv, HistoryIsExact, EveryRequestRecorded
<1> QED
  BY <1>1, <1>2, CompleteInductive, InitEstablishes, NextPreserves, PTL DEF Spec

-----------------------------------------------------------------------------
(* Calls: the answer that is heard *)

\* A non-empty set of numbers has a least one.
LEMMA Leasts ==
  ASSUME NEW T \in SUBSET Nat, T # {}
  PROVE  \E k \in T : \A i \in T : ~(i < k)
<1>1. \E k \in T : \A i \in T : ~ (<<i, k>> \in OpToRel(<, Nat))
  BY NatLessThanWellFounded, WFMin, Zenon
<1> QED
  BY <1>1 DEF OpToRel


\* What a reply says is what the service returned.
LEMMA AnswerFits ==
  ASSUME NEW r \in Resources, NEW e, NEW n
  PROVE  LET reply == Answer(r, e, n) IN
         /\ reply.status = 200 => e = "ok"
         /\ reply.status = 404 => e \in {"missing", "version"}
         /\ reply.status = 409 => \/ e = "exists"
                                  \/ e = "edge" /\ reply.words = {"edge", "user"}
                                  \/ e = "self" /\ reply.words = {"authenticated"}
<1>1. CASE r = "config"
  BY <1>1 DEF Answer, ConfigReply, Reply
<1>2. CASE r = "secret"
  BY <1>2 DEF Answer, SecretReply, Reply
<1>3. CASE r = "key"
  BY <1>3 DEF Answer, KeyReply, Reply
<1>4. CASE r = "webhook"
  BY <1>4 DEF Answer, WebhookReply, Reply
<1>5. CASE r = "service"
  BY <1>5 DEF Answer, ServiceReply, Reply
<1>6. CASE r = "stack"
  BY <1>6 DEF Answer, StackReply, Reply
<1>7. CASE r = "backup"
  BY <1>7 DEF Answer, BackupReply, Reply
<1>8. CASE r = "host"
  BY <1>8 DEF Answer, HostReply, Reply
<1> QED
  BY <1>1, <1>2, <1>3, <1>4, <1>5, <1>6, <1>7, <1>8 DEF Resources

Hit(i, reply) == Mapping[i][1] = reply.status /\ Mapping[i][2] \cap reply.words # {}

\* What a row of the table turns a status into.
LEMMA MappingFits ==
  ASSUME NEW i \in 1 .. 12
  PROVE  \/ Mapping[i][1] = 404 /\ Mapping[i][3][2] \in {"missing", "version"}
         \/ /\ Mapping[i][1] = 409 /\ Mapping[i][3][2] = "exists"
            /\ Mapping[i][2] \in {{"webhook"}, {"config"}, {"secret"}}
         \/ Mapping[i][1] = 409 /\ Mapping[i][3][2] \in {"edge", "self"}
<1>1. CASE i = 1
  BY <1>1 DEF Mapping
<1>2. CASE i = 2
  BY <1>2 DEF Mapping
<1>3. CASE i = 3
  BY <1>3 DEF Mapping
<1>4. CASE i = 4
  BY <1>4 DEF Mapping
<1>5. CASE i = 5
  BY <1>5 DEF Mapping
<1>6. CASE i = 6
  BY <1>6 DEF Mapping
<1>7. CASE i = 7
  BY <1>7 DEF Mapping
<1>8. CASE i = 8
  BY <1>8 DEF Mapping
<1>9. CASE i = 9
  BY <1>9 DEF Mapping
<1>10. CASE i = 10
  BY <1>10 DEF Mapping
<1>11. CASE i = 11
  BY <1>11 DEF Mapping
<1>12. CASE i = 12
  BY <1>12 DEF Mapping
<1> QED
  BY <1>1, <1>2, <1>3, <1>4, <1>5, <1>6, <1>7, <1>8, <1>9, <1>10, <1>11, <1>12

\* The first row that hits is one of the table, and one of the reply's status and words.
LEMMA MapErrorFits ==
  ASSUME NEW reply
  PROVE  LET told == MapError(reply)[2] IN
         \/ told \in {"unconfigured", "error"}
         \/ reply.status = 404 /\ told \in {"missing", "version"}
         \/ /\ reply.status = 409 /\ told = "exists"
            /\ reply.words \cap {"webhook", "config", "secret"} # {}
         \/ reply.status = 409 /\ told \in {"edge", "self"}
<1> DEFINE hits == {i \in DOMAIN Mapping : Mapping[i][1] = reply.status /\ Mapping[i][2] \cap reply.words # {}}
<1>0. DOMAIN Mapping = 1 .. 12
  BY DEF Mapping
<1>1. CASE hits = {}
  <2>1. MapError(reply) \in {<<"backup", "unconfigured">>, <<"any", "error">>}
    BY <1>1 DEF MapError
  <2> QED
    BY <2>1
<1>2. CASE hits # {}
  <2>1. PICK k \in hits : \A j \in hits : k <= j
    <3>1. hits \in SUBSET Nat
      BY <1>0
    <3>2. \E k \in hits : \A j \in hits : ~(j < k)
      <4> HIDE DEF hits
      <4> QED
        BY <1>2, <3>1, Leasts
    <3> HIDE DEF hits
    <3> QED
      BY <3>1, <3>2
  <2> DEFINE i == CHOOSE x \in hits : \A j \in hits : x <= j
  <2>2. i \in hits
    <3> HIDE DEF hits
    <3> QED
      BY <2>1
  <2>3. MapError(reply) = Mapping[i][3]
    <3>1. MapError(reply) = CASE hits # {} -> Mapping[i][3]
                              [] reply.status = 503 -> <<"backup", "unconfigured">>
                              [] OTHER -> <<"any", "error">>
      BY DEF MapError
    <3>2. reply.status = 404 \/ reply.status = 409
      <4>1. i \in 1 .. 12 /\ Mapping[i][1] = reply.status
        <5> HIDE DEF i
        <5> QED
          BY <1>0, <2>2
      <4> HIDE DEF i
      <4> QED
        BY <4>1, MappingFits
    <3> HIDE DEF hits, i
    <3> QED
      BY <1>2, <3>1, <3>2
  <2>4. i \in 1 .. 12 /\ Mapping[i][1] = reply.status /\ Mapping[i][2] \cap reply.words # {}
    <3> HIDE DEF i
    <3> QED
      BY <1>0, <2>2
  <2> HIDE DEF i, hits
  <2> QED
    BY <2>3, <2>4, MappingFits
<1> QED
  BY <1>1, <1>2

\* Whatever words a name holds: the caller hears nothing, or what is true of the result.
LEMMA AnswersAreTrue ==
  ASSUME NEW f, NEW r \in Resources, NEW e, NEW n
  PROVE  Told(FromReply(f, r, Answer(r, e, n))[2]) \in Port!Truths(Class(e))
<1> DEFINE reply == Answer(r, e, n)
           told  == FromReply(f, r, reply)[2]
<1>1. \/ reply.status = 200 /\ told = "ok"
      \/ told = "error"
      \/ told = MapError(reply)[2]
  BY DEF FromReply
<1>2. \/ told \in {"unconfigured", "error"}
      \/ told = "ok" /\ e = "ok"
      \/ told \in {"missing", "version"} /\ e \in {"missing", "version"}
      \/ told = "exists" /\ e = "exists"
      \/ told \in {"edge", "self"} /\ e \in {"exists", "edge", "self"}
  <2> HIDE DEF reply, told
  <2>1. /\ reply.status = 200 => e = "ok"
        /\ reply.status = 404 => e \in {"missing", "version"}
        /\ reply.status = 409 => \/ e = "exists"
                                 \/ e = "edge" /\ reply.words = {"edge", "user"}
                                 \/ e = "self" /\ reply.words = {"authenticated"}
    BY AnswerFits DEF reply
  <2> QED
    BY <1>1, <2>1, MapErrorFits
<1> HIDE DEF told
<1>3. Told(told) \in Port!Truths(Class(e))
  BY <1>2 DEF Told, Class, Port!Truths
<1> QED
  BY <1>3 DEF told

-----------------------------------------------------------------------------
(* Calls: the inductive invariant and the simulation *)

CallInv ==
  /\ res \in Resources /\ rows = [n \in Names |-> rows[n]]
  /\ at \in [Callers -> {"idle", "sent", "served"}]
  /\ call = [c \in Callers |-> call[c]] /\ \A c \in Callers : call[c].name \in Names
  /\ err = [c \in Callers |-> err[c]] /\ heard = [c \in Callers |-> heard[c]]
  /\ late = [c \in Callers |-> late[c]] /\ \A c \in Callers : \A k \in late[c] : k.name \in Names

LEMMA CallInitEstablishes == CallInit => CallInv /\ Port!Init
<1> SUFFICES ASSUME CallInit PROVE CallInv /\ Port!Init
  OBVIOUS
<1>1. CallInv
  BY CallConstants DEF CallInit, CallInv, Nothing
<1>2. Present \in SUBSET Names
  BY DEF Present
<1>3. State = [c \in Callers |-> "idle"]
  BY DEF CallInit, State, StateOf
<1>4. Target \in [Callers -> Names]
  BY <1>1 DEF CallInv, Target
<1>5. Result = [c \in Callers |-> "failed"] /\ Heard = [c \in Callers |-> "error"]
  BY DEF CallInit, Result, Heard, Class, Told
<1>6. Pending = [c \in Callers |-> {}]
  BY DEF CallInit, Pending
<1> QED
  BY <1>1, <1>2, <1>3, <1>4, <1>5, <1>6 DEF Port!Init

\* The end of a call in the abstract specification.
LEMMA DoneIs ==
  ASSUME CallInv, NEW c \in Callers, NEW x, Done(c, x)
  PROVE  /\ late' = late => CallInv' /\ Pending' = Pending
         /\ late' = [late EXCEPT ![c] = {call[c]}] =>
              CallInv' /\ Pending' = [Pending EXCEPT ![c] = {Target[c]}]
         /\ Port!Forget(c)
         /\ State' = [State EXCEPT ![c] = "idle"]
         /\ Heard' = [Heard EXCEPT ![c] = Told(x[2])]
         /\ x = heard[c] => Heard' = Heard
<1>1. /\ at' = [at EXCEPT ![c] = "idle"] /\ heard' = [heard EXCEPT ![c] = x]
      /\ call' = [call EXCEPT ![c] = Nothing] /\ err' = [err EXCEPT ![c] = "failed"]
      /\ res' = res /\ rows' = rows
  BY DEF Done, To
<1>2. Nothing.name \in Names
  BY CallConstants DEF Nothing
<1>3. ASSUME late' = late PROVE CallInv' /\ Pending' = Pending
  BY <1>1, <1>2, <1>3 DEF CallInv, Pending
<1>10. ASSUME late' = [late EXCEPT ![c] = {call[c]}]
      PROVE  CallInv' /\ Pending' = [Pending EXCEPT ![c] = {Target[c]}]
  <2>1. CallInv'
    BY <1>1, <1>2, <1>10 DEF CallInv
  <2>2. Target[c] = call[c].name
    BY DEF Target
  <2>3. \A d \in Callers : {k.name : k \in late'[d]} = IF d = c THEN {Target[c]} ELSE {k.name : k \in late[d]}
    BY <1>10, <2>2 DEF CallInv
  <2> QED
    BY <2>1, <2>3 DEF Pending
<1>4. State' = [State EXCEPT ![c] = "idle"]
  BY <1>1 DEF CallInv, State, StateOf
<1>5. Heard' = [Heard EXCEPT ![c] = Told(x[2])]
  BY <1>1 DEF CallInv, Heard
<1>6. Target' = [Target EXCEPT ![c] = Nothing.name]
  BY <1>1 DEF CallInv, Target
<1>7. Result' = [Result EXCEPT ![c] = "failed"]
  BY <1>1 DEF CallInv, Result, Class
<1>8. Present' = Present
  BY <1>1 DEF Present
<1>9. ASSUME x = heard[c] PROVE Heard' = Heard
  <2>1. heard' = heard
    BY <1>1, <1>9 DEF CallInv
  <2> QED
    BY <2>1 DEF Heard
<1> QED
  BY <1>2, <1>3, <1>4, <1>5, <1>6, <1>7, <1>8, <1>9, <1>10 DEF Port!Forget

LEMMA AskStep ==
  ASSUME CallInv, NEW c \in Callers, Ask(c)
  PROVE  CallInv' /\ Port!Open(c)
<1>1. PICK n \in Names : \E m :
        /\ m.name = n /\ call' = [call EXCEPT ![c] = m]
        /\ at[c] = "idle" /\ at' = [at EXCEPT ![c] = "sent"]
        /\ heard' = [heard EXCEPT ![c] = <<"any", "error">>] /\ UNCHANGED <<res, rows, err, late>>
  <2>1. PICK f \in Fronts : \E v \in DOMAIN Checks(f, res), n \in Names :
             \E d \in (Slots(res, v) \ Checks(f, res)[v]) \union {"none"} :
               call' = [call EXCEPT ![c] = [front |-> f, verb |-> v, name |-> n, defect |-> d]]
    BY DEF Ask
  <2>2. PICK n \in Names : \E v, d :
               call' = [call EXCEPT ![c] = [front |-> f, verb |-> v, name |-> n, defect |-> d]]
    BY <2>1
  <2>3. \A v, d : [front |-> f, verb |-> v, name |-> n, defect |-> d].name = n
    OBVIOUS
  <2> QED
    BY <2>2, <2>3 DEF Ask, To
<1>2. CallInv'
  BY <1>1 DEF CallInv
<1>3. State[c] = "idle" /\ State' = [State EXCEPT ![c] = "open"]
  BY <1>1 DEF CallInv, State, StateOf
<1>4. Target' = [Target EXCEPT ![c] = n]
  BY <1>1 DEF CallInv, Target
<1>5. Heard' = [Heard EXCEPT ![c] = "error"]
  <2>1. Told(<<"any", "error">>[2]) = "error"
    BY DEF Told, Class
  <2>2. Heard' = [Heard EXCEPT ![c] = Told(<<"any", "error">>[2])]
    BY <1>1 DEF CallInv, Heard
  <2> QED
    BY <2>1, <2>2
<1>6. Present' = Present /\ Result' = Result /\ Pending' = Pending
  BY <1>1 DEF Present, Result, Pending
<1> QED
  BY <1>2, <1>3, <1>4, <1>5, <1>6 DEF Port!Open

LEMMA CloseStep ==
  ASSUME CallInv, NEW c \in Callers, at[c] = "sent", Over(c, heard[c])
  PROVE  CallInv' /\ Port!Close(c)
<1>1. State[c] = "open" /\ Done(c, heard[c]) /\ late' = late
  BY DEF State, StateOf, Over
<1> QED
  BY <1>1, DoneIs DEF Port!Close

LEMMA GiveUpStep ==
  ASSUME CallInv, NEW c \in Callers, GiveUp(c)
  PROVE  CallInv' /\ Port!Abandon(c)
<1>1. State[c] = "open" /\ Done(c, heard[c]) /\ late' = [late EXCEPT ![c] = {call[c]}]
  BY DEF State, StateOf, GiveUp
<1> QED
  BY <1>1, DoneIs DEF Port!Abandon

\* What a call may write is the row of its name.
LEMMA WrittenIs ==
  ASSUME CallInv, NEW k, k.name \in Names, NEW e, rows' \in After(k, e)
  PROVE  /\ rows' = [n \in Names |-> rows'[n]]
         /\ Present' \in Port!Moves(k.name)
         /\ e \notin {"ok", "failed"} => rows' = rows
<1> DEFINE n == k.name
<1>1. rows' = rows \/ (e \in {"ok", "failed"} /\ rows' = Written(k))
  BY DEF After
<1>2. Written(k) = rows \/ \E d : Written(k) = [rows EXCEPT ![n] = d]
  <2> DEFINE d == k.defect
  <2>1. \/ Written(k) = rows
        \/ Written(k) = [rows EXCEPT ![n] = IF d = "none" THEN "fine" ELSE d]
        \/ Written(k) = [rows EXCEPT ![n] = "absent"]
        \/ Written(k) = [rows EXCEPT ![n] = d]
    BY DEF Written
  <2> QED
    BY <2>1
<1>3. rows' = rows \/ \E d : rows' = [rows EXCEPT ![n] = d]
  BY <1>1, <1>2
<1>4. Present' \in {Present, Present \union {n}, Present \ {n}}
  BY <1>3 DEF CallInv, Present
<1>5. rows' = [m \in Names |-> rows'[m]]
  BY <1>3 DEF CallInv
<1> QED
  BY <1>1, <1>4, <1>5 DEF Port!Moves

\* The call nobody waits for writes the row of its name, or nothing, and is over.
LEMMA ServeLateStep ==
  ASSUME CallInv, NEW c \in Callers, ServeLate(c)
  PROVE  CallInv' /\ Port!ActLate(c)
<1>1. PICK k \in late[c] : \E e \in Outcomes(k) : rows' \in After(k, e) \union {rows}
  BY DEF ServeLate
<1>2. late' = [late EXCEPT ![c] = {}] /\ UNCHANGED <<res, at, call, err, heard>>
  BY DEF ServeLate
<1>3. k.name \in Names /\ k.name \in Pending[c]
  BY <1>1 DEF CallInv, Pending
<1>4. rows' = [n \in Names |-> rows'[n]] /\ Present' \in Port!Moves(k.name)
  <2>1. CASE rows' = rows
    BY <2>1 DEF CallInv, Present, Port!Moves
  <2>2. CASE rows' # rows
    <3>1. PICK e \in Outcomes(k) : rows' \in After(k, e)
      BY <1>1, <2>2
    <3> QED
      BY <1>3, <3>1, WrittenIs
  <2> QED
    BY <2>1, <2>2
<1>5. CallInv'
  BY <1>2, <1>4 DEF CallInv
<1>6. Pending' = [Pending EXCEPT ![c] = {}]
  <2>1. \A d \in Callers : {m.name : m \in late'[d]} = IF d = c THEN {} ELSE {m.name : m \in late[d]}
    BY <1>2 DEF CallInv
  <2> QED
    BY <2>1 DEF Pending
<1>7. UNCHANGED <<State, Target, Result, Heard>>
  BY <1>2 DEF State, Target, Result, Heard
<1> QED
  BY <1>3, <1>4, <1>5, <1>6, <1>7 DEF Port!ActLate

\* The service acts on the row of its name alone, and refuses only what is there.
LEMMA ServeStep ==
  ASSUME CallInv, NEW c \in Callers, Serve(c)
  PROVE  CallInv' /\ Port!Act(c)
<1> DEFINE n == call[c].name
<1>1. PICK e \in Outcomes(call[c]) : /\ err' = [err EXCEPT ![c] = e] /\ rows' \in After(call[c], e)
                               /\ at[c] = "sent" /\ at' = [at EXCEPT ![c] = "served"]
                               /\ UNCHANGED <<res, call, heard, late>>
  BY DEF Serve, To
<1>2. e \in {"ok", "failed", "unconfigured", "missing", "version", "exists", "edge", "self"}
      /\ (e \in {"exists", "edge", "self"} => rows[n] # "absent")
  BY DEF Outcomes
<1>3. /\ rows' = [m \in Names |-> rows'[m]] /\ Present' \in Port!Moves(n)
      /\ e \notin {"ok", "failed"} => rows' = rows
  BY <1>1, WrittenIs DEF CallInv
<1>5. CallInv'
  BY <1>1, <1>3 DEF CallInv
<1>6. Pending' = Pending
  BY <1>1 DEF Pending
<1>7. State[c] = "open" /\ State' = [State EXCEPT ![c] = "acted"] /\ Target' = Target /\ Heard' = Heard
  BY <1>1 DEF CallInv, State, StateOf, Target, Heard
<1>8. Result' = [Result EXCEPT ![c] = Class(e)] /\ Target[c] = n /\ n \in Names
  BY <1>1 DEF CallInv, Result, Target
<1>9. CASE e \in {"ok", "failed", "unconfigured"}
  <2>1. Class(e) \in {"ok", "failed"}
    BY <1>9 DEF Class
  <2> QED
    BY <1>3, <1>5, <1>6, <1>7, <1>8, <2>1 DEF Port!Act
<1>10. CASE e \in {"missing", "version"}
  <2>1. Class(e) = "missing" /\ Present' = Present
    BY <1>3, <1>10 DEF Class, Present
  <2> QED
    BY <1>5, <1>6, <1>7, <1>8, <2>1 DEF Port!Act
<1>11. CASE e \in {"exists", "edge", "self"}
  <2>1. Class(e) \in {"exists", "refused"} /\ Present' = Present /\ n \in Present
    BY <1>2, <1>3, <1>8, <1>11 DEF Class, Present
  <2> QED
    BY <1>5, <1>6, <1>7, <1>8, <2>1 DEF Port!Act
<1> QED
  BY <1>2, <1>9, <1>10, <1>11

\* What the client returns is what the service did, or nothing that says so.
LEMMA HearStep ==
  ASSUME CallInv, NEW c \in Callers, Return(c) \/ Lose(c)
  PROVE  CallInv' /\ Port!Hear(c)
<1>1. at[c] = "served" /\ State[c] = "acted"
  BY DEF Return, Lose, State, StateOf
<1>2. CASE Lose(c)
  <2>1. Done(c, heard[c]) /\ late' = late
    BY <1>2 DEF Lose, Over
  <2> QED
    BY <1>1, <2>1, DoneIs DEF Port!Hear
<1>3. CASE Return(c)
  <2>1. PICK x : Done(c, x) /\ late' = late /\ Told(x[2]) \in Port!Truths(Class(err[c]))
    <3>1. CASE call[c].front = "local"
      <4>1. Told(err[c]) \in Port!Truths(Class(err[c]))
        BY DEF Told, Class, Port!Truths
      <4> QED
        BY <1>3, <3>1, <4>1 DEF Return, Over
    <3>2. CASE call[c].front # "local"
      BY <1>3, <3>2, AnswersAreTrue DEF Return, Over, CallInv
    <3> QED
      BY <3>1, <3>2
  <2>2. Result[c] = Class(err[c])
    BY DEF Result
  <2> QED
    BY <1>1, <2>1, <2>2, DoneIs DEF Port!Hear
<1> QED
  BY <1>2, <1>3

\* Behind any of the front ends, for any callers, names and words in them: a call acts
\* at most once and at one instant, after which alone its caller hears anything but an
\* error (a client that gives up, at 15 or 30 s, may leave its call on its way), and what
\* the caller is told is true (mapError, the handlers, the clients).
THEOREM CallsAreTrue == CallSpec => ImplementsPort
<1>1. CallInv /\ [CallNext]_callVars => CallInv' /\ [Port!Next]_(Port!vars)
  <2> SUFFICES ASSUME CallInv, [CallNext]_callVars PROVE CallInv' /\ [Port!Next]_(Port!vars)
    OBVIOUS
  <2>1. CASE UNCHANGED callVars
    BY <2>1 DEF callVars, CallInv, Port!vars, Present, State, Target, Result, Heard, Pending
  <2>2. ASSUME NEW c \in Callers, Limit(c) \/ Unauthorized(c) \/ Decline(c)
        PROVE  CallInv' /\ Port!Close(c)
    BY <2>2, CloseStep DEF Limit, Unauthorized, Decline
  <2> QED
    BY <2>1, <2>2, AskStep, ServeStep, HearStep, GiveUpStep, ServeLateStep DEF CallNext, Port!Next
<1> QED
  BY <1>1, CallInitEstablishes, PTL DEF CallSpec, ImplementsPort, Port!Spec
=============================================================================
