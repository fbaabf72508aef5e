----------------------------- MODULE HostsProofs -----------------------------
(***************************************************************************)
(* What runs around the stacks.  Workloads: what the commands and calls    *)
(* that run side by side leave of the services of a stack, for any stacks, *)
(* names, commands and numbers of attempts: a deployment that nothing      *)
(* rivals is whole when it reports success, a call reaches no other stack, *)
(* a restart brings nothing back.  EdgeShield: whom the edge holds a       *)
(* request against, how often it lets an address through and whom it bans, *)
(* for any requests, addresses, headers, rates, bursts and thresholds.     *)
(***************************************************************************)
EXTENDS EdgeShield, Workloads, FiniteSetTheorems, TLAPS

-----------------------------------------------------------------------------
(* The services: the inductive invariant *)

Knowledge   == {"none", "fresh", "stale", "gone"}
Jobs        == [stack : Stacks \union {NULL}, declared : SUBSET Names, spec : Specs \union {NULL},
                todo : SUBSET Names, know : [Names -> Knowledge], tries : Nat, alone : BOOLEAN]
DeploySteps == {"list", "apply", "listLeft", "prune", "listForce", "force", "push"}
CallSteps   == {"resolved", "restart"}
Steps       == {"idle", "listAll", "remove"} \union DeploySteps \union CallSteps

\* The services, the commands and what is remembered of them are of the right shape.
WorkTypeOK ==
  /\ services \in [Names -> Services \union {NULL}]
  /\ at \in [Commands -> Steps]
  /\ job \in [Commands -> Jobs]
  /\ whole \in [Stacks -> Wholes \union {NULL}] /\ begun \in Nat

\* A command is about the names of its stack.
JobOK(c) ==
  /\ c \in Operators => at[c] \in {"idle"} \union CallSteps
  /\ c \in Deployers => at[c] \notin CallSteps
  /\ at[c] # "idle" => job[c].stack \in Stacks /\ job[c].todo \subseteq Nameable[job[c].stack]
  /\ at[c] \in DeploySteps =>
       /\ job[c].declared # {} /\ job[c].declared \subseteq Nameable[job[c].stack]
       /\ job[c].spec \in Specs
  /\ at[c] = "prune" => job[c].todo \intersect job[c].declared = {}
  /\ at[c] = "restart" => job[c].spec \in Specs

\* What a command knows of service n: as long as the service has not gone, it is the
\* one that was read, in the stack of the command; and read for a restart, and not
\* modified since, it runs what was read.
KnowOK(c, n) ==
  /\ at[c] = "idle" => job[c].know[n] = "none"
  /\ job[c].know[n] \in {"fresh", "stale"} =>
       services[n] # NULL /\ (at[c] \notin {"force", "push"} => services[n].stack = job[c].stack)
  /\ at[c] = "resolved" /\ n \in job[c].todo => job[c].know[n] # "none"
  /\ at[c] = "restart" /\ n \in job[c].todo /\ job[c].know[n] = "fresh" =>
       services[n].spec = job[c].spec

Named == \A n \in Names : services[n] # NULL => n \in Nameable[services[n].stack]

\* How far a deployment is that has shared its names with no other command.
Made(d, n) == /\ services[n] # NULL
              /\ services[n].stack = job[d].stack /\ services[n].spec = job[d].spec
Progress(d) ==
  job[d].alone =>
    /\ at[d] = "apply" => \A n \in job[d].declared \ job[d].todo : Made(d, n)
    /\ at[d] \in {"listLeft", "prune", "listForce", "force", "push"} =>
         \A n \in job[d].declared : Made(d, n)
    /\ at[d] = "prune" => Live(job[d].stack) \ job[d].declared \subseteq job[d].todo
    /\ at[d] \in {"listForce", "force", "push"} => Live(job[d].stack) \subseteq job[d].declared

Busy(d) == at[d] # "idle"
Apart(d, e) ==
  d # e /\ Busy(d) /\ Busy(e) /\ job[d].alone => ~Rivals(job[d].stack, job[e].stack)
Undisputed(s, e) == whole[s] # NULL /\ Busy(e) => ~Rivals(s, job[e].stack)

WorkInv ==
  /\ WorkTypeOK /\ Named
  /\ \A c \in Commands : JobOK(c) /\ \A n \in Names : KnowOK(c, n)
  /\ \A d, e \in Deployers : Apart(d, e)
  /\ \A s \in Stacks, e \in Deployers : Undisputed(s, e)
  /\ \A d \in Deployers : Progress(d)
  /\ \A s \in Stacks : whole[s] # NULL => Nameable[s] # {}
  /\ DeployedIsWhole

-----------------------------------------------------------------------------
(* What the steps are made of *)

LEMMA NoJobType ==
  /\ NoJob \in Jobs /\ ~NoJob.alone /\ NoJob.todo = {}
  /\ \A n \in Names : NoJob.know[n] = "none"
  BY DEF NoJob, Jobs, None, Knowledge

\* A step of command c that touches no service.
LEMMA GoToEffect ==
  ASSUME WorkTypeOK, NEW c \in Commands, NEW step, NEW j \in Jobs, GoTo(c, step, j)
  PROVE  /\ UNCHANGED <<services, whole, begun>>
         /\ at'[c] = step /\ job'[c] = j /\ job' \in [Commands -> Jobs]
         /\ \A e \in Commands \ {c} : at'[e] = at[e] /\ job'[e] = job[e]
         /\ at' = [at EXCEPT ![c] = step]
  BY DEF GoTo, WorkTypeOK

LEMMA OverEffect ==
  ASSUME WorkTypeOK, NEW c \in Commands, Over(c)
  PROVE  /\ UNCHANGED <<services, whole, begun>>
         /\ at'[c] = "idle" /\ job'[c] = NoJob /\ job' \in [Commands -> Jobs]
         /\ \A e \in Commands \ {c} : at'[e] = at[e] /\ job'[e] = job[e]
         /\ at' = [at EXCEPT ![c] = "idle"]
  BY GoToEffect, NoJobType DEF Over

\* Only what a command knows of the service that changes becomes out of date.
LEMMA OutdatedEffect ==
  ASSUME NEW know \in [Names -> Knowledge], NEW n \in Names, NEW is
  PROVE  /\ Outdated(know, n, is) \in [Names -> Knowledge]
         /\ \A m \in Names \ {n} : Outdated(know, n, is)[m] = know[m]
         /\ Outdated(know, n, is)[n] # "fresh"
         /\ Outdated(know, n, is)[n] = "none" <=> know[n] = "none"
         /\ Outdated(know, n, is)[n] = "stale" => is # NULL /\ know[n] \in {"fresh", "stale"}
  BY DEF Outdated, Knowledge

\* A step of command c that changes service n.
LEMMA ChangeEffect ==
  ASSUME WorkTypeOK, NEW c \in Commands, NEW n \in Names, NEW is, NEW step, NEW j \in Jobs,
         Change(c, n, is, step, j)
  PROVE  /\ services' = [services EXCEPT ![n] = is] /\ UNCHANGED <<whole, begun>>
         /\ at'[c] = step /\ \A e \in Commands \ {c} : at'[e] = at[e]
         /\ at' = [at EXCEPT ![c] = step]
         /\ job' \in [Commands -> Jobs]
         /\ \A e \in Commands : \E k \in Jobs :
              /\ k = IF e = c THEN j ELSE job[e]
              /\ job'[e].stack = k.stack /\ job'[e].declared = k.declared
              /\ job'[e].spec = k.spec /\ job'[e].todo = k.todo /\ job'[e].alone = k.alone
              /\ \A m \in Names \ {n} : job'[e].know[m] = k.know[m]
              /\ job'[e].know[n] # "fresh"
              /\ job'[e].know[n] = "none" <=> k.know[n] = "none"
              /\ job'[e].know[n] = "stale" => is # NULL /\ k.know[n] \in {"fresh", "stale"}
<1>1. services' = [services EXCEPT ![n] = is] /\ UNCHANGED <<whole, begun>>
      /\ at' = [at EXCEPT ![c] = step]
  BY DEF Change
<1>2. ASSUME NEW e \in Commands
      PROVE  \E k \in Jobs :
              /\ k = IF e = c THEN j ELSE job[e]
              /\ job'[e] \in Jobs
              /\ job'[e].stack = k.stack /\ job'[e].declared = k.declared
              /\ job'[e].spec = k.spec /\ job'[e].todo = k.todo /\ job'[e].alone = k.alone
              /\ \A m \in Names \ {n} : job'[e].know[m] = k.know[m]
              /\ job'[e].know[n] # "fresh"
              /\ job'[e].know[n] = "none" <=> k.know[n] = "none"
              /\ job'[e].know[n] = "stale" => is # NULL /\ k.know[n] \in {"fresh", "stale"}
  <2>1. PICK k \in Jobs : k = IF e = c THEN j ELSE job[e]
    BY DEF WorkTypeOK
  <2>2. job'[e] = [k EXCEPT !.know = Outdated(k.know, n, is)]
    BY <2>1 DEF Change
  <2>3. k.know \in [Names -> Knowledge]
    BY DEF Jobs
  <2> DEFINE know == Outdated(k.know, n, is)
  <2>4. /\ know \in [Names -> Knowledge]
        /\ \A m \in Names \ {n} : know[m] = k.know[m]
        /\ know[n] # "fresh"
        /\ know[n] = "none" <=> k.know[n] = "none"
        /\ know[n] = "stale" => is # NULL /\ k.know[n] \in {"fresh", "stale"}
    BY <2>3, OutdatedEffect
  <2> HIDE DEF know
  <2>5. job'[e] = [k EXCEPT !.know = know]
    BY <2>2 DEF know
  <2>6. job'[e] \in Jobs /\ job'[e].know = know
    BY <2>4, <2>5 DEF Jobs
  <2>7. QED
    BY <2>1, <2>4, <2>5, <2>6 DEF Jobs
<1>3. job' \in [Commands -> Jobs]
  <2>1. job' = [e \in Commands |-> job'[e]]
    BY DEF Change
  <2>2. QED
    BY <1>2, <2>1
<1>4. QED
  BY <1>1, <1>2, <1>3 DEF WorkTypeOK

-----------------------------------------------------------------------------
(* What a step leaves of the invariant *)

\* Command c goes on with j, or ends, without leaving its stack.
Goes(c, step, j) ==
  /\ step \in Steps /\ j \in Jobs
  /\ c \in Deployers =>
       step = "idle" \/ (Busy(c) /\ j.stack = job[c].stack /\ (j.alone => job[c].alone))

\* The commands other than c are as they were, and so are the services.
LEMMA OthersStay ==
  ASSUME WorkInv, NEW e \in Commands, at'[e] = at[e], job'[e] = job[e], UNCHANGED services
  PROVE  /\ JobOK(e)' /\ \A n \in Names : KnowOK(e, n)'
         /\ e \in Deployers => Progress(e)'
  BY DEF WorkInv, JobOK, KnowOK, Progress, Made, Live

LEMMA GoToKeeps ==
  ASSUME WorkInv, NEW c \in Commands, NEW step, NEW j, GoTo(c, step, j), Goes(c, step, j),
         JobOK(c)', \A n \in Names : KnowOK(c, n)', c \in Deployers => Progress(c)'
  PROVE  WorkInv'
<1>1. /\ UNCHANGED <<services, whole, begun>>
      /\ at'[c] = step /\ job'[c] = j /\ job' \in [Commands -> Jobs]
      /\ \A e \in Commands \ {c} : at'[e] = at[e] /\ job'[e] = job[e]
      /\ at' \in [Commands -> Steps]
  BY GoToEffect DEF WorkInv, WorkTypeOK, Goes
<1>2. WorkTypeOK' /\ Named' /\ DeployedIsWhole'
  BY <1>1 DEF WorkInv, WorkTypeOK, Named, DeployedIsWhole, Live
<1>3. \A e \in Commands : JobOK(e)' /\ \A n \in Names : KnowOK(e, n)'
  BY <1>1, OthersStay
<1>4. \A d \in Deployers : Progress(d)'
  BY <1>1, OthersStay DEF Commands
<1>5. \A d, e \in Deployers : Apart(d, e)'
  BY <1>1 DEF WorkInv, Apart, Busy, Goes, Commands, Rivals
<1>6. \A s \in Stacks, e \in Deployers : Undisputed(s, e)'
  BY <1>1 DEF WorkInv, Undisputed, Busy, Goes, Commands, Rivals
<1>7. QED
  BY <1>1, <1>2, <1>3, <1>4, <1>5, <1>6 DEF WorkInv

\* What may become of service n in a step of command c: it is written back as it is,
\* or a deployer gives it to its own stack, from none, or takes it away.
Takes(c, n, is) ==
  \/ services[n] # NULL /\ is = services[n]
  \/ /\ c \in Deployers /\ Busy(c) /\ n \in Nameable[job[c].stack]
     /\ is # NULL => /\ is \in Services /\ is.stack = job[c].stack
                     /\ services[n] # NULL => services[n].stack = job[c].stack

\* What was said of stack s stays true when service n, which s cannot name, changes.
LEMMA ElsewhereStays ==
  ASSUME WorkConstants, WorkInv, NEW c \in Commands, NEW n \in Names, NEW is, Takes(c, n, is),
         services' = [services EXCEPT ![n] = is], NEW s \in Stacks,
         is = services[n] \/ ~Rivals(s, job[c].stack)
  PROVE  /\ Live(s)' = Live(s)
         /\ \A m \in Nameable[s] : services'[m] = services[m]
<1>1. CASE is = services[n]
  BY <1>1 DEF WorkInv, WorkTypeOK, Live
<1>2. CASE ~Rivals(s, job[c].stack) /\ is # services[n]
  <2>1. n \in Nameable[job[c].stack] /\ n \notin Nameable[s]
    BY <1>2 DEF Takes, Rivals
  <2>2. n \notin Live(s) /\ (is # NULL => is.stack # s)
    BY <1>2, <2>1 DEF WorkInv, Named, Live, Takes
  <2>3. \A m \in Names \ {n} : services'[m] = services[m]
    BY DEF WorkInv, WorkTypeOK
  <2>4. services'[n] = is
    BY DEF WorkInv, WorkTypeOK
  <2>5. QED
    BY <2>1, <2>2, <2>3, <2>4 DEF Live, WorkConstants
<1>3. QED
  BY <1>1, <1>2

LEMMA ChangeKeeps ==
  ASSUME WorkConstants, WorkInv, NEW c \in Commands, NEW n \in Names, NEW is, NEW step, NEW j,
         Change(c, n, is, step, j), Goes(c, step, j), Takes(c, n, is),
         JobOK(c)', \A m \in Names : KnowOK(c, m)', c \in Deployers => Progress(c)'
  PROVE  WorkInv'
<1>0. WorkTypeOK
  BY DEF WorkInv
<1>1. /\ services' = [services EXCEPT ![n] = is] /\ UNCHANGED <<whole, begun>>
      /\ at'[c] = step /\ \A e \in Commands \ {c} : at'[e] = at[e]
      /\ at' \in [Commands -> Steps] /\ job' \in [Commands -> Jobs]
  BY <1>0, ChangeEffect DEF WorkTypeOK, Goes
<1>2. /\ job'[c].stack = j.stack /\ job'[c].alone = j.alone
  BY <1>0, ChangeEffect DEF Goes
<1>3. ASSUME NEW e \in Commands \ {c}
      PROVE  /\ job'[e].stack = job[e].stack /\ job'[e].declared = job[e].declared
             /\ job'[e].spec = job[e].spec /\ job'[e].todo = job[e].todo
             /\ job'[e].alone = job[e].alone
             /\ \A m \in Names \ {n} : job'[e].know[m] = job[e].know[m]
             /\ job'[e].know[n] # "fresh"
             /\ job'[e].know[n] = "none" <=> job[e].know[n] = "none"
             /\ job'[e].know[n] = "stale" => is # NULL /\ job[e].know[n] \in {"fresh", "stale"}
  BY <1>0, <1>3, ChangeEffect DEF Goes
<1>4. /\ services'[n] = is /\ \A m \in Names \ {n} : services'[m] = services[m]
      /\ services' \in [Names -> Services \union {NULL}]
      /\ is # NULL => is \in Services
  BY <1>0, <1>1 DEF WorkTypeOK, Takes
<1>5. WorkTypeOK'
  BY <1>0, <1>1, <1>4 DEF WorkTypeOK
<1>6. Named'
  BY <1>4 DEF WorkInv, Named, Takes
<1>7. ASSUME NEW e \in Commands, NEW m \in Names
      PROVE  JobOK(e)' /\ KnowOK(e, m)'
  <2>1. CASE e = c
    BY <2>1
  <2>2. CASE e # c
    <3>1. JobOK(e)'
      BY <1>1, <1>3, <2>2 DEF WorkInv, JobOK
    <3>0. /\ KnowOK(e, m) /\ at'[e] = at[e]
          /\ job'[e].stack = job[e].stack /\ job'[e].spec = job[e].spec
          /\ job'[e].todo = job[e].todo
      BY <1>1, <1>3, <2>2 DEF WorkInv
    <3>2. CASE m # n
      <4>1. job'[e].know[m] = job[e].know[m] /\ services'[m] = services[m]
        BY <1>3, <1>4, <2>2, <3>2
      <4>2. QED
        BY <3>0, <3>1, <4>1 DEF KnowOK
    <3>3. CASE m = n
      <4>1. is # NULL /\ services[n] # NULL => is.stack = services[n].stack
        BY DEF Takes
      <4>2. /\ job'[e].know[m] # "fresh"
            /\ job'[e].know[m] = "none" <=> job[e].know[m] = "none"
            /\ job'[e].know[m] = "stale" => is # NULL /\ job[e].know[m] \in {"fresh", "stale"}
            /\ services'[m] = is
        BY <1>3, <1>4, <2>2, <3>3
      <4>3. QED
        BY <3>0, <3>1, <3>3, <4>1, <4>2 DEF KnowOK
    <3>4. QED
      BY <3>1, <3>2, <3>3
  <2>3. QED
    BY <2>1, <2>2
<1>8. ASSUME NEW d \in Deployers, NEW e \in Deployers
      PROVE  Apart(d, e)'
  <2>1. \A f \in Deployers \ {c} : /\ at'[f] = at[f] /\ job'[f].stack = job[f].stack
                                   /\ job'[f].alone = job[f].alone
    BY <1>1, <1>3 DEF Commands
  <2>2. Apart(d, e)
    BY DEF WorkInv
  <2>3. QED
    BY <1>1, <1>2, <2>1, <2>2 DEF Apart, Busy, Goes, Rivals
<1>9. \A s \in Stacks, e \in Deployers : Undisputed(s, e)'
  BY <1>1, <1>2, <1>3 DEF WorkInv, Undisputed, Busy, Goes, Commands, Rivals
<1>10. ASSUME NEW d \in Deployers
       PROVE  Progress(d)'
  <2>1. CASE d = c
    BY <2>1
  <2>2. ASSUME d # c, Busy(d), job[d].alone
        PROVE  Progress(d)'
    <3>1. d \in Commands /\ job[d].stack \in Stacks
      BY <2>2 DEF Commands, WorkInv, JobOK, Busy
    <3>2. is = services[n] \/ ~Rivals(job[d].stack, job[c].stack)
      BY <2>2 DEF Takes, WorkInv, Apart
    <3>3. PICK s \in Stacks : s = job[d].stack
      BY <3>1
    <3>4. Live(s)' = Live(s) /\ \A m \in Nameable[s] : services'[m] = services[m]
      BY <1>1, <3>2, <3>3, ElsewhereStays
    <3>5. at[d] \in DeploySteps => job[d].declared \subseteq Nameable[s]
      BY <3>1, <3>3 DEF WorkInv, JobOK
    <3>6. QED
      BY <1>1, <1>3, <2>2, <3>1, <3>3, <3>4, <3>5 DEF WorkInv, Progress, Made, DeploySteps, Live
  <2>3. CASE d # c /\ ~(Busy(d) /\ job[d].alone)
    <3>1. d \in Commands /\ at'[d] = at[d] /\ job'[d].alone = job[d].alone
      BY <1>1, <1>3, <2>3 DEF Commands
    <3>2. QED
      BY <2>3, <3>1 DEF Progress, Busy
  <2>4. QED
    BY <2>1, <2>2, <2>3
<1>11. ASSUME NEW s \in Stacks, whole[s] # NULL
       PROVE  /\ Live(s)' = whole[s].declared
              /\ \A m \in Live(s)' : services'[m].spec = whole[s].spec
  <2>1. is = services[n] \/ ~Rivals(s, job[c].stack)
    BY <1>11 DEF Takes, WorkInv, Undisputed
  <2>2. Live(s)' = Live(s) /\ \A m \in Nameable[s] : services'[m] = services[m]
    BY <1>1, <2>1, ElsewhereStays
  <2>3. Live(s) \subseteq Nameable[s]
    BY DEF Live, WorkInv, Named
  <2>4. QED
    BY <1>11, <2>2, <2>3 DEF WorkInv, DeployedIsWhole
<1>12. QED
  BY <1>1, <1>5, <1>6, <1>7, <1>8, <1>9, <1>10, <1>11 DEF WorkInv, DeployedIsWhole

-----------------------------------------------------------------------------
(* docker stack deploy, step by step *)

\* What is known of a deployment under way.
LEMMA DeployFacts ==
  ASSUME WorkConstants, WorkInv, NEW d \in Deployers, at[d] \in DeploySteps
  PROVE  /\ d \in Commands /\ d \notin Operators /\ Busy(d) /\ job[d] \in Jobs
         /\ job[d].stack \in Stacks /\ job[d].declared # {} /\ job[d].spec \in Specs
         /\ job[d].declared \subseteq Nameable[job[d].stack]
         /\ job[d].todo \subseteq Nameable[job[d].stack]
         /\ Nameable[job[d].stack] \subseteq Names
         /\ Live(job[d].stack) \subseteq Nameable[job[d].stack]
  BY DEF WorkConstants, Commands, WorkInv, WorkTypeOK, JobOK, Busy, DeploySteps, CallSteps, Live, Named

\* A command that ends leaves nothing to say of it.
LEMMA OverKeeps ==
  ASSUME WorkInv, NEW c \in Commands, Over(c)
  PROVE  WorkInv'
<1>0. WorkTypeOK
  BY DEF WorkInv
<1>1. at'[c] = "idle" /\ job'[c] = NoJob
  BY <1>0, OverEffect
<1>2. JobOK(c)' /\ (\A n \in Names : KnowOK(c, n)') /\ Progress(c)'
  BY <1>1, NoJobType DEF JobOK, KnowOK, Progress, DeploySteps, CallSteps
<1>3. Goes(c, "idle", NoJob)
  BY NoJobType DEF Goes, Steps
<1>4. QED
  BY <1>2, <1>3, GoToKeeps DEF Over

LEMMA ListKeeps ==
  ASSUME WorkConstants, WorkInv, NEW d \in Deployers, ListServices(d)
  PROVE  WorkInv'
<1>0. at[d] = "list" /\ at[d] \in DeploySteps
  BY DEF ListServices, DeploySteps
<1> DEFINE know == [n \in Names |-> IF n \in Live(job[d].stack) THEN "fresh" ELSE "none"]
           j == [job[d] EXCEPT !.todo = job[d].declared, !.know = know]
<1>1. /\ j \in Jobs /\ j.stack = job[d].stack /\ j.declared = job[d].declared
      /\ j.spec = job[d].spec /\ j.alone = job[d].alone
      /\ j.todo = job[d].declared /\ j.know = know
  BY <1>0, DeployFacts DEF Jobs, Knowledge
<1>2. GoTo(d, "apply", j)
  BY DEF ListServices
<1>3. \A n \in Names : know[n] \in {"fresh", "none"}
                       /\ (know[n] = "fresh" => services[n] # NULL /\ services[n].stack = job[d].stack)
  BY DEF Live
<1> HIDE DEF j, know
<1>4. at'[d] = "apply" /\ job'[d] = j /\ UNCHANGED services
  BY <1>0, <1>1, <1>2, DeployFacts, GoToEffect DEF WorkInv
<1>5. JobOK(d)'
  BY <1>0, <1>1, <1>4, DeployFacts DEF JobOK, DeploySteps, CallSteps
<1>6. \A n \in Names : KnowOK(d, n)'
  BY <1>1, <1>3, <1>4 DEF KnowOK
<1>7. Progress(d)'
  BY <1>1, <1>4 DEF Progress
<1>8. Goes(d, "apply", j)
  BY <1>0, <1>1, DeployFacts DEF Goes, Steps, DeploySteps
<1>9. QED
  BY <1>0, <1>2, <1>5, <1>6, <1>7, <1>8, DeployFacts, GoToKeeps

\* Another attempt: nothing is taken for done that was, and what was forced stays so.
LEMMA AgainKeeps ==
  ASSUME WorkConstants, WorkInv, NEW d \in Deployers, NEW again \in {"list", "force"}, Again(d, again),
         again = "list" => at[d] = "apply", again = "force" => at[d] = "push"
  PROVE  WorkInv'
<1>1. CASE Over(d)
  BY <1>1, OverKeeps DEF Commands
<1>2. CASE GoTo(d, again, [job[d] EXCEPT !.tries = @ + 1])
  <2> DEFINE j == [job[d] EXCEPT !.tries = @ + 1]
  <2>0. at[d] \in DeploySteps
    BY DEF DeploySteps
  <2>1. /\ j \in Jobs /\ j.stack = job[d].stack /\ j.declared = job[d].declared
        /\ j.spec = job[d].spec /\ j.alone = job[d].alone
        /\ j.todo = job[d].todo /\ j.know = job[d].know
    BY <2>0, DeployFacts DEF Jobs
  <2>2. GoTo(d, again, j)
    BY <1>2
  <2> HIDE DEF j
  <2>3. at'[d] = again /\ job'[d] = j /\ UNCHANGED services
    BY <2>0, <2>1, <2>2, DeployFacts, GoToEffect DEF WorkInv
  <2>4. JobOK(d)'
    BY <2>0, <2>1, <2>3, DeployFacts DEF JobOK, DeploySteps, CallSteps
  <2>5. \A n \in Names : KnowOK(d, n)'
    BY <2>0, <2>1, <2>3, DeployFacts DEF KnowOK, WorkInv
  <2>6. Progress(d)'
    BY <2>0, <2>1, <2>3, DeployFacts DEF Progress, WorkInv, Made, Live
  <2>7. Goes(d, again, j)
    BY <2>0, <2>1, DeployFacts DEF Goes, Steps, DeploySteps
  <2>8. QED
    BY <2>0, <2>2, <2>4, <2>5, <2>6, <2>7, DeployFacts, GoToKeeps
<1>3. QED
  BY <1>1, <1>2 DEF Again

LEMMA ApplyKeeps ==
  ASSUME WorkConstants, WorkInv, NEW d \in Deployers, NEW n \in Names, Apply(d, n)
  PROVE  WorkInv'
<1>0. at[d] = "apply" /\ at[d] \in DeploySteps /\ n \in job[d].todo
  BY DEF Apply, DeploySteps
<1> DEFINE j == [job[d] EXCEPT !.todo = @ \ {n}, !.know[n] = "none"]
           is == [stack |-> job[d].stack, spec |-> job[d].spec]
<1>1. CASE Again(d, "list")
  BY <1>0, <1>1, AgainKeeps
<1>2. CASE Over(d)
  BY <1>2, OverKeeps DEF Commands
<1>3. ASSUME job[d].know[n] = "fresh" \/ services[n] = NULL,
             NEW step, step = IF j.todo = {} THEN "listLeft" ELSE "apply",
             Change(d, n, is, step, j)
      PROVE  WorkInv'
  <2>1. /\ j \in Jobs /\ j.stack = job[d].stack /\ j.declared = job[d].declared
        /\ j.spec = job[d].spec /\ j.alone = job[d].alone
        /\ j.todo = job[d].todo \ {n} /\ j.know[n] = "none"
        /\ \A m \in Names \ {n} : j.know[m] = job[d].know[m]
    BY <1>0, DeployFacts DEF Jobs, Knowledge
  <2>2. /\ is \in Services /\ is # NULL
        /\ is.stack = job[d].stack /\ is.spec = job[d].spec
    BY <1>0, DeployFacts DEF Services, WorkConstants
  <2> HIDE DEF j, is
  <2>3. Takes(d, n, is)
    BY <1>0, <1>3, <2>2, DeployFacts DEF Takes, WorkInv, KnowOK
  <2>4. Goes(d, step, j)
    BY <1>0, <1>3, <2>1, DeployFacts DEF Goes, Steps, DeploySteps
  <2>5. /\ at'[d] = step /\ job'[d].stack = job[d].stack /\ job'[d].declared = job[d].declared
        /\ job'[d].spec = job[d].spec /\ job'[d].alone = job[d].alone
        /\ job'[d].todo = job[d].todo \ {n} /\ job'[d].know[n] = "none"
        /\ \A m \in Names \ {n} : job'[d].know[m] = job[d].know[m]
        /\ services'[n] = is /\ \A m \in Names \ {n} : services'[m] = services[m]
    <3>1. d \in Commands /\ WorkTypeOK
      BY <1>0, DeployFacts DEF WorkInv
    <3>2. QED
      BY <1>3, <2>1, <3>1, ChangeEffect DEF WorkTypeOK
  <2>6. JobOK(d)'
    BY <1>0, <1>3, <2>5, DeployFacts DEF JobOK, DeploySteps, CallSteps
  <2>7. ASSUME NEW m \in Names
        PROVE  KnowOK(d, m)'
    <3>1. KnowOK(d, m)
      BY <1>0, DeployFacts DEF WorkInv
    <3>2. QED
      BY <1>0, <1>3, <2>5, <3>1 DEF KnowOK
  <2>8. Progress(d)'
    <3>1. Progress(d) /\ Made(d, n)'
      BY <2>2, <2>5 DEF WorkInv, Made
    <3>2. \A m \in job[d].declared : Made(d, m) => Made(d, m)'
      BY <1>0, <2>5, <3>1, DeployFacts DEF Made
    <3>3. QED
      BY <1>0, <1>3, <2>1, <2>5, <3>1, <3>2 DEF Progress
  <2>9. QED
    BY <1>0, <1>3, <2>3, <2>4, <2>6, <2>7, <2>8, DeployFacts, ChangeKeeps
<1>4. QED
  BY <1>0, <1>1, <1>2, <1>3 DEF Apply

LEMMA ListLeftKeeps ==
  ASSUME WorkConstants, WorkInv, NEW d \in Deployers, ListLeft(d)
  PROVE  WorkInv'
<1>0. at[d] = "listLeft" /\ at[d] \in DeploySteps
  BY DEF ListLeft, DeploySteps
<1> DEFINE left == Leftovers(d)
           step == IF left = {} THEN "listForce" ELSE "prune"
           j == [job[d] EXCEPT !.todo = left, !.know = None]
<1>1. left = Live(job[d].stack) \ job[d].declared
  BY <1>0, DeployFacts DEF Leftovers
<1>2. /\ j \in Jobs /\ j.stack = job[d].stack /\ j.declared = job[d].declared
      /\ j.spec = job[d].spec /\ j.alone = job[d].alone
      /\ j.todo = left /\ j.know = None
  BY <1>0, <1>1, DeployFacts DEF Jobs, Knowledge, None
<1>3. GoTo(d, step, j) /\ step \in {"listForce", "prune"}
  BY DEF ListLeft
<1>4. step = "listForce" => left = {}
  OBVIOUS
<1> HIDE DEF j, step, left
<1>5. at'[d] = step /\ job'[d] = j /\ UNCHANGED services
  BY <1>0, <1>2, <1>3, DeployFacts, GoToEffect DEF WorkInv
<1>6. JobOK(d)'
  BY <1>0, <1>1, <1>2, <1>3, <1>5, DeployFacts DEF JobOK, DeploySteps, CallSteps
<1>7. \A n \in Names : KnowOK(d, n)'
  BY <1>2, <1>3, <1>5 DEF KnowOK, None
<1>8. Progress(d)'
  BY <1>0, <1>1, <1>2, <1>3, <1>4, <1>5, ZenonT(30) DEF Progress, WorkInv, Made, Live
<1>9. Goes(d, step, j)
  BY <1>0, <1>2, <1>3, DeployFacts DEF Goes, Steps, DeploySteps
<1>10. QED
  BY <1>0, <1>3, <1>6, <1>7, <1>8, <1>9, DeployFacts, GoToKeeps

LEMMA PruneKeeps ==
  ASSUME WorkConstants, WorkInv, NEW d \in Deployers, NEW n \in Names, Prune(d, n)
  PROVE  WorkInv'
<1>0. at[d] = "prune" /\ at[d] \in DeploySteps /\ n \in job[d].todo
  BY DEF Prune, DeploySteps
<1> DEFINE j == [job[d] EXCEPT !.todo = @ \ {n}]
<1>1. CASE Over(d)
  BY <1>1, OverKeeps DEF Commands
<1>2. ASSUME NEW step, step = IF j.todo = {} THEN "listForce" ELSE "prune",
             Change(d, n, NULL, step, j)
      PROVE  WorkInv'
  <2>1. /\ j \in Jobs /\ j.stack = job[d].stack /\ j.declared = job[d].declared
        /\ j.spec = job[d].spec /\ j.alone = job[d].alone
        /\ j.todo = job[d].todo \ {n} /\ j.know = job[d].know
    BY <1>0, DeployFacts DEF Jobs, Knowledge
  <2> HIDE DEF j
  <2>2. Takes(d, n, NULL)
    BY <1>0, DeployFacts DEF Takes
  <2>3. Goes(d, step, j)
    BY <1>0, <1>2, <2>1, DeployFacts DEF Goes, Steps, DeploySteps
  <2>4. /\ at'[d] = step /\ job'[d].stack = job[d].stack /\ job'[d].declared = job[d].declared
        /\ job'[d].spec = job[d].spec /\ job'[d].alone = job[d].alone
        /\ job'[d].todo = job[d].todo \ {n} /\ job'[d].know[n] \notin {"fresh", "stale"}
        /\ \A m \in Names \ {n} : job'[d].know[m] = job[d].know[m]
        /\ services'[n] = NULL /\ \A m \in Names \ {n} : services'[m] = services[m]
    <3>1. d \in Commands /\ WorkTypeOK
      BY <1>0, DeployFacts DEF WorkInv
    <3>2. QED
      BY <1>2, <2>1, <3>1, ChangeEffect DEF WorkTypeOK
  <2>5. JobOK(d)'
    BY <1>0, <1>2, <2>4, DeployFacts DEF JobOK, DeploySteps, CallSteps, WorkInv
  <2>6. ASSUME NEW m \in Names
        PROVE  KnowOK(d, m)'
    <3>1. KnowOK(d, m)
      BY <1>0, DeployFacts DEF WorkInv
    <3>2. QED
      BY <1>0, <1>2, <2>4, <3>1 DEF KnowOK
  <2>7. Progress(d)'
    <3>1. n \notin job[d].declared
      BY <1>0, DeployFacts DEF WorkInv, JobOK
    <3>2. \A m \in job[d].declared : Made(d, m) => Made(d, m)'
      BY <1>0, <2>4, <3>1, DeployFacts DEF Made
    <3>3. Live(job[d].stack)' = Live(job[d].stack) \ {n}
      BY <2>4 DEF Live
    <3>4. QED
      BY <1>0, <1>2, <2>1, <2>4, <3>2, <3>3 DEF Progress, WorkInv
  <2>8. QED
    BY <1>0, <1>2, <2>2, <2>3, <2>5, <2>6, <2>7, DeployFacts, ChangeKeeps
<1>3. QED
  BY <1>0, <1>1, <1>2 DEF Prune

LEMMA ListForceKeeps ==
  ASSUME WorkConstants, WorkInv, NEW d \in Deployers, ListForce(d)
  PROVE  WorkInv'
<1>0. at[d] = "listForce" /\ at[d] \in DeploySteps
  BY DEF ListForce, DeploySteps
<1> DEFINE j == [job[d] EXCEPT !.todo = Live(job[d].stack), !.know = None, !.tries = 0]
<1>1. /\ j \in Jobs /\ j.stack = job[d].stack /\ j.declared = job[d].declared
      /\ j.spec = job[d].spec /\ j.alone = job[d].alone
      /\ j.todo = Live(job[d].stack) /\ j.know = None
  BY <1>0, DeployFacts DEF Jobs, Knowledge, None
<1>2. GoTo(d, "force", j)
  BY DEF ListForce
<1> HIDE DEF j
<1>3. at'[d] = "force" /\ job'[d] = j /\ UNCHANGED services
  BY <1>0, <1>1, <1>2, DeployFacts, GoToEffect DEF WorkInv
<1>4. JobOK(d)'
  BY <1>0, <1>1, <1>3, DeployFacts DEF JobOK, DeploySteps, CallSteps
<1>5. \A n \in Names : KnowOK(d, n)'
  BY <1>1, <1>3 DEF KnowOK, None
<1>6. Progress(d)'
  BY <1>0, <1>1, <1>3, ZenonT(30) DEF Progress, WorkInv, Made, Live
<1>7. Goes(d, "force", j)
  BY <1>0, <1>1, DeployFacts DEF Goes, Steps, DeploySteps
<1>8. QED
  BY <1>0, <1>2, <1>4, <1>5, <1>6, <1>7, DeployFacts, GoToKeeps

LEMMA ForceReadKeeps ==
  ASSUME WorkConstants, WorkInv, NEW d \in Deployers, NEW n \in Names, ForceRead(d, n)
  PROVE  WorkInv'
<1>0. at[d] = "force" /\ at[d] \in DeploySteps
  BY DEF ForceRead, DeploySteps
<1>1. CASE services[n] = NULL
  BY <1>1, OverKeeps DEF ForceRead, Commands
<1>2. CASE services[n] # NULL
  <2> DEFINE j == [job[d] EXCEPT !.know = [None EXCEPT ![n] = "fresh"]]
  <2>1. /\ j \in Jobs /\ j.stack = job[d].stack /\ j.declared = job[d].declared
        /\ j.spec = job[d].spec /\ j.alone = job[d].alone
        /\ j.todo = job[d].todo /\ \A m \in Names \ {n} : j.know[m] = "none"
    BY <1>0, DeployFacts DEF Jobs, Knowledge, None
  <2>2. GoTo(d, "push", j)
    BY <1>2 DEF ForceRead
  <2> HIDE DEF j
  <2>3. at'[d] = "push" /\ job'[d] = j /\ UNCHANGED services
    BY <1>0, <2>1, <2>2, DeployFacts, GoToEffect DEF WorkInv
  <2>4. JobOK(d)'
    BY <1>0, <2>1, <2>3, DeployFacts DEF JobOK, DeploySteps, CallSteps
  <2>5. \A m \in Names : KnowOK(d, m)'
    BY <1>2, <2>1, <2>3 DEF KnowOK
  <2>6. Progress(d)'
    BY <1>0, <2>1, <2>3, ZenonT(30) DEF Progress, WorkInv, Made, Live
  <2>7. Goes(d, "push", j)
    BY <1>0, <2>1, DeployFacts DEF Goes, Steps, DeploySteps
  <2>8. QED
    BY <1>0, <2>2, <2>4, <2>5, <2>6, <2>7, DeployFacts, GoToKeeps
<1>3. QED
  BY <1>1, <1>2

LEMMA ForcePushKeeps ==
  ASSUME WorkConstants, WorkInv, NEW d \in Deployers, NEW n \in Names, ForcePush(d, n)
  PROVE  WorkInv'
<1>0. at[d] = "push" /\ at[d] \in DeploySteps
  BY DEF ForcePush, DeploySteps
<1>1. CASE Over(d)
  BY <1>1, OverKeeps DEF Commands
<1>2. CASE Again(d, "force")
  BY <1>0, <1>2, AgainKeeps
<1>3. CASE job[d].know[n] = "fresh"
  <2> DEFINE j == [job[d] EXCEPT !.todo = @ \ {n}, !.know = None, !.tries = 0]
  <2>1. /\ j \in Jobs /\ j.stack = job[d].stack /\ j.declared = job[d].declared
        /\ j.spec = job[d].spec /\ j.alone = job[d].alone
        /\ j.todo = job[d].todo \ {n} /\ \A m \in Names : j.know[m] = "none"
    BY <1>0, DeployFacts DEF Jobs, Knowledge, None
  <2>2. Change(d, n, services[n], "force", j)
    BY <1>3 DEF ForcePush
  <2>3. PICK is : is = services[n]
    OBVIOUS
  <2>4. Change(d, n, is, "force", j) /\ Takes(d, n, is)
    BY <1>0, <1>3, <2>2, <2>3, DeployFacts DEF Takes, WorkInv, KnowOK
  <2> HIDE DEF j
  <2>5. Goes(d, "force", j)
    BY <1>0, <2>1, DeployFacts DEF Goes, Steps, DeploySteps
  <2>6. /\ at'[d] = "force" /\ job'[d].stack = job[d].stack /\ job'[d].declared = job[d].declared
        /\ job'[d].spec = job[d].spec /\ job'[d].alone = job[d].alone
        /\ job'[d].todo = job[d].todo \ {n} /\ \A m \in Names : job'[d].know[m] = "none"
        /\ UNCHANGED services
    <3>1. d \in Commands /\ WorkTypeOK
      BY <1>0, DeployFacts DEF WorkInv
    <3>2. QED
      BY <2>1, <2>3, <2>4, <3>1, ChangeEffect DEF WorkTypeOK
  <2>7. JobOK(d)'
    BY <1>0, <2>6, DeployFacts DEF JobOK, DeploySteps, CallSteps
  <2>8. \A m \in Names : KnowOK(d, m)'
    BY <2>6 DEF KnowOK
  <2>9. Progress(d)'
    BY <1>0, <2>6 DEF Progress, WorkInv, Made, Live
  <2>10. QED
    BY <1>0, <2>4, <2>5, <2>7, <2>8, <2>9, DeployFacts, ChangeKeeps
<1>4. QED
  BY <1>1, <1>2, <1>3 DEF ForcePush

\* A deployment that was alone to the end has left what is then said of its stack.
LEMMA EndDeployKeeps ==
  ASSUME WorkConstants, WorkInv, NEW d \in Deployers, EndDeploy(d)
  PROVE  WorkInv'
<1>0. at[d] = "force" /\ at[d] \in DeploySteps /\ d \in Commands
  BY DEF EndDeploy, DeploySteps, Commands
<1>1. /\ UNCHANGED <<services, begun>>
      /\ at'[d] = "idle" /\ job'[d] = NoJob
      /\ \A e \in Commands \ {d} : at'[e] = at[e] /\ job'[e] = job[e]
      /\ at' \in [Commands -> Steps] /\ job' \in [Commands -> Jobs]
  BY <1>0, NoJobType DEF EndDeploy, Complete, WorkInv, WorkTypeOK, Steps
<1> DEFINE is == [declared |-> job[d].declared, spec |-> job[d].spec]
<1>2. PICK s \in Stacks : s = job[d].stack
  BY <1>0, DeployFacts
<1>3. /\ is \in Wholes /\ is # NULL
      /\ is.declared = job[d].declared /\ is.spec = job[d].spec
  BY <1>0, DeployFacts DEF Wholes, WorkConstants
<1>4. whole' = IF job[d].alone THEN [whole EXCEPT ![s] = is] ELSE whole
  BY <1>2 DEF EndDeploy, Complete
<1> HIDE DEF is
<1>5. /\ whole' \in [Stacks -> Wholes \union {NULL}]
      /\ job[d].alone => whole'[s] = is
      /\ \A t \in Stacks : t # s \/ ~job[d].alone => whole'[t] = whole[t]
  BY <1>3, <1>4 DEF WorkInv, WorkTypeOK
<1>6. WorkTypeOK' /\ Named'
  BY <1>1, <1>5 DEF WorkInv, WorkTypeOK, Named
<1>7. ASSUME NEW e \in Commands
      PROVE  /\ JobOK(e)' /\ \A n \in Names : KnowOK(e, n)'
             /\ e \in Deployers => Progress(e)'
  <2>1. CASE e = d
    BY <1>1, <2>1, NoJobType DEF JobOK, KnowOK, Progress, DeploySteps, CallSteps
  <2>2. CASE e # d
    BY <1>1, <2>2, OthersStay
  <2>3. QED
    BY <2>1, <2>2
<1>8. \A e, f \in Deployers : Apart(e, f)'
  BY <1>1 DEF WorkInv, Apart, Busy, Commands, Rivals
<1>9. ASSUME NEW t \in Stacks, NEW e \in Deployers
      PROVE  Undisputed(t, e)'
  <2>1. CASE t = s /\ job[d].alone /\ e # d
    <3>1. Apart(d, e) /\ Busy(d)
      BY <1>0, DeployFacts DEF WorkInv
    <3>2. QED
      BY <1>1, <1>2, <2>1, <3>1 DEF Undisputed, Apart, Busy, Commands, Rivals
  <2>2. CASE (t # s \/ ~job[d].alone) /\ e # d
    BY <1>1, <1>5, <2>2 DEF WorkInv, Undisputed, Busy, Commands, Rivals
  <2>3. CASE e = d
    BY <1>1, <2>3 DEF Undisputed, Busy
  <2>4. QED
    BY <2>1, <2>2, <2>3
<1>10. ASSUME NEW t \in Stacks, whole'[t] # NULL
       PROVE  /\ Nameable[t] # {} /\ Live(t) = whole'[t].declared
              /\ \A n \in Live(t) : services[n].spec = whole'[t].spec
  <2>1. CASE t = s /\ job[d].alone
    <3>1. /\ Live(s) \subseteq job[d].declared
          /\ \A n \in job[d].declared : Made(d, n)
          /\ job[d].declared # {} /\ job[d].declared \subseteq Nameable[s] /\ Nameable[s] \subseteq Names
      BY <1>0, <1>2, <2>1, DeployFacts DEF WorkInv, Progress
    <3>2. Live(s) = job[d].declared
      BY <1>2, <3>1 DEF Made, Live
    <3>3. QED
      BY <1>3, <1>5, <2>1, <3>1, <3>2 DEF Made
  <2>2. CASE t # s \/ ~job[d].alone
    BY <1>5, <1>10, <2>2 DEF WorkInv, DeployedIsWhole
  <2>3. QED
    BY <2>1, <2>2
<1>11. DeployedIsWhole' /\ \A t \in Stacks : whole'[t] # NULL => Nameable[t] # {}
  BY <1>1, <1>10 DEF DeployedIsWhole, Live
<1>12. QED
  BY <1>6, <1>7, <1>8, <1>9, <1>11 DEF WorkInv, Commands

-----------------------------------------------------------------------------
(* docker stack rm *)

LEMMA RemovalFacts ==
  ASSUME WorkConstants, WorkInv, NEW d \in Deployers, Busy(d)
  PROVE  /\ d \in Commands /\ d \notin Operators /\ job[d] \in Jobs
         /\ job[d].stack \in Stacks /\ Nameable[job[d].stack] \subseteq Names
         /\ job[d].todo \subseteq Nameable[job[d].stack]
         /\ Live(job[d].stack) \subseteq Nameable[job[d].stack]
  BY DEF WorkConstants, Commands, WorkInv, WorkTypeOK, JobOK, Busy, Live, Named

LEMMA ListAllKeeps ==
  ASSUME WorkConstants, WorkInv, NEW d \in Deployers, ListAll(d)
  PROVE  WorkInv'
<1>0. at[d] = "listAll" /\ Busy(d)
  BY DEF ListAll, Busy
<1> DEFINE know == [n \in Names |-> IF n \in Live(job[d].stack) THEN "fresh" ELSE "none"]
           j == [job[d] EXCEPT !.todo = Live(job[d].stack), !.know = know]
<1>1. /\ j \in Jobs /\ j.stack = job[d].stack /\ j.alone = job[d].alone
      /\ j.todo = Live(job[d].stack) /\ j.know = know
  BY <1>0, RemovalFacts DEF Jobs, Knowledge
<1>2. GoTo(d, "remove", j)
  BY DEF ListAll
<1>3. \A n \in Names : know[n] \in {"fresh", "none"}
                       /\ (know[n] = "fresh" => services[n] # NULL /\ services[n].stack = job[d].stack)
  BY DEF Live
<1> HIDE DEF j, know
<1>4. at'[d] = "remove" /\ job'[d] = j /\ UNCHANGED services
  BY <1>0, <1>1, <1>2, RemovalFacts, GoToEffect DEF WorkInv
<1>5. JobOK(d)' /\ Progress(d)'
  BY <1>0, <1>1, <1>4, RemovalFacts DEF JobOK, Progress, DeploySteps, CallSteps
<1>6. \A n \in Names : KnowOK(d, n)'
  BY <1>1, <1>3, <1>4 DEF KnowOK
<1>7. Goes(d, "remove", j)
  BY <1>0, <1>1 DEF Goes, Steps
<1>8. QED
  BY <1>0, <1>2, <1>5, <1>6, <1>7, RemovalFacts, GoToKeeps

LEMMA RemoveKeeps ==
  ASSUME WorkConstants, WorkInv, NEW d \in Deployers, Remove(d)
  PROVE  WorkInv'
<1>0. at[d] = "remove" /\ Busy(d)
  BY DEF Remove, Busy
<1>1. CASE Over(d)
  BY <1>1, OverKeeps DEF Commands
<1>2. ASSUME NEW n \in job[d].todo, NEW j, j = [job[d] EXCEPT !.todo = @ \ {n}, !.know[n] = "none"],
             GoTo(d, "remove", j) \/ Change(d, n, NULL, "remove", j)
      PROVE  WorkInv'
  <2>1. /\ j \in Jobs /\ j.stack = job[d].stack /\ j.alone = job[d].alone
        /\ j.todo = job[d].todo \ {n} /\ j.know[n] = "none" /\ n \in Names
        /\ \A m \in Names \ {n} : j.know[m] = job[d].know[m]
    BY <1>0, <1>2, RemovalFacts DEF Jobs, Knowledge
  <2>2. Takes(d, n, NULL) /\ Goes(d, "remove", j)
    BY <1>0, <2>1, RemovalFacts DEF Takes, Goes, Steps
  <2>3. /\ at'[d] = "remove" /\ job'[d].stack = job[d].stack /\ job'[d].todo = job[d].todo \ {n}
        /\ job'[d].know[n] = "none" /\ \A m \in Names \ {n} : job'[d].know[m] = job[d].know[m]
        /\ \A m \in Names \ {n} : services'[m] = services[m]
    <3>1. d \in Commands /\ WorkTypeOK
      BY <1>0, RemovalFacts DEF WorkInv
    <3>2. CASE GoTo(d, "remove", j)
      BY <2>1, <3>1, <3>2, GoToEffect
    <3>3. CASE Change(d, n, NULL, "remove", j)
      BY <2>1, <3>1, <3>3, ChangeEffect DEF WorkTypeOK
    <3>4. QED
      BY <1>2, <3>2, <3>3
  <2>4. JobOK(d)' /\ Progress(d)'
    BY <1>0, <2>3, RemovalFacts DEF JobOK, Progress, DeploySteps, CallSteps
  <2>5. ASSUME NEW m \in Names
        PROVE  KnowOK(d, m)'
    <3>1. KnowOK(d, m)
      BY <1>0, RemovalFacts DEF WorkInv
    <3>2. QED
      BY <1>0, <2>3, <3>1 DEF KnowOK
  <2>6. QED
    BY <1>0, <1>2, <2>1, <2>2, <2>4, <2>5, RemovalFacts, GoToKeeps, ChangeKeeps
<1>3. QED
  BY <1>1, <1>2 DEF Remove

-----------------------------------------------------------------------------
(* Calls of the API *)

LEMMA CallFacts ==
  ASSUME WorkConstants, WorkInv, NEW o \in Operators
  PROVE  o \in Commands /\ o \notin Deployers /\ job[o] \in Jobs
  BY DEF WorkConstants, Commands, WorkInv, WorkTypeOK

LEMMA ResolveKeeps ==
  ASSUME WorkConstants, WorkInv, NEW o \in Operators, NEW s \in Stacks, NEW n \in Nameable[s],
         Resolve(o, s, n)
  PROVE  WorkInv'
<1> DEFINE j == [NoJob EXCEPT !.stack = s, !.todo = {n}, !.know = [None EXCEPT ![n] = "fresh"]]
<1>1. /\ n \in Names /\ j \in Jobs /\ j.stack = s /\ j.todo = {n} /\ j.know[n] = "fresh"
      /\ \A m \in Names \ {n} : j.know[m] = "none"
  BY NoJobType DEF Jobs, Knowledge, None, WorkConstants
<1>2. GoTo(o, "resolved", j) /\ services[n] # NULL /\ services[n].stack = s
  BY DEF Resolve, Belongs
<1> HIDE DEF j
<1>3. at'[o] = "resolved" /\ job'[o] = j /\ UNCHANGED services
  BY <1>1, <1>2, CallFacts, GoToEffect DEF WorkInv
<1>4. JobOK(o)' /\ Goes(o, "resolved", j)
  BY <1>1, <1>3, CallFacts DEF JobOK, DeploySteps, CallSteps, Goes, Steps
<1>5. \A m \in Names : KnowOK(o, m)'
  BY <1>1, <1>2, <1>3 DEF KnowOK
<1>6. QED
  BY <1>2, <1>4, <1>5, CallFacts, GoToKeeps

LEMMA InspectKeeps ==
  ASSUME WorkConstants, WorkInv, NEW o \in Operators, NEW n \in Names, Inspect(o, n)
  PROVE  WorkInv'
<1>1. CASE Over(o)
  BY <1>1, OverKeeps, CallFacts
<1>2. CASE ~Over(o)
  <2> DEFINE j == [job[o] EXCEPT !.know = [None EXCEPT ![n] = "fresh"], !.spec = services[n].spec]
  <2>1. GoTo(o, "restart", j) /\ at[o] = "resolved" /\ n \in job[o].todo /\ job[o].know[n] # "gone"
    BY <1>2 DEF Inspect
  <2>2. services[n] # NULL /\ services[n].stack = job[o].stack /\ services[n].spec \in Specs
    <3>1. KnowOK(o, n) /\ job[o].know[n] \in Knowledge
      BY CallFacts DEF WorkInv, Jobs
    <3>2. services[n] # NULL /\ services[n].stack = job[o].stack
      BY <2>1, <3>1 DEF KnowOK, Knowledge
    <3>3. QED
      BY <3>2 DEF WorkInv, WorkTypeOK, Services
  <2>3. /\ j \in Jobs /\ j.stack = job[o].stack /\ j.todo = job[o].todo
        /\ j.know[n] = "fresh" /\ j.spec = services[n].spec
        /\ \A m \in Names \ {n} : j.know[m] = "none"
    BY <2>2, CallFacts DEF Jobs, Knowledge, None
  <2> HIDE DEF j
  <2>4. at'[o] = "restart" /\ job'[o] = j /\ UNCHANGED services
    BY <2>1, <2>3, CallFacts, GoToEffect DEF WorkInv
  <2>5. JobOK(o)' /\ Goes(o, "restart", j)
    <3>1. JobOK(o)
      BY CallFacts DEF WorkInv
    <3>2. QED
      BY <2>1, <2>2, <2>3, <2>4, <3>1, CallFacts DEF JobOK, DeploySteps, CallSteps, Goes, Steps
  <2>6. \A m \in Names : KnowOK(o, m)'
    BY <2>2, <2>3, <2>4 DEF KnowOK
  <2>7. QED
    BY <2>1, <2>5, <2>6, CallFacts, GoToKeeps
<1>3. QED
  BY <1>1, <1>2

\* The update that Swarm accepts carries what the service runs already.
LEMMA RestartWritesBack ==
  ASSUME WorkConstants, WorkInv, NEW o \in Operators, NEW n \in Names, Restart(o, n)
  PROVE  \/ Over(o)
         \/ services[n] # NULL /\ Change(o, n, services[n], "idle", NoJob)
<1>1. CASE InSequence(o, n)
  <2>1. KnowOK(o, n) /\ at[o] = "restart" /\ n \in job[o].todo /\ job[o].know[n] = "fresh"
    BY <1>1, CallFacts DEF WorkInv, Restart, InSequence
  <2>2. services[n] # NULL /\ services[n].spec = job[o].spec
    BY <2>1 DEF KnowOK
  <2>3. [services[n] EXCEPT !.spec = job[o].spec] = services[n]
    BY <2>2 DEF WorkInv, WorkTypeOK, Services
  <2>4. QED
    BY <1>1, <2>2, <2>3 DEF Restart
<1>2. QED
  BY <1>1 DEF Restart

LEMMA RestartKeeps ==
  ASSUME WorkConstants, WorkInv, NEW o \in Operators, NEW n \in Names, Restart(o, n)
  PROVE  WorkInv'
<1>1. CASE Over(o)
  BY <1>1, OverKeeps, CallFacts
<1>2. CASE services[n] # NULL /\ Change(o, n, services[n], "idle", NoJob)
  <2>1. PICK is : is = services[n]
    OBVIOUS
  <2>2. Change(o, n, is, "idle", NoJob) /\ Takes(o, n, is) /\ Goes(o, "idle", NoJob)
    BY <1>2, <2>1, NoJobType DEF Takes, Goes, Steps
  <2>3. at'[o] = "idle" /\ \A m \in Names : job'[o].know[m] = "none"
    BY <2>2, CallFacts, ChangeEffect, NoJobType DEF WorkInv
  <2>4. JobOK(o)' /\ \A m \in Names : KnowOK(o, m)'
    BY <2>3 DEF JobOK, KnowOK, DeploySteps, CallSteps
  <2>5. QED
    BY <2>2, <2>4, CallFacts, ChangeKeeps
<1>3. QED
  BY <1>1, <1>2, RestartWritesBack

-----------------------------------------------------------------------------
(* The orchestrator, and the start of a command *)

LEMMA ReconcileKeeps ==
  ASSUME WorkInv, NEW n \in Names, Reconcile(n)
  PROVE  WorkInv'
<1>1. services[n] # NULL /\ UNCHANGED <<services, at, whole, begun>>
  BY DEF Reconcile
<1>2. ASSUME NEW c \in Commands
      PROVE  /\ job'[c] \in Jobs
             /\ job'[c].stack = job[c].stack /\ job'[c].declared = job[c].declared
             /\ job'[c].spec = job[c].spec /\ job'[c].todo = job[c].todo
             /\ job'[c].alone = job[c].alone
             /\ \A m \in Names \ {n} : job'[c].know[m] = job[c].know[m]
             /\ job'[c].know[n] # "fresh"
             /\ job'[c].know[n] = "none" <=> job[c].know[n] = "none"
             /\ job'[c].know[n] = "stale" => job[c].know[n] \in {"fresh", "stale"}
  <2> DEFINE know == Outdated(job[c].know, n, services[n])
  <2>1. job[c] \in Jobs /\ job[c].know \in [Names -> Knowledge]
    BY DEF WorkInv, WorkTypeOK, Jobs
  <2>2. /\ know \in [Names -> Knowledge]
        /\ \A m \in Names \ {n} : know[m] = job[c].know[m]
        /\ know[n] # "fresh"
        /\ know[n] = "none" <=> job[c].know[n] = "none"
        /\ know[n] = "stale" => job[c].know[n] \in {"fresh", "stale"}
    BY <2>1, OutdatedEffect
  <2>3. job'[c] = [job[c] EXCEPT !.know = know]
    BY DEF Reconcile
  <2> HIDE DEF know
  <2>4. job'[c].know = know
    BY <2>1, <2>3 DEF Jobs
  <2>5. QED
    BY <2>1, <2>2, <2>3, <2>4 DEF Jobs
<1>3. job' \in [Commands -> Jobs]
  <2>1. job' = [c \in Commands |-> job'[c]]
    BY DEF Reconcile
  <2>2. QED
    BY <1>2, <2>1
<1>4. WorkTypeOK' /\ Named' /\ DeployedIsWhole'
  BY <1>1, <1>3 DEF WorkInv, WorkTypeOK, Named, DeployedIsWhole, Live
<1>5. ASSUME NEW c \in Commands, NEW m \in Names
      PROVE  KnowOK(c, m)'
  <2>1. KnowOK(c, m)
    BY DEF WorkInv
  <2>2. QED
    BY <1>1, <1>2, <2>1 DEF KnowOK
<1>6. \A c \in Commands : JobOK(c)'
  BY <1>1, <1>2 DEF WorkInv, JobOK
<1>7. \A d \in Deployers : d \in Commands /\ Progress(d)'
  BY <1>1, <1>2 DEF WorkInv, Progress, Made, Live, Commands
<1>8. ASSUME NEW d \in Deployers, NEW e \in Deployers
      PROVE  Apart(d, e)' /\ \A s \in Stacks : Undisputed(s, e)'
  <2>1. Apart(d, e) /\ \A s \in Stacks : Undisputed(s, e)
    BY DEF WorkInv
  <2>2. QED
    BY <1>1, <1>2, <1>7, <2>1 DEF Apart, Undisputed, Busy, Rivals
<1>9. QED
  BY <1>1, <1>4, <1>5, <1>6, <1>7, <1>8 DEF WorkInv

\* A command that starts knows nothing yet; those it rivals are no longer alone, and
\* nothing more is said of the stacks it rivals.
LEMMA BeginKeeps ==
  ASSUME WorkConstants, WorkInv, NEW d \in Deployers, NEW s \in Stacks,
         NEW step \in {"list", "listAll"}, NEW j \in Jobs, Begin(d, s, step, j),
         j.todo = {}, \A n \in Names : j.know[n] = "none",
         step = "list" => /\ j.declared # {} /\ j.declared \subseteq Nameable[s]
                          /\ j.spec \in Specs
  PROVE  WorkInv'
<1>0. d \in Commands /\ d \notin Operators /\ at[d] = "idle"
  BY DEF Begin, Commands, WorkConstants
<1>1. /\ UNCHANGED services /\ begun' \in Nat
      /\ at'[d] = step /\ \A e \in Commands \ {d} : at'[e] = at[e]
      /\ at' \in [Commands -> Steps]
  <2>1. begun \in Nat /\ begun' = begun + 1
    BY DEF Begin, WorkInv, WorkTypeOK
  <2>2. UNCHANGED services /\ at' = [at EXCEPT ![d] = step]
    BY DEF Begin
  <2>3. step \in Steps
    BY DEF Steps, DeploySteps
  <2>4. QED
    BY <1>0, <2>1, <2>2, <2>3 DEF WorkInv, WorkTypeOK
<1> DEFINE free == \A e \in Deployers : at[e] # "idle" => ~Rivals(s, job[e].stack)
<1>2. /\ job'[d] \in Jobs /\ job'[d].stack = s /\ job'[d].alone = free
      /\ job'[d].declared = j.declared /\ job'[d].spec = j.spec
      /\ job'[d].todo = j.todo /\ job'[d].know = j.know
  <2>1. job'[d] = [j EXCEPT !.stack = s, !.alone = free]
    BY <1>0 DEF Begin
  <2>2. free \in BOOLEAN
    OBVIOUS
  <2> HIDE DEF free
  <2>3. QED
    BY <2>1, <2>2 DEF Jobs
<1>3. ASSUME NEW e \in Commands \ {d}
      PROVE  /\ job'[e] \in Jobs
             /\ job'[e].stack = job[e].stack /\ job'[e].declared = job[e].declared
             /\ job'[e].spec = job[e].spec /\ job'[e].todo = job[e].todo
             /\ job'[e].know = job[e].know
             /\ job'[e].alone => job[e].alone
             /\ e \in Deployers /\ Busy(e) /\ job'[e].alone => ~Rivals(s, job[e].stack)
  <2>1. job[e] \in Jobs
    BY DEF WorkInv, WorkTypeOK
  <2>2. job'[e] = IF e \in Deployers /\ at[e] # "idle" /\ Rivals(s, job[e].stack)
                    THEN [job[e] EXCEPT !.alone = FALSE] ELSE job[e]
    BY DEF Begin
  <2>3. CASE e \in Deployers /\ at[e] # "idle" /\ Rivals(s, job[e].stack)
    <3>1. job'[e] = [job[e] EXCEPT !.alone = FALSE]
      BY <2>2, <2>3
    <3>2. QED
      BY <2>1, <3>1 DEF Jobs
  <2>4. CASE ~(e \in Deployers /\ at[e] # "idle" /\ Rivals(s, job[e].stack))
    BY <2>1, <2>2, <2>4 DEF Busy
  <2>5. QED
    BY <2>3, <2>4
<1>4. job' \in [Commands -> Jobs]
  <2>1. job' = [c \in Commands |-> job'[c]]
    BY DEF Begin
  <2>2. QED
    BY <1>2, <1>3, <2>1
<1>5. \A t \in Stacks : whole'[t] = IF Rivals(s, t) THEN NULL ELSE whole[t]
  BY DEF Begin
<1>6. whole' \in [Stacks -> Wholes \union {NULL}]
  BY DEF Begin, WorkInv, WorkTypeOK
<1>7. WorkTypeOK' /\ Named'
  BY <1>1, <1>4, <1>6 DEF WorkInv, WorkTypeOK, Named
<1>8. ASSUME NEW c \in Commands, NEW m \in Names
      PROVE  KnowOK(c, m)'
  <2>1. CASE c = d
    BY <1>1, <1>2, <2>1 DEF KnowOK
  <2>2. CASE c # d
    <3>1. KnowOK(c, m)
      BY DEF WorkInv
    <3>2. QED
      BY <1>1, <1>3, <2>2, <3>1 DEF KnowOK
  <2>3. QED
    BY <2>1, <2>2
<1>9. \A c \in Commands : JobOK(c)'
  <2>1. ASSUME NEW c \in Commands \ {d}
        PROVE  JobOK(c)'
    <3>1. JobOK(c)
      BY DEF WorkInv
    <3>2. QED
      BY <1>1, <1>3, <3>1 DEF JobOK
  <2>2. JobOK(d)'
    BY <1>0, <1>1, <1>2 DEF JobOK, DeploySteps, CallSteps
  <2>3. QED
    BY <2>1, <2>2
<1>10. ASSUME NEW e \in Deployers
       PROVE  Progress(e)'
  <2>1. CASE e = d
    BY <1>1, <1>2, <2>1 DEF Progress
  <2>2. CASE e # d
    <3>1. Progress(e) /\ e \in Commands
      BY DEF WorkInv, Commands
    <3>2. QED
      BY <1>1, <1>3, <2>2, <3>1 DEF Progress, Made, Live
  <2>3. QED
    BY <2>1, <2>2
<1>11. ASSUME NEW e \in Deployers, NEW f \in Deployers
       PROVE  Apart(e, f)'
  <2>1. e \in Commands /\ f \in Commands /\ Apart(e, f)
    BY DEF WorkInv, Commands
  <2>2. CASE e = d /\ f # d
    <3>1. job'[d].alone /\ Busy(f) => ~Rivals(s, job[f].stack)
      BY <1>2 DEF Busy
    <3>2. /\ job'[d].stack = s /\ job'[f].stack = job[f].stack /\ at'[f] = at[f]
      BY <1>1, <1>2, <1>3, <2>1, <2>2
    <3>3. QED
      BY <2>2, <3>1, <3>2 DEF Apart, Busy, Rivals
  <2>3. CASE e # d /\ f = d
    BY <1>1, <1>2, <1>3, <2>1, <2>3 DEF Apart, Busy, Rivals
  <2>4. CASE e # d /\ f # d
    BY <1>1, <1>3, <2>1, <2>4 DEF Apart, Busy, Rivals
  <2>5. QED
    BY <2>2, <2>3, <2>4 DEF Apart
<1>12. ASSUME NEW t \in Stacks, NEW e \in Deployers
       PROVE  Undisputed(t, e)'
  <2>1. e \in Commands /\ Undisputed(t, e)
    BY DEF WorkInv, Commands
  <2>2. CASE e = d
    BY <1>2, <1>5, <2>2 DEF Undisputed, Rivals
  <2>3. CASE e # d
    BY <1>1, <1>3, <1>5, <2>1, <2>3 DEF Undisputed, Busy, Rivals
  <2>4. QED
    BY <2>2, <2>3
<1>13. DeployedIsWhole' /\ \A t \in Stacks : whole'[t] # NULL => Nameable[t] # {}
  BY <1>1, <1>5 DEF WorkInv, DeployedIsWhole, Live
<1>14. QED
  BY <1>7, <1>8, <1>9, <1>10, <1>11, <1>12, <1>13 DEF WorkInv
-----------------------------------------------------------------------------
(* The invariant and what follows from it *)

LEMMA WorkInitially == WorkInit => WorkInv
<1> SUFFICES ASSUME WorkInit PROVE WorkInv
  OBVIOUS
<1>1. WorkTypeOK
  BY NoJobType DEF WorkInit, WorkTypeOK, Steps
<1>2. /\ \A c \in Commands : at[c] = "idle" /\ job[c] = NoJob
      /\ \A s \in Stacks : whole[s] = NULL
      /\ \A n \in Names : services[n] = NULL
  BY DEF WorkInit
<1>3. \A c \in Commands : JobOK(c) /\ \A n \in Names : KnowOK(c, n)
  BY <1>2, NoJobType DEF JobOK, KnowOK, DeploySteps, CallSteps
<1>4. \A d \in Deployers : d \in Commands
  BY DEF Commands
<1>5. QED
  BY <1>1, <1>2, <1>3, <1>4, NoJobType
     DEF WorkInv, Named, Apart, Undisputed, Busy, Progress, DeployedIsWhole

LEMMA WorkInvInductive ==
  ASSUME WorkConstants, WorkInv, [WorkNext]_workVars
  PROVE  WorkInv'
<1>1. ASSUME NEW n \in Names, Reconcile(n)
      PROVE  WorkInv'
  BY <1>1, ReconcileKeeps
<1>2. ASSUME NEW d \in Deployers, NEW s \in Stacks, NEW names \in SUBSET Nameable[s],
             NEW x \in Specs, names # {}, StartDeploy(d, s, names, x)
      PROVE  WorkInv'
  <2> DEFINE j == [NoJob EXCEPT !.declared = names, !.spec = x]
  <2>1. /\ j \in Jobs /\ j.todo = {} /\ j.declared = names /\ j.spec = x
        /\ \A n \in Names : j.know[n] = "none"
    BY NoJobType DEF Jobs, WorkConstants
  <2>2. Begin(d, s, "list", j)
    BY <1>2 DEF StartDeploy
  <2> HIDE DEF j
  <2>3. QED
    BY <1>2, <2>1, <2>2, BeginKeeps
<1>3. ASSUME NEW d \in Deployers, NEW s \in Stacks, StartRemove(d, s)
      PROVE  WorkInv'
  BY <1>3, BeginKeeps, NoJobType DEF StartRemove
<1>4. ASSUME NEW d \in Deployers,
             ListServices(d) \/ ListLeft(d) \/ ListForce(d) \/ EndDeploy(d) \/ ListAll(d) \/ Remove(d)
      PROVE  WorkInv'
  BY <1>4, ListKeeps, ListLeftKeeps, ListForceKeeps, EndDeployKeeps, ListAllKeeps, RemoveKeeps
<1>5. ASSUME NEW d \in Deployers, NEW n \in Names,
             Apply(d, n) \/ Prune(d, n) \/ ForceRead(d, n) \/ ForcePush(d, n)
      PROVE  WorkInv'
  BY <1>5, ApplyKeeps, PruneKeeps, ForceReadKeeps, ForcePushKeeps
<1>6. ASSUME NEW o \in Operators, NEW s \in Stacks, NEW n \in Nameable[s], Resolve(o, s, n)
      PROVE  WorkInv'
  BY <1>6, ResolveKeeps
<1>7. ASSUME NEW o \in Operators, NEW n \in Names, Inspect(o, n) \/ Restart(o, n)
      PROVE  WorkInv'
  BY <1>7, InspectKeeps, RestartKeeps
<1>8. ASSUME NEW o \in Operators, Exec(o)
      PROVE  WorkInv'
  BY <1>8, OverKeeps, CallFacts DEF Exec
<1>9. CASE UNCHANGED workVars
  BY <1>9 DEF workVars, WorkInv, WorkTypeOK, Named, JobOK, KnowOK, Apart, Undisputed, Busy, Rivals,
              Progress, Made, Live, DeployedIsWhole
<1>10. QED
  BY <1>1, <1>2, <1>3, <1>4, <1>5, <1>6, <1>7, <1>8, <1>9 DEF WorkNext

LEMMA WorkInvAlways == ASSUME WorkConstants PROVE WorkSpec => []WorkInv
<1>1. WorkInv /\ [WorkNext]_workVars => WorkInv'
  BY WorkInvInductive
<1>2. QED
  BY <1>1, WorkInitially, PTL DEF WorkSpec

\* DeployStack, with its prune and its forced restarts: when it reports success and
\* no other command shared its names, the stack runs exactly what the file declares,
\* whatever restarts, reconciliations and retries came between its steps.
THEOREM DeploymentsAreWhole == WorkSpec => [](WorkTypeOK /\ DeployedIsWhole)
<1>1. WorkInv => WorkTypeOK /\ DeployedIsWhole
  BY DEF WorkInv
<1>2. QED
  BY <1>1, WorkInvAlways, WorkAssumption, PTL

\* resolve demands the label of the stack and what follows goes by the id: a call that
\* still finds a service acts on one of its own stack, even where two stacks have
\* services of one full name that come and go.
THEOREM CallsStayInTheirStack == WorkSpec => []CallsHitTheirStack
<1>1. WorkInv => CallsHitTheirStack
  <2> SUFFICES ASSUME WorkInv, NEW o \in Operators, NEW n \in Names, at[o] # "idle",
                      job[o].know[n] \in {"fresh", "stale"}
               PROVE  services[n].stack = job[o].stack
    BY DEF CallsHitTheirStack
  <2>1. KnowOK(o, n) /\ JobOK(o)
    BY CallFacts, WorkAssumption DEF WorkInv
  <2>2. at[o] \notin {"force", "push"}
    BY <2>1 DEF JobOK, CallSteps
  <2>3. QED
    BY <2>1, <2>2 DEF KnowOK
<1>2. QED
  BY <1>1, WorkInvAlways, WorkAssumption, PTL

\* The other commands change nothing that a service runs: they take services away, or
\* write back what is there.
LEMMA OnlyApplyChanges ==
  ASSUME WorkConstants, WorkInv, [WorkNext]_workVars
  PROVE  OnlyDeploysChange
<1> DEFINE Kept == \A n \in Names : services'[n] # NULL => services'[n] = services[n]
<1>0. WorkTypeOK
  BY DEF WorkInv
<1>1. ASSUME NEW d \in Deployers, NEW n \in Names, Apply(d, n)
      PROVE  OnlyDeploysChange
  <2>1. CASE UNCHANGED services
    BY <2>1 DEF OnlyDeploysChange
  <2>2. CASE services' = [services EXCEPT ![n] = [stack |-> job[d].stack, spec |-> job[d].spec]]
    BY <1>0, <1>1, <2>2 DEF OnlyDeploysChange, Apply, WorkTypeOK
  <2>3. QED
    BY <1>1, <2>1, <2>2 DEF Apply, Again, Over, GoTo, Change
<1>2. ASSUME NEW d \in Deployers, NEW n \in Names, Prune(d, n) \/ ForceRead(d, n) \/ ForcePush(d, n)
      PROVE  Kept
  BY <1>0, <1>2 DEF Prune, ForceRead, ForcePush, Again, Over, GoTo, Change, WorkTypeOK
<1>3. ASSUME NEW d \in Deployers,
             ListServices(d) \/ ListLeft(d) \/ ListForce(d) \/ EndDeploy(d) \/ ListAll(d) \/ Remove(d)
      PROVE  Kept
  BY <1>0, <1>3 DEF ListServices, ListLeft, ListForce, EndDeploy, Complete, ListAll, Remove, Over, GoTo,
                    Change, WorkTypeOK
<1>4. ASSUME NEW o \in Operators, NEW n \in Names, Restart(o, n)
      PROVE  Kept
  BY <1>0, <1>4, RestartWritesBack DEF Over, GoTo, Change, WorkTypeOK
<1>5. ASSUME NEW d \in Deployers, NEW s \in Stacks, NEW step, NEW j, Begin(d, s, step, j)
      PROVE  Kept
  BY <1>5 DEF Begin
<1>6. ASSUME WorkNext
      PROVE  OnlyDeploysChange
  <2>1. Kept => OnlyDeploysChange
    BY DEF OnlyDeploysChange
  <2> HIDE DEF Kept
  <2>2. ASSUME NEW n \in Names, Reconcile(n) PROVE Kept
    BY <2>2 DEF Reconcile, Kept
  <2>3. ASSUME NEW o \in Operators, NEW s, NEW n, Resolve(o, s, n) \/ Inspect(o, n) \/ Exec(o)
        PROVE  Kept
    BY <2>3 DEF Resolve, Inspect, Exec, Over, GoTo, Kept
  <2>4. ASSUME NEW d \in Deployers, NEW s \in Stacks, NEW names, NEW x,
               StartDeploy(d, s, names, x) \/ StartRemove(d, s)
        PROVE  Kept
    BY <1>5, <2>4 DEF StartDeploy, StartRemove
  <2>5. ASSUME NEW d \in Deployers,
               \/ \E s \in Stacks :
                    \/ \E names \in SUBSET Nameable[s], x \in Specs :
                         names # {} /\ StartDeploy(d, s, names, x)
                    \/ StartRemove(d, s)
               \/ ListServices(d) \/ ListLeft(d) \/ ListForce(d) \/ EndDeploy(d) \/ ListAll(d) \/ Remove(d)
               \/ \E n \in Names : Apply(d, n) \/ Prune(d, n) \/ ForceRead(d, n) \/ ForcePush(d, n)
        PROVE  OnlyDeploysChange
    <3>1. CASE \E n \in Names : Apply(d, n)
      BY <1>1, <3>1
    <3>2. CASE ~\E n \in Names : Apply(d, n)
      BY <1>2, <1>3, <2>1, <2>4, <2>5, <3>2
    <3>3. QED
      BY <3>1, <3>2
  <2>6. ASSUME NEW o \in Operators,
               \/ \E s \in Stacks : \E n \in Nameable[s] : Resolve(o, s, n)
               \/ \E n \in Names : Inspect(o, n) \/ Restart(o, n)
               \/ Exec(o)
        PROVE  Kept
    BY <1>4, <2>3, <2>6
  <2>7. QED
    BY <1>6, <2>1, <2>2, <2>5, <2>6 DEF WorkNext
<1>7. CASE UNCHANGED workVars
  BY <1>7 DEF workVars, OnlyDeploysChange
<1>8. QED
  BY <1>6, <1>7

\* ServiceRestart writes back a whole specification with the version it read it at:
\* what a service runs changes only when a deployment that declares it applies it.
THEOREM RestartsBringNothingBack == WorkSpec => RestartKeepsSpec
<1>1. WorkInv /\ [WorkNext]_workVars => [OnlyDeploysChange]_workVars
  BY OnlyApplyChanges, WorkAssumption
<1>2. QED
  BY <1>1, WorkInvAlways, WorkAssumption, PTL DEF WorkSpec, RestartKeepsSpec

-----------------------------------------------------------------------------
(* The edge: the inductive invariant *)

BucketRows == [tokens : 0 .. Burst, at : Nat, last : Nat]
Reqs == [kind : Limited \union {"health"}, origin : Clients \union {NULL},
         ip : Clients \union {NULL}, status : Statuses, asked : Nat]

\* The buckets, the failures, the bans and the requests are of the right shape.
ShieldTypeOK ==
  /\ clock \in Nat /\ sent \in Nat
  /\ buckets \in [Keys -> BucketRows \union {NULL}]
  /\ fails \in [Clients -> Nat] /\ until \in [Clients -> Nat \union {NULL}]
  /\ where \in [Requests -> Stages] /\ req \in [Requests -> Reqs]
  /\ granted \in [Keys -> Seq(Nat)]

\* A request under way is held against the address it comes from.
ReqOK(r) ==
  /\ where[r] # "idle" => req[r].ip \in Clients /\ req[r].ip = req[r].origin
  /\ where[r] = "limit" => req[r].kind \in Limited

Fits == Burst <= Rate * IdleTTL

\* The requests that were let through, at the times g: none is later than t; from any of
\* them on, they and the tokens left at t are no more than the burst and what came in;
\* from some of them on, they are no less, for nothing was lost in a full bucket since.
Before(g, t)        == \A i \in 1 .. Len(g) : g[i] <= t
AtMost(g, left, t)  == \A i \in 1 .. Len(g) : Len(g) - i + 1 + left <= Burst + Rate * (t - g[i])
AtLeast(g, left, t) == \E i \in 1 .. Len(g) : Len(g) - i + 1 + left >= Burst + Rate * (t - g[i])
Within(g) ==
  \A i, j \in 1 .. Len(g) : i <= j => j - i + 1 <= Burst + Rate * (g[j] - g[i])

\* A bucket that exists accounts for every request let through; one that does not would
\* be full by now.
Accounted(g, b) ==
  /\ b.last = b.at /\ b.at <= clock /\ Before(g, b.at)
  /\ (Fits => AtMost(g, b.tokens, b.at)) /\ AtLeast(g, b.tokens, b.at)
KeyOK(k) ==
  /\ Before(granted[k], clock) /\ (Fits => Within(granted[k]))
  /\ IF buckets[k] # NULL THEN Accounted(granted[k], buckets[k])
                          ELSE Fits => AtMost(granted[k], Burst, clock)

\* The span in which a throttled request's own address has used up its tokens.
Spent(g, now) ==
  \E m \in 1 .. Len(g) : \E i \in 1 .. m :
    /\ \A j \in i .. m : g[j] <= now
    /\ m - i + 1 >= Burst + Rate * (now - g[i])
ThrottleOK(r) ==
  req[r].status = "throttled" =>
    /\ req[r].kind \in Limited /\ req[r].ip \in Clients
    /\ Spent(granted[<<req[r].kind, req[r].ip>>], req[r].asked)

ShieldInv ==
  /\ ShieldTypeOK /\ \A r \in Requests : ReqOK(r) /\ ThrottleOK(r)
  /\ \A k \in Keys : KeyOK(k)
  /\ OffendersAreBanned

-----------------------------------------------------------------------------
(* The address of the client *)

\* Whatever header a client sends, at whatever length, RealIP finds the client: alone,
\* and behind a trusted proxy that appends its address.
LEMMA RealIPDirect ==
  ASSUME NEW S, NEW xff \in Seq(S), NEW c, c \notin Proxies
  PROVE  RealIP(c, xff) = c
<1> DEFINE chain == Append(xff, c)
           untrusted == {i \in DOMAIN chain : chain[i] \notin Proxies}
           n == Len(xff) + 1
<1>1. /\ n \in Nat /\ DOMAIN chain = 1 .. n /\ chain[n] = c
  OBVIOUS
<1>2. n \in untrusted /\ \A i \in untrusted : i <= n /\ i \in Nat
  BY <1>1
<1>3. (CHOOSE i \in untrusted : \A j \in untrusted : j <= i) = n
  BY <1>1, <1>2
<1>4. QED
  BY <1>1, <1>2, <1>3 DEF RealIP

LEMMA RealIPThrough ==
  ASSUME NEW S, NEW xff \in Seq(S), NEW c \in S, c \notin Proxies, NEW p \in Proxies
  PROVE  RealIP(p, Append(xff, c)) = c
<1> DEFINE chain == Append(Append(xff, c), p)
           untrusted == {i \in DOMAIN chain : chain[i] \notin Proxies}
           n == Len(xff) + 1
<1>1. /\ n \in Nat /\ DOMAIN chain = 1 .. n + 1 /\ chain[n] = c /\ chain[n + 1] = p
  OBVIOUS
<1>2. n \in untrusted /\ \A i \in untrusted : i <= n /\ i \in Nat
  BY <1>1
<1>3. (CHOOSE i \in untrusted : \A j \in untrusted : j <= i) = n
  BY <1>1, <1>2
<1>4. QED
  BY <1>1, <1>2, <1>3 DEF RealIP

-----------------------------------------------------------------------------
(* The arithmetic of a bucket *)

LEMMA RateTimes ==
  ASSUME ShieldConstants, NEW a \in Int, NEW b \in Int, NEW c \in Int
  PROVE  /\ Rate * (a - b) \in Int
         /\ a <= b => Rate * (a - c) <= Rate * (b - c)
         /\ Rate * (a - c) = Rate * (a - b) + Rate * (b - c)
         /\ Rate * (a - a) = 0
<1>1. Rate \in Nat
  BY DEF ShieldConstants
<1>2. Rate * (a - b) \in Int /\ Rate * (b - a) \in Int
  BY <1>1
<1>3. Rate * (a - c) = Rate * (a - b) + Rate * (b - c)
  BY <1>1
<1>4. Rate * (b - c) = Rate * (b - a) + Rate * (a - c) /\ Rate * (a - c) \in Int
  BY <1>1
<1>5. a <= b => Rate * (b - a) >= 0
  BY <1>1
<1>6. Rate * (a - a) = 0
  BY <1>1
<1>7. QED
  BY <1>2, <1>3, <1>4, <1>5, <1>6

\* What came in since is left, up to a full bucket.
LEMMA Later ==
  ASSUME ShieldConstants, NEW g \in Seq(Nat), NEW left \in Nat, NEW s \in Nat, NEW t \in Nat,
         s <= t, Before(g, s), NEW more \in Nat
  PROVE  /\ Before(g, t) /\ Rate * (t - s) \in Nat
         /\ AtMost(g, left, s) /\ more <= left + Rate * (t - s) => AtMost(g, more, t)
         /\ AtLeast(g, left, s) /\ more >= left + Rate * (t - s) => AtLeast(g, more, t)
<1>1. Rate \in Nat /\ Burst \in Nat /\ Len(g) \in Nat /\ \A i \in 1 .. Len(g) : g[i] \in Nat
  BY DEF ShieldConstants
<1>2. PICK x \in Int : x = Rate * (t - s)
  BY <1>1
<1>3. x \in Nat
  <2>1. s \in Int /\ t \in Int
    OBVIOUS
  <2>2. Rate * (s - s) <= Rate * (t - s) /\ Rate * (s - s) = 0
    BY <2>1, RateTimes
  <2>3. QED
    BY <1>2, <2>2
<1>4. ASSUME NEW i \in 1 .. Len(g)
      PROVE  /\ Rate * (s - g[i]) \in Int
             /\ Rate * (t - g[i]) = x + Rate * (s - g[i])
  BY <1>1, <1>2, RateTimes
<1>5. Before(g, t)
  BY <1>1 DEF Before
<1>6. ASSUME AtMost(g, left, s), more <= left + x, more \in Nat, left \in Nat
      PROVE  AtMost(g, more, t)
  <2>1. SUFFICES ASSUME NEW i \in 1 .. Len(g)
                 PROVE  Len(g) - i + 1 + more <= Burst + Rate * (t - g[i])
    BY DEF AtMost
  <2>2. PICK y \in Int : y = Rate * (s - g[i]) /\ Rate * (t - g[i]) = x + y
    BY <1>4
  <2>3. Len(g) - i + 1 + left <= Burst + y
    BY <1>6, <2>2 DEF AtMost
  <2>4. Len(g) - i + 1 + more <= Burst + (x + y)
    <3>1. y \in Int /\ i \in Int
      BY <1>1, <2>1, <2>2
    <3>2. QED
      BY <1>1, <1>3, <1>6, <2>3, <3>1
  <2>5. QED
    BY <2>2, <2>4
<1>7. ASSUME AtLeast(g, left, s), more >= left + x
      PROVE  AtLeast(g, more, t)
  <2>1. PICK i \in 1 .. Len(g) : Len(g) - i + 1 + left >= Burst + Rate * (s - g[i])
    BY <1>7 DEF AtLeast
  <2>2. PICK y \in Int : y = Rate * (s - g[i]) /\ Rate * (t - g[i]) = x + y
    BY <1>4
  <2>3. Len(g) - i + 1 + left >= Burst + y
    BY <2>1, <2>2
  <2>4. Len(g) - i + 1 + more >= Burst + (x + y)
    <3>1. y \in Int /\ i \in Int
      BY <1>1, <2>1, <2>2
    <3>2. QED
      BY <1>1, <1>3, <1>7, <2>3, <3>1
  <2>5. QED
    BY <2>2, <2>4 DEF AtLeast
<1>8. QED
  BY <1>2, <1>3, <1>5, <1>6, <1>7

\* A token is spent on a request.
LEMMA Grant ==
  ASSUME ShieldConstants, NEW g \in Seq(Nat), NEW t \in Nat, NEW left \in 1 .. Burst,
         Before(g, t)
  PROVE  /\ Append(g, t) \in Seq(Nat) /\ Before(Append(g, t), t)
         /\ AtMost(g, left, t) => AtMost(Append(g, t), left - 1, t)
         /\ AtMost(g, left, t) /\ Within(g) => Within(Append(g, t))
         /\ AtLeast(g, left, t) \/ left = Burst => AtLeast(Append(g, t), left - 1, t)
<1>1. Rate \in Nat /\ Burst \in Nat /\ Len(g) \in Nat /\ \A i \in 1 .. Len(g) : g[i] \in Nat
  BY DEF ShieldConstants
<1>2. PICK h \in Seq(Nat) : h = Append(g, t)
  <2>1. Append(g, t) \in Seq(Nat)
    OBVIOUS
  <2>2. QED
    BY <2>1
<1>3. /\ Len(h) = Len(g) + 1 /\ h[Len(g) + 1] = t
      /\ \A i \in 1 .. Len(g) : h[i] = g[i]
      /\ \A i \in 1 .. Len(h) : i \in 1 .. Len(g) \/ i = Len(g) + 1
  BY <1>1, <1>2
<1>4. Rate * (t - t) = 0 /\ \A i \in 1 .. Len(h) : h[i] \in Nat /\ Rate * (t - h[i]) \in Int
  BY <1>1, <1>3, RateTimes
<1>5. Before(h, t)
  BY <1>1, <1>3 DEF Before
<1>6. ASSUME AtMost(g, left, t)
      PROVE  AtMost(h, left - 1, t)
  <2>1. SUFFICES ASSUME NEW i \in 1 .. Len(h)
                 PROVE  Len(h) - i + 1 + (left - 1) <= Burst + Rate * (t - h[i])
    BY DEF AtMost
  <2>2. PICK y \in Int : y = Rate * (t - h[i])
    BY <1>4
  <2>3. CASE i \in 1 .. Len(g)
    <3>1. Len(g) - i + 1 + left <= Burst + y
      BY <1>3, <1>6, <2>2, <2>3 DEF AtMost
    <3>2. QED
      BY <1>1, <1>3, <2>2, <3>1
  <2>4. CASE i = Len(g) + 1
    BY <1>1, <1>3, <1>4, <2>4
  <2>5. QED
    BY <1>3, <2>3, <2>4
<1>7. ASSUME AtMost(g, left, t), Within(g)
      PROVE  Within(h)
  <2>1. SUFFICES ASSUME NEW i \in 1 .. Len(h), NEW j \in 1 .. Len(h), i <= j
                 PROVE  j - i + 1 <= Burst + Rate * (h[j] - h[i])
    BY DEF Within
  <2>2. CASE j \in 1 .. Len(g)
    <3>1. i \in 1 .. Len(g)
      BY <1>1, <1>3, <2>1, <2>2
    <3>2. QED
      BY <1>3, <1>7, <2>1, <2>2, <3>1 DEF Within
  <2>3. CASE j = Len(g) + 1
    <3>1. PICK y \in Int : y = Rate * (t - h[i])
      BY <1>4
    <3>2. Len(h) - i + 1 + (left - 1) <= Burst + y
      BY <1>6, <1>7, <3>1 DEF AtMost
    <3>3. h[j] = t
      BY <1>3, <2>3
    <3>4. QED
      BY <1>1, <1>3, <2>3, <3>1, <3>2, <3>3
  <2>4. QED
    BY <1>3, <2>2, <2>3
<1>8. ASSUME AtLeast(g, left, t)
      PROVE  AtLeast(h, left - 1, t)
  <2>1. PICK i \in 1 .. Len(g) : Len(g) - i + 1 + left >= Burst + Rate * (t - g[i])
    BY <1>8 DEF AtLeast
  <2>2. i \in 1 .. Len(h) /\ h[i] = g[i]
    BY <1>1, <1>3
  <2>3. PICK y \in Int : y = Rate * (t - g[i])
    BY <1>4, <2>2
  <2>4. Len(h) - i + 1 + (left - 1) >= Burst + Rate * (t - h[i])
    BY <1>1, <1>3, <2>1, <2>2, <2>3
  <2>5. QED
    BY <2>2, <2>4 DEF AtLeast
<1>9. ASSUME left = Burst
      PROVE  AtLeast(h, left - 1, t)
  <2>1. /\ Len(g) + 1 \in 1 .. Len(h)
        /\ Len(h) - (Len(g) + 1) + 1 + (left - 1) >= Burst + Rate * (t - h[Len(g) + 1])
    BY <1>1, <1>3, <1>4, <1>9
  <2>2. QED
    BY <2>1 DEF AtLeast
<1>10. QED
  BY <1>2, <1>5, <1>6, <1>7, <1>8, <1>9

-----------------------------------------------------------------------------
(* The bucket of a request *)

\* What a bucket holds when it is looked at, made or filled up.
LEMMA BucketFacts ==
  ASSUME ShieldConstants, ShieldTypeOK, NEW k \in Keys, KeyOK(k)
  PROVE  /\ Bucket(k) \in 0 .. Burst
         /\ Fits => AtMost(granted[k], Bucket(k), clock)
         /\ Bucket(k) = Burst \/ AtLeast(granted[k], Bucket(k), clock)
<1>1. PICK g \in Seq(Nat), now \in Nat : g = granted[k] /\ now = clock
  BY DEF ShieldTypeOK
<1>2. Rate \in Nat /\ Burst \in Nat /\ Burst > 0
  BY DEF ShieldConstants
<1>3. CASE buckets[k] = NULL
  BY <1>2, <1>3 DEF Bucket, KeyOK
<1>4. CASE buckets[k] # NULL
  <2>1. PICK b \in BucketRows : b = buckets[k]
    BY <1>4 DEF ShieldTypeOK
  <2>2. /\ b.tokens \in 0 .. Burst /\ b.tokens \in Nat /\ b.at \in Nat /\ b.at <= now
        /\ Before(g, b.at)
        /\ (Fits => AtMost(g, b.tokens, b.at)) /\ AtLeast(g, b.tokens, b.at)
    BY <1>1, <1>2, <1>4, <2>1 DEF KeyOK, Accounted, BucketRows
  <2>3. PICK t \in Nat : t = b.tokens + Rate * (now - b.at)
    BY <2>2, Later
  <2>4. PICK x : x = Bucket(k)
    OBVIOUS
  <2>5. x = IF t > Burst THEN Burst ELSE t
    BY <1>1, <1>4, <2>1, <2>3, <2>4 DEF Bucket, Filled
  <2>6. x \in 0 .. Burst /\ x \in Nat /\ x <= t /\ (x = Burst \/ x >= t)
    BY <1>2, <2>5
  <2>7. Fits => AtMost(g, x, now)
    BY <2>2, <2>3, <2>6, Later
  <2>8. x = Burst \/ AtLeast(g, x, now)
    BY <2>2, <2>3, <2>6, Later
  <2>9. QED
    BY <1>1, <2>4, <2>6, <2>7, <2>8
<1>5. QED
  BY <1>3, <1>4

\* A request is let through, or turned away for want of a token.
LEMMA TakenKeeps ==
  ASSUME ShieldConstants, ShieldTypeOK, NEW k \in Keys, KeyOK(k), clock' = clock,
         buckets'[k] = [tokens |-> IF Bucket(k) > 0 THEN Bucket(k) - 1 ELSE 0,
                        at |-> clock, last |-> clock],
         granted'[k] = IF Bucket(k) > 0 THEN Append(granted[k], clock) ELSE granted[k]
  PROVE  /\ buckets'[k] \in BucketRows /\ granted'[k] \in Seq(Nat) /\ KeyOK(k)'
         /\ Bucket(k) = 0 => AtLeast(granted[k], 0, clock)
<1>1. PICK g \in Seq(Nat), now \in Nat, t \in 0 .. Burst :
        g = granted[k] /\ now = clock /\ t = Bucket(k)
  <2>1. Bucket(k) \in 0 .. Burst
    BY BucketFacts
  <2>2. granted[k] \in Seq(Nat) /\ clock \in Nat
    BY DEF ShieldTypeOK
  <2>3. QED
    BY <2>1, <2>2
<1>2. /\ Burst \in Nat /\ Burst > 0 /\ t \in 0 .. Burst /\ t \in Nat
      /\ Fits => AtMost(g, t, now)
      /\ t = Burst \/ AtLeast(g, t, now)
  BY <1>1, BucketFacts DEF ShieldConstants
<1>3. Before(g, now) /\ (Fits => Within(g))
  BY <1>1 DEF KeyOK
<1>4. PICK b, h : b = buckets'[k] /\ h = granted'[k]
  OBVIOUS
<1>5. /\ b = [tokens |-> IF t > 0 THEN t - 1 ELSE 0, at |-> now, last |-> now]
      /\ h = IF t > 0 THEN Append(g, now) ELSE g
  BY <1>1, <1>4
<1>6. /\ b \in BucketRows /\ b # NULL /\ b.at = now /\ b.last = now
      /\ b.tokens = IF t > 0 THEN t - 1 ELSE 0
  BY <1>2, <1>5 DEF BucketRows, ShieldConstants
<1>7. /\ h \in Seq(Nat) /\ Before(h, now) /\ (Fits => Within(h))
      /\ (Fits => AtMost(h, b.tokens, now)) /\ AtLeast(h, b.tokens, now)
  <2>1. CASE t > 0
    <3>1. t \in 1 .. Burst
      BY <1>2, <2>1
    <3>2. QED
      BY <1>2, <1>3, <1>5, <1>6, <2>1, <3>1, Grant
  <2>2. CASE t = 0
    BY <1>2, <1>3, <1>5, <1>6, <2>2
  <2>3. QED
    BY <1>2, <2>1, <2>2
<1>8. KeyOK(k)'
  <2>1. Accounted(h, b)'
    BY <1>1, <1>6, <1>7 DEF Accounted
  <2>2. QED
    BY <1>1, <1>4, <1>6, <1>7, <2>1 DEF KeyOK
<1>9. QED
  BY <1>1, <1>2, <1>4, <1>6, <1>7, <1>8

\* A bucket that is not looked at stays, or is evicted when it would be full.
LEMMA OthersKeep ==
  ASSUME ShieldConstants, ShieldTypeOK, NEW j \in Keys, KeyOK(j), clock' = clock,
         granted'[j] = granted[j],
         buckets'[j] = buckets[j] \/ (Idle(j) /\ buckets'[j] = NULL)
  PROVE  KeyOK(j)'
<1>1. PICK g \in Seq(Nat), now \in Nat : g = granted[j] /\ now = clock
  BY DEF ShieldTypeOK
<1>2. CASE buckets'[j] = buckets[j]
  BY <1>2 DEF KeyOK, Accounted, Fits
<1>3. CASE Idle(j) /\ buckets'[j] = NULL
  <2>1. PICK b \in BucketRows : b = buckets[j]
    BY <1>3 DEF ShieldTypeOK, Idle
  <2>2. /\ b.tokens \in Nat /\ b.at \in Nat /\ b.at <= now /\ now - b.at > IdleTTL
        /\ Before(g, b.at) /\ (Fits => AtMost(g, b.tokens, b.at))
    BY <1>1, <1>3, <2>1 DEF KeyOK, Accounted, BucketRows, Idle, ShieldConstants
  <2>3. Rate \in Nat /\ IdleTTL \in Nat /\ Burst \in Nat
    BY DEF ShieldConstants
  <2>4. PICK x \in Nat : x = Rate * (now - b.at)
    BY <2>2, Later
  <2>5. Rate * IdleTTL <= x /\ Rate * IdleTTL \in Int
    <3>1. PICK d \in Nat : d = now - b.at
      BY <2>2
    <3>2. IdleTTL \in Int /\ d \in Int /\ 0 \in Int /\ IdleTTL <= d
      BY <2>2, <2>3, <3>1
    <3>3. Rate * (IdleTTL - 0) <= Rate * (d - 0)
      BY <3>2, RateTimes
    <3>4. QED
      BY <2>3, <2>4, <3>1, <3>3
  <2>6. ASSUME Fits
        PROVE  AtMost(g, Burst, now)
    <3>1. Burst <= b.tokens + x
      BY <2>2, <2>3, <2>5, <2>6 DEF Fits
    <3>2. QED
      BY <2>2, <2>3, <2>4, <2>6, <3>1, Later
  <2>7. QED
    BY <1>1, <1>3, <2>6 DEF KeyOK, Fits
<1>4. QED
  BY <1>2, <1>3

\* Time passes: what is accounted for stays so.
LEMMA PassKeeps ==
  ASSUME ShieldConstants, ShieldTypeOK, NEW k \in Keys, KeyOK(k),
         clock' = clock + 1, buckets' = buckets, granted' = granted
  PROVE  KeyOK(k)'
<1>1. PICK g \in Seq(Nat), now \in Nat, then \in Nat :
        g = granted[k] /\ now = clock /\ then = now + 1
  BY DEF ShieldTypeOK
<1>2. Before(g, now) /\ Before(g, then)
  BY <1>1, Later DEF KeyOK
<1>3. CASE buckets[k] = NULL
  <2>1. Burst \in Nat /\ Rate * (then - now) \in Nat
    BY <1>1, <1>2, Later DEF ShieldConstants
  <2>2. Fits => AtMost(g, Burst, then)
    <3>1. Burst <= Burst + Rate * (then - now)
      BY <2>1
    <3>2. QED
      BY <1>1, <1>2, <1>3, <2>1, <3>1, Later DEF KeyOK
  <2>3. QED
    BY <1>1, <1>2, <1>3, <2>2 DEF KeyOK, Fits
<1>4. CASE buckets[k] # NULL
  <2>1. buckets[k].at \in Nat /\ buckets[k].at <= then /\ then = clock'
    BY <1>1, <1>4 DEF KeyOK, Accounted, ShieldTypeOK, BucketRows
  <2>2. QED
    BY <1>1, <1>2, <1>4, <2>1 DEF KeyOK, Accounted, Fits
<1>5. QED
  BY <1>3, <1>4

\* The span in which tokens were used up stays where it is.
LEMMA SpentIsKept ==
  ASSUME ShieldConstants, NEW g \in Seq(Nat), NEW t \in Nat, NEW now \in Nat
  PROVE  /\ AtLeast(g, 0, now) /\ Before(g, now) => Spent(g, now)
         /\ Spent(g, now) => Spent(Append(g, t), now)
<1>1. Len(g) \in Nat /\ Burst \in Nat /\ Rate \in Nat /\ \A i \in 1 .. Len(g) : g[i] \in Nat
  BY DEF ShieldConstants
<1>2. ASSUME AtLeast(g, 0, now), Before(g, now)
      PROVE  Spent(g, now)
  <2>1. PICK i \in 1 .. Len(g) : Len(g) - i + 1 + 0 >= Burst + Rate * (now - g[i])
    BY <1>2 DEF AtLeast
  <2>2. /\ Len(g) \in 1 .. Len(g) /\ i \in 1 .. Len(g) /\ \A j \in i .. Len(g) : g[j] <= now
        /\ Len(g) - i + 1 + 0 = Len(g) - i + 1
    BY <1>1, <1>2 DEF Before
  <2>3. QED
    BY <2>1, <2>2 DEF Spent
<1>3. ASSUME Spent(g, now)
      PROVE  Spent(Append(g, t), now)
  <2>0. PICK m \in 1 .. Len(g) : \E i \in 1 .. m :
          /\ \A j \in i .. m : g[j] <= now
          /\ m - i + 1 >= Burst + Rate * (now - g[i])
    BY <1>3 DEF Spent
  <2>1. PICK i \in 1 .. m :
          /\ \A j \in i .. m : g[j] <= now
          /\ m - i + 1 >= Burst + Rate * (now - g[i])
    BY <2>0
  <2>2. PICK h : h = Append(g, t)
    OBVIOUS
  <2>3. /\ m \in 1 .. Len(h) /\ h[i] = g[i]
        /\ \A j \in i .. m : h[j] = g[j]
    BY <1>1, <2>2
  <2>4. QED
    BY <2>1, <2>2, <2>3 DEF Spent
<1>4. QED
  BY <1>2, <1>3

-----------------------------------------------------------------------------
(* The inductive invariant holds *)

LEMMA ShieldInitially == ASSUME ShieldConstants, ShieldInit PROVE ShieldInv
<1>1. ShieldTypeOK
  BY DEF ShieldInit, ShieldTypeOK, Stages, Reqs, NoReq, Statuses
<1>2. \A r \in Requests : ReqOK(r) /\ ThrottleOK(r)
  BY DEF ShieldInit, ReqOK, ThrottleOK, NoReq
<1>3. ASSUME NEW k \in Keys
      PROVE  KeyOK(k)
  <2>1. buckets[k] = NULL /\ granted[k] = <<>> /\ Len(<<>>) = 0
    BY DEF ShieldInit
  <2>2. QED
    BY <2>1 DEF KeyOK, Before, Within, AtMost
<1>4. OffendersAreBanned
  BY DEF ShieldConstants, ShieldInit, OffendersAreBanned
<1>5. QED
  BY <1>1, <1>2, <1>3, <1>4 DEF ShieldInv

\* What an action keeps that leaves the buckets and the clock alone.
LEMMA KeysFrame ==
  ASSUME ShieldInv, UNCHANGED <<clock, buckets, granted>>
  PROVE  \A k \in Keys : KeyOK(k)'
BY DEF ShieldInv, KeyOK, Accounted, Fits

\* What it keeps of the requests it does not touch.
LEMMA ReqsFrame ==
  ASSUME ShieldInv, UNCHANGED granted,
         NEW r \in Requests, NEW stage, NEW row,
         where' = [where EXCEPT ![r] = stage], req' = [req EXCEPT ![r] = row],
         stage # "idle" => row.ip \in Clients /\ row.ip = row.origin,
         stage = "limit" => row.kind \in Limited,
         row.status = "throttled" =>
           /\ req[r].status = "throttled" /\ row.asked = req[r].asked
           /\ row.kind = req[r].kind /\ row.ip = req[r].ip
  PROVE  \A q \in Requests : ReqOK(q)' /\ ThrottleOK(q)'
<1>1. SUFFICES ASSUME NEW q \in Requests
               PROVE  ReqOK(q)' /\ ThrottleOK(q)'
  OBVIOUS
<1>2. /\ where'[q] = IF q = r THEN stage ELSE where[q]
      /\ req'[q] = IF q = r THEN row ELSE req[q]
      /\ ReqOK(q) /\ ThrottleOK(q)
  BY DEF ShieldInv, ShieldTypeOK
<1>3. CASE q = r
  BY <1>2, <1>3 DEF ReqOK, ThrottleOK
<1>4. CASE q # r
  BY <1>2, <1>4 DEF ReqOK, ThrottleOK
<1>5. QED
  BY <1>3, <1>4

LEMMA PassStep == ASSUME ShieldConstants, ShieldInv, Pass PROVE ShieldInv'
<1>1. ShieldTypeOK'
  BY DEF ShieldInv, ShieldTypeOK, Pass
<1>2. \A k \in Keys : KeyOK(k)'
  BY PassKeeps DEF ShieldInv, Pass
<1>3. /\ \A r \in Requests : ReqOK(r)' /\ ThrottleOK(r)'
      /\ OffendersAreBanned'
  BY DEF ShieldInv, Pass, ReqOK, ThrottleOK, OffendersAreBanned
<1>4. QED
  BY <1>1, <1>2, <1>3 DEF ShieldInv

LEMMA ArriveStep ==
  ASSUME ShieldConstants, ShieldInv, NEW r \in Requests, NEW c \in Clients,
         NEW kind \in Limited \union {"health"}, NEW through \in Proxies \union {NULL},
         NEW forged \in Seq(Clients \union Proxies), Arrive(r, c, kind, forged, through)
  PROVE  ShieldInv'
<1>1. PICK ip : ip = IF through = NULL THEN RealIP(c, forged)
                                       ELSE RealIP(through, Append(forged, c))
  OBVIOUS
<1>2. ip = c
  <2>1. c \notin Proxies
    BY DEF ShieldConstants
  <2>2. QED
    BY <1>1, <2>1, RealIPDirect, RealIPThrough
<1>3. PICK row : row = [NoReq EXCEPT !.kind = kind, !.origin = c, !.ip = ip]
  OBVIOUS
<1>4. /\ row \in Reqs /\ row.ip = c /\ row.origin = c /\ row.status = "none"
  BY <1>2, <1>3 DEF Reqs, NoReq, Statuses, Limited
<1>5. /\ where[r] = "idle" /\ where' = [where EXCEPT ![r] = "block"] /\ req' = [req EXCEPT ![r] = row]
      /\ sent' = sent + 1 /\ UNCHANGED <<clock, buckets, fails, until, granted>>
  BY <1>1, <1>3 DEF Arrive, MoveTo
<1>6. ShieldTypeOK'
  BY <1>4, <1>5 DEF ShieldInv, ShieldTypeOK, Stages
<1>7. \A q \in Requests : ReqOK(q)' /\ ThrottleOK(q)'
  BY <1>4, <1>5, ReqsFrame
<1>8. \A k \in Keys : KeyOK(k)'
  BY <1>5, KeysFrame
<1>9. OffendersAreBanned'
  BY <1>5 DEF ShieldInv, ShieldTypeOK, OffendersAreBanned
<1>10. QED
  BY <1>6, <1>7, <1>8, <1>9 DEF ShieldInv

\* A request that is over leaves nothing behind.
LEMMA LeaveFacts ==
  ASSUME ShieldInv, UNCHANGED granted, NEW r \in Requests, Leave(r)
  PROVE  /\ where' = [where EXCEPT ![r] = "idle"] /\ req' = [req EXCEPT ![r] = NoReq]
         /\ NoReq \in Reqs /\ \A q \in Requests : ReqOK(q)' /\ ThrottleOK(q)'
<1>1. PICK row : row = NoReq
  OBVIOUS
<1>2. row \in Reqs /\ row.status = "none"
  BY <1>1 DEF NoReq, Reqs, Statuses
<1>3. where' = [where EXCEPT ![r] = "idle"] /\ req' = [req EXCEPT ![r] = row]
  BY <1>1 DEF Leave, MoveTo
<1>4. \A q \in Requests : ReqOK(q)' /\ ThrottleOK(q)'
  BY <1>2, <1>3, ReqsFrame
<1>5. QED
  BY <1>1, <1>2, <1>3, <1>4

\* One that goes on is the request it was.
LEMMA GoOnFacts ==
  ASSUME ShieldInv, UNCHANGED <<granted, req>>, NEW r \in Requests, where[r] # "idle",
         NEW stage \in Stages, MoveTo(r, stage), stage = "limit" => req[r].kind \in Limited
  PROVE  /\ where' = [where EXCEPT ![r] = stage]
         /\ \A q \in Requests : ReqOK(q)' /\ ThrottleOK(q)'
<1>1. where' = [where EXCEPT ![r] = stage] /\ req' = [req EXCEPT ![r] = req[r]]
  BY DEF MoveTo, ShieldInv, ShieldTypeOK
<1>2. req[r].ip \in Clients /\ req[r].ip = req[r].origin
  BY DEF ShieldInv, ReqOK
<1>3. QED
  BY <1>1, <1>2, ReqsFrame

LEMMA BlockStep ==
  ASSUME ShieldConstants, ShieldInv, NEW r \in Requests, Block(r) PROVE ShieldInv'
<1>1. PICK ip : ip = req[r].ip
  OBVIOUS
<1>2. /\ where[r] = "block" /\ UNCHANGED <<clock, sent, buckets, fails, granted>>
      /\ until' = [until EXCEPT ![ip] = IF Banned(ip) THEN @ ELSE NULL]
      /\ \/ Leave(r)
         \/ MoveTo(r, "shield") /\ UNCHANGED req
  BY <1>1 DEF Block
<1>3. /\ \A q \in Requests : ReqOK(q)' /\ ThrottleOK(q)'
      /\ where' \in [Requests -> Stages] /\ req' \in [Requests -> Reqs]
      /\ \A q \in Requests : where[q] \in {"ban", "forget"} => where'[q] = where[q] /\ req'[q] = req[q]
  <2>1. CASE Leave(r)
    BY <1>2, <2>1, LeaveFacts DEF ShieldInv, ShieldTypeOK, Stages
  <2>2. CASE MoveTo(r, "shield") /\ UNCHANGED req
    <3>1. "shield" \in Stages
      BY DEF Stages
    <3>2. QED
      BY <1>2, <2>2, <3>1, GoOnFacts DEF ShieldInv, ShieldTypeOK
  <2>3. QED
    BY <1>2, <2>1, <2>2
<1>4. until' \in [Clients -> Nat \union {NULL}]
  BY <1>2 DEF ShieldInv, ShieldTypeOK
<1>5. ShieldTypeOK'
  BY <1>2, <1>3, <1>4 DEF ShieldInv, ShieldTypeOK
<1>6. \A k \in Keys : KeyOK(k)'
  BY <1>2, KeysFrame
<1>7. OffendersAreBanned'
  BY <1>2, <1>3 DEF ShieldInv, OffendersAreBanned
<1>8. QED
  BY <1>3, <1>5, <1>6, <1>7 DEF ShieldInv

LEMMA AcquireStep ==
  ASSUME ShieldConstants, ShieldInv, NEW r \in Requests, Acquire(r) PROVE ShieldInv'
<1>1. PICK stage : stage = IF req[r].kind = "health" THEN "upstream" ELSE "limit"
  OBVIOUS
<1>2. /\ where[r] = "shield" /\ UNCHANGED <<clock, sent, buckets, fails, until, granted>>
      /\ \/ Leave(r)
         \/ MoveTo(r, stage) /\ UNCHANGED req
  BY <1>1 DEF Acquire
<1>3. /\ \A q \in Requests : ReqOK(q)' /\ ThrottleOK(q)'
      /\ where' \in [Requests -> Stages] /\ req' \in [Requests -> Reqs]
      /\ \A q \in Requests : where[q] \in {"ban", "forget"} => where'[q] = where[q] /\ req'[q] = req[q]
  <2>1. CASE Leave(r)
    BY <1>2, <2>1, LeaveFacts DEF ShieldInv, ShieldTypeOK, Stages
  <2>2. CASE MoveTo(r, stage) /\ UNCHANGED req
    <3>1. stage \in Stages /\ (stage = "limit" => req[r].kind \in Limited)
      BY <1>1 DEF Stages, ShieldInv, ShieldTypeOK, Reqs
    <3>2. QED
      BY <1>2, <2>2, <3>1, GoOnFacts DEF ShieldInv, ShieldTypeOK
  <2>3. QED
    BY <1>2, <2>1, <2>2
<1>4. ShieldTypeOK'
  BY <1>2, <1>3 DEF ShieldInv, ShieldTypeOK
<1>5. \A k \in Keys : KeyOK(k)'
  BY <1>2, KeysFrame
<1>6. OffendersAreBanned'
  BY <1>2, <1>3 DEF ShieldInv, OffendersAreBanned
<1>7. QED
  BY <1>3, <1>4, <1>5, <1>6 DEF ShieldInv

LEMMA AnswerStep ==
  ASSUME ShieldConstants, ShieldInv, NEW r \in Requests, NEW status \in {"ok", "refused"},
         Answer(r, status)
  PROVE  ShieldInv'
<1>1. PICK row : row = [req[r] EXCEPT !.status = "refused"]
  OBVIOUS
<1>2. /\ where[r] = "upstream" /\ UNCHANGED <<clock, sent, buckets, fails, until, granted>>
      /\ \/ Leave(r)
         \/ where' = [where EXCEPT ![r] = "count"] /\ req' = [req EXCEPT ![r] = row]
  BY <1>1 DEF Answer, MoveTo, ShieldInv, ShieldTypeOK
<1>3. /\ \A q \in Requests : ReqOK(q)' /\ ThrottleOK(q)'
      /\ where' \in [Requests -> Stages] /\ req' \in [Requests -> Reqs]
      /\ \A q \in Requests : where[q] \in {"ban", "forget"} => where'[q] = where[q] /\ req'[q] = req[q]
  <2>1. CASE Leave(r)
    BY <1>2, <2>1, LeaveFacts DEF ShieldInv, ShieldTypeOK, Stages
  <2>2. CASE where' = [where EXCEPT ![r] = "count"] /\ req' = [req EXCEPT ![r] = row]
    <3>1. /\ row \in Reqs /\ row.ip = req[r].ip /\ row.origin = req[r].origin
          /\ row.status = "refused"
      BY <1>1 DEF ShieldInv, ShieldTypeOK, Reqs, Statuses
    <3>2. row.ip \in Clients /\ row.ip = row.origin
      BY <1>2, <3>1 DEF ShieldInv, ReqOK
    <3>3. \A q \in Requests : ReqOK(q)' /\ ThrottleOK(q)'
      BY <1>2, <2>2, <3>1, <3>2, ReqsFrame
    <3>4. QED
      BY <1>2, <2>2, <3>1, <3>3 DEF ShieldInv, ShieldTypeOK, Stages
  <2>3. QED
    BY <1>2, <2>1, <2>2
<1>4. ShieldTypeOK'
  BY <1>2, <1>3 DEF ShieldInv, ShieldTypeOK
<1>5. \A k \in Keys : KeyOK(k)'
  BY <1>2, KeysFrame
<1>6. OffendersAreBanned'
  BY <1>2, <1>3 DEF ShieldInv, OffendersAreBanned
<1>7. QED
  BY <1>3, <1>4, <1>5, <1>6 DEF ShieldInv

LEMMA CountStep ==
  ASSUME ShieldConstants, ShieldInv, NEW r \in Requests, Count(r) PROVE ShieldInv'
<1>1. PICK ip, n : ip = req[r].ip /\ n = fails[ip] + 1
  OBVIOUS
<1>2. /\ where[r] = "count" /\ UNCHANGED <<clock, sent, buckets, until, granted>>
      /\ fails' = [fails EXCEPT ![ip] = IF Threshold <= 0 THEN @ ELSE n]
      /\ \/ Offends(n) /\ MoveTo(r, "ban") /\ UNCHANGED req
         \/ ~Offends(n) /\ Leave(r)
  BY <1>1 DEF Count
<1>3. ip \in Clients /\ fails[ip] \in Nat /\ n \in Nat /\ Threshold \in Int
  BY <1>1, <1>2 DEF ShieldInv, ReqOK, ShieldTypeOK, ShieldConstants
<1>4. ShieldTypeOK' /\ \A q \in Requests : ReqOK(q)' /\ ThrottleOK(q)'
  <2>1. fails' \in [Clients -> Nat]
    BY <1>2, <1>3 DEF ShieldInv, ShieldTypeOK
  <2>2. CASE MoveTo(r, "ban") /\ UNCHANGED req
    <3>1. "ban" \in Stages
      BY DEF Stages
    <3>2. /\ where' = [where EXCEPT ![r] = "ban"]
          /\ \A q \in Requests : ReqOK(q)' /\ ThrottleOK(q)'
      BY <1>2, <2>2, <3>1, GoOnFacts
    <3>3. QED
      BY <1>2, <2>1, <2>2, <3>1, <3>2 DEF ShieldInv, ShieldTypeOK
  <2>3. CASE Leave(r)
    BY <1>2, <2>1, <2>3, LeaveFacts DEF ShieldInv, ShieldTypeOK, Stages
  <2>4. QED
    BY <1>2, <2>2, <2>3
<1>5. \A k \in Keys : KeyOK(k)'
  BY <1>2, KeysFrame
<1>6. ASSUME NEW c \in Clients, Threshold > 0, fails'[c] >= Threshold
      PROVE  \E q \in Requests : where'[q] \in {"ban", "forget"} /\ req'[q].ip = c
  <2>1. CASE c = ip /\ Offends(n)
    <3>1. where'[r] = "ban" /\ req'[r].ip = c
      BY <1>1, <1>2, <2>1 DEF MoveTo, ShieldInv, ShieldTypeOK
    <3>2. QED
      BY <3>1
  <2>2. CASE c = ip /\ ~Offends(n)
    <3>1. fails'[c] = n /\ ~(n >= Threshold)
      BY <1>2, <1>3, <1>6, <2>2 DEF Offends, ShieldInv, ShieldTypeOK
    <3>2. QED
      BY <1>6, <3>1
  <2>3. CASE c # ip
    <3>1. fails'[c] = fails[c]
      BY <1>2, <1>6, <2>3 DEF ShieldInv, ShieldTypeOK
    <3>2. PICK q \in Requests : where[q] \in {"ban", "forget"} /\ req[q].ip = c
      BY <1>6, <3>1 DEF ShieldInv, OffendersAreBanned
    <3>3. where'[q] = where[q] /\ req'[q] = req[q]
      BY <1>2, <3>2 DEF MoveTo, Leave, ShieldInv, ShieldTypeOK
    <3>4. QED
      BY <3>2, <3>3
  <2>4. QED
    BY <2>1, <2>2, <2>3
<1>7. QED
  BY <1>4, <1>5, <1>6 DEF ShieldInv, OffendersAreBanned

LEMMA BanStep ==
  ASSUME ShieldConstants, ShieldInv, NEW r \in Requests, Ban(r) PROVE ShieldInv'
<1>1. /\ where[r] = "ban" /\ UNCHANGED <<clock, sent, buckets, fails, req, granted>>
      /\ until' = [until EXCEPT ![req[r].ip] = clock + Duration]
      /\ MoveTo(r, "forget") /\ "forget" \in Stages
  BY DEF Ban, Stages
<1>2. /\ where' = [where EXCEPT ![r] = "forget"]
      /\ \A q \in Requests : ReqOK(q)' /\ ThrottleOK(q)'
  BY <1>1, GoOnFacts
<1>3. until' \in [Clients -> Nat \union {NULL}]
  <2>1. clock + Duration \in Nat
    BY DEF ShieldInv, ShieldTypeOK, ShieldConstants
  <2>2. QED
    BY <1>1, <2>1 DEF ShieldInv, ShieldTypeOK
<1>4. ShieldTypeOK'
  BY <1>1, <1>2, <1>3 DEF ShieldInv, ShieldTypeOK
<1>5. \A k \in Keys : KeyOK(k)'
  BY <1>1, KeysFrame
<1>6. OffendersAreBanned'
  <2>1. \A q \in Requests : where[q] \in {"ban", "forget"} => where'[q] \in {"ban", "forget"}
    BY <1>1, <1>2 DEF ShieldInv, ShieldTypeOK
  <2>2. QED
    BY <1>1, <2>1 DEF ShieldInv, OffendersAreBanned
<1>7. QED
  BY <1>2, <1>4, <1>5, <1>6 DEF ShieldInv

LEMMA ForgetStep ==
  ASSUME ShieldConstants, ShieldInv, NEW r \in Requests, Forget(r) PROVE ShieldInv'
<1>1. /\ where[r] = "forget" /\ UNCHANGED <<clock, sent, buckets, until, granted>>
      /\ fails' = [fails EXCEPT ![req[r].ip] = 0] /\ Leave(r)
  BY DEF Forget
<1>2. /\ where' = [where EXCEPT ![r] = "idle"] /\ req' = [req EXCEPT ![r] = NoReq]
      /\ NoReq \in Reqs /\ \A q \in Requests : ReqOK(q)' /\ ThrottleOK(q)'
  BY <1>1, LeaveFacts
<1>3. ShieldTypeOK'
  BY <1>1, <1>2 DEF ShieldInv, ShieldTypeOK, Stages
<1>4. \A k \in Keys : KeyOK(k)'
  BY <1>1, KeysFrame
<1>5. ASSUME NEW c \in Clients, Threshold > 0, fails'[c] >= Threshold
      PROVE  \E q \in Requests : where'[q] \in {"ban", "forget"} /\ req'[q].ip = c
  <2>1. c # req[r].ip /\ fails'[c] = fails[c]
    BY <1>1, <1>5 DEF ShieldInv, ShieldTypeOK, ShieldConstants
  <2>2. PICK q \in Requests : where[q] \in {"ban", "forget"} /\ req[q].ip = c
    BY <1>5, <2>1 DEF ShieldInv, OffendersAreBanned
  <2>3. where'[q] = where[q] /\ req'[q] = req[q]
    BY <1>2, <2>1, <2>2 DEF ShieldInv, ShieldTypeOK
  <2>4. QED
    BY <2>2, <2>3
<1>6. QED
  BY <1>2, <1>3, <1>4, <1>5 DEF ShieldInv, OffendersAreBanned

LEMMA LimitStep ==
  ASSUME ShieldConstants, ShieldInv, NEW r \in Requests, Limit(r) PROVE ShieldInv'
<1>1. PICK k : k = <<req[r].kind, req[r].ip>>
  OBVIOUS
<1>2. /\ where[r] = "limit" /\ UNCHANGED <<clock, sent, fails, until>>
      /\ req[r].ip \in Clients /\ req[r].ip = req[r].origin /\ req[r].kind \in Limited
      /\ k \in Keys
  BY <1>1 DEF Limit, ShieldInv, ReqOK, Keys
<1>3. ShieldTypeOK /\ KeyOK(k)
  BY <1>2 DEF ShieldInv
<1>4. /\ Bucket(k) \in 0 .. Burst /\ Burst \in Nat
      /\ buckets' = Taken(k)
      /\ granted' = IF Bucket(k) > 0 THEN [granted EXCEPT ![k] = Append(@, clock)]
                                     ELSE granted
  <2>1. Bucket(k) \in 0 .. Burst /\ Burst \in Nat
    BY <1>2, <1>3, BucketFacts DEF ShieldConstants
  <2>2. QED
    BY <1>1, <2>1 DEF Limit
<1>5. /\ buckets'[k] = [tokens |-> IF Bucket(k) > 0 THEN Bucket(k) - 1 ELSE 0,
                        at |-> clock, last |-> clock]
      /\ granted'[k] = IF Bucket(k) > 0 THEN Append(granted[k], clock) ELSE granted[k]
  BY <1>2, <1>3, <1>4 DEF Taken, ShieldTypeOK
<1>6. /\ buckets'[k] \in BucketRows /\ granted'[k] \in Seq(Nat) /\ KeyOK(k)'
      /\ Bucket(k) = 0 => AtLeast(granted[k], 0, clock)
  BY <1>2, <1>3, <1>5, TakenKeeps
<1>7. ASSUME NEW j \in Keys, j # k
      PROVE  /\ granted'[j] = granted[j]
             /\ buckets'[j] = buckets[j] \/ (Idle(j) /\ buckets'[j] = NULL)
             /\ KeyOK(j)'
  <2>1. /\ granted'[j] = granted[j]
        /\ buckets'[j] = buckets[j] \/ (Idle(j) /\ buckets'[j] = NULL)
    BY <1>2, <1>3, <1>4, <1>7 DEF Taken, ShieldTypeOK
  <2>2. QED
    BY <1>2, <1>3, <2>1, OthersKeep DEF ShieldInv
<1>8. \A j \in Keys : KeyOK(j)'
  BY <1>6, <1>7
<1>9. buckets' \in [Keys -> BucketRows \union {NULL}] /\ granted' \in [Keys -> Seq(Nat)]
  <2>1. buckets' = [j \in Keys |-> buckets'[j]]
    BY <1>4 DEF Taken
  <2>2. granted' = [j \in Keys |-> granted'[j]]
    BY <1>3, <1>4 DEF ShieldTypeOK
  <2>3. \A j \in Keys : buckets'[j] \in BucketRows \union {NULL} /\ granted'[j] \in Seq(Nat)
    BY <1>3, <1>6, <1>7 DEF ShieldTypeOK
  <2>4. QED
    BY <2>1, <2>2, <2>3
<1>10. PICK row : row = [req[r] EXCEPT !.status = "throttled", !.asked = clock]
  OBVIOUS
<1>11. /\ row \in Reqs /\ row.status = "throttled" /\ row.asked = clock
       /\ row.kind = req[r].kind /\ row.ip = req[r].ip /\ row.origin = req[r].origin
  BY <1>3, <1>10 DEF ShieldTypeOK, Reqs, Statuses
<1>12. \/ /\ Bucket(k) > 0 /\ where' = [where EXCEPT ![r] = "upstream"] /\ req' = req
       \/ /\ Bucket(k) = 0 /\ where' = [where EXCEPT ![r] = "count"] /\ granted' = granted
          /\ req' = [req EXCEPT ![r] = row]
  <2>1. CASE Bucket(k) > 0
    BY <1>1, <2>1 DEF Limit, MoveTo
  <2>2. CASE ~(Bucket(k) > 0)
    <3>1. Bucket(k) = 0
      BY <1>4, <2>2
    <3>2. where' = [where EXCEPT ![r] = "count"] /\ granted' = granted
      BY <1>1, <2>2 DEF Limit, MoveTo
    <3>3. req' = [req EXCEPT ![r].status = "throttled", ![r].asked = clock]
      BY <1>1, <2>2 DEF Limit
    <3>4. req' = [req EXCEPT ![r] = row]
      BY <1>3, <1>10, <3>3 DEF ShieldTypeOK, Reqs
    <3>5. QED
      BY <3>1, <3>2, <3>4
  <2>3. QED
    BY <2>1, <2>2
<1>13. ShieldTypeOK'
  BY <1>2, <1>3, <1>9, <1>11, <1>12 DEF ShieldTypeOK, Stages
<1>14. ASSUME NEW q \in Requests
       PROVE  ReqOK(q)'
  BY <1>2, <1>3, <1>11, <1>12 DEF ShieldInv, ReqOK, ShieldTypeOK
<1>15. ASSUME NEW q \in Requests
       PROVE  ThrottleOK(q)'
  <2>1. CASE Bucket(k) > 0 /\ req' = req
    <3>1. SUFFICES ASSUME req[q].status = "throttled"
                   PROVE  Spent(granted'[<<req[q].kind, req[q].ip>>], req[q].asked)
      BY <2>1 DEF ShieldInv, ThrottleOK
    <3>2. PICK j : j = <<req[q].kind, req[q].ip>>
      OBVIOUS
    <3>3. PICK g \in Seq(Nat), now \in Nat, asked \in Nat :
            g = granted[j] /\ now = clock /\ asked = req[q].asked
      BY <1>3, <3>1, <3>2 DEF ShieldInv, ThrottleOK, Keys, ShieldTypeOK, Reqs
    <3>4. j \in Keys /\ Spent(g, asked)
      BY <3>1, <3>2, <3>3 DEF ShieldInv, ThrottleOK, Keys
    <3>5. granted'[j] = g \/ granted'[j] = Append(g, now)
      BY <1>5, <1>7, <2>1, <3>3, <3>4
    <3>6. Spent(Append(g, now), asked)
      BY <3>3, <3>4, SpentIsKept
    <3>7. QED
      BY <3>2, <3>3, <3>4, <3>5, <3>6
  <2>2. CASE /\ Bucket(k) = 0 /\ granted' = granted
             /\ req' = [req EXCEPT ![r] = row]
    <3>1. CASE q # r
      BY <1>3, <2>2, <3>1 DEF ShieldInv, ThrottleOK, ShieldTypeOK
    <3>2. CASE q = r
      <4>1. PICK g \in Seq(Nat), now \in Nat : g = granted[k] /\ now = clock
        BY <1>2, <1>3 DEF ShieldTypeOK
      <4>2. Spent(g, now)
        BY <1>3, <1>6, <2>2, <4>1, SpentIsKept DEF KeyOK
      <4>3. QED
        BY <1>1, <1>2, <1>3, <1>11, <2>2, <3>2, <4>1, <4>2 DEF ThrottleOK, ShieldTypeOK
    <3>3. QED
      BY <3>1, <3>2
  <2>3. QED
    BY <1>12, <2>1, <2>2
<1>16. OffendersAreBanned'
  <2>1. \A q \in Requests : where[q] \in {"ban", "forget"} => where'[q] = where[q] /\ req'[q] = req[q]
    BY <1>2, <1>3, <1>12 DEF ShieldTypeOK
  <2>2. QED
    BY <1>2, <2>1 DEF ShieldInv, OffendersAreBanned
<1>17. QED
  BY <1>8, <1>13, <1>14, <1>15, <1>16 DEF ShieldInv

LEMMA ShieldInvInductive == ASSUME ShieldConstants, ShieldInv, [ShieldNext]_shieldVars PROVE ShieldInv'
<1>1. CASE Pass
  BY <1>1, PassStep
<1>2. ASSUME NEW r \in Requests, NEW c \in Clients, NEW kind \in Limited \union {"health"},
             NEW through \in Proxies \union {NULL},
             NEW forged \in {<<>>} \union {<<d>> : d \in Clients \union Proxies},
             Arrive(r, c, kind, forged, through)
      PROVE  ShieldInv'
  <2>1. forged \in Seq(Clients \union Proxies)
    <3>1. CASE forged = <<>>
      BY <3>1
    <3>2. CASE forged \in {<<d>> : d \in Clients \union Proxies}
      <4>1. PICK d \in Clients \union Proxies : forged = <<d>>
        BY <3>2
      <4>2. QED
        BY <4>1
    <3>3. QED
      BY <3>1, <3>2
  <2>2. QED
    BY <1>2, <2>1, ArriveStep
<1>3. ASSUME NEW r \in Requests,
             \/ Block(r) \/ Acquire(r) \/ Limit(r) \/ Count(r) \/ Ban(r) \/ Forget(r)
             \/ \E status \in {"ok", "refused"} : Answer(r, status)
      PROVE  ShieldInv'
  BY <1>3, BlockStep, AcquireStep, LimitStep, CountStep, BanStep, ForgetStep, AnswerStep
<1>4. CASE UNCHANGED shieldVars
  <2>1. UNCHANGED <<clock, sent, buckets, fails, until, where, req, granted>>
    BY <1>4 DEF shieldVars
  <2>2. ShieldTypeOK' /\ \A k \in Keys : KeyOK(k)'
    BY <2>1, KeysFrame DEF ShieldInv, ShieldTypeOK
  <2>3. (\A r \in Requests : ReqOK(r)' /\ ThrottleOK(r)') /\ OffendersAreBanned'
    BY <2>1 DEF ShieldInv, ReqOK, ThrottleOK, OffendersAreBanned
  <2>4. QED
    BY <2>2, <2>3 DEF ShieldInv
<1>5. QED
  BY <1>1, <1>2, <1>3, <1>4 DEF ShieldNext

LEMMA ShieldInvHolds == ASSUME ShieldConstants PROVE ShieldSpec => []ShieldInv
<1>1. ShieldInit => ShieldInv
  BY ShieldInitially
<1>2. ShieldInv /\ [ShieldNext]_shieldVars => ShieldInv'
  BY ShieldInvInductive
<1>3. QED
  BY <1>1, <1>2, PTL DEF ShieldSpec

-----------------------------------------------------------------------------
(* The theorems *)

\* Whatever the client writes into X-Forwarded-For, and whichever trusted proxy it comes
\* through, RealIP resolves the client's own address, the one that is limited and banned;
\* the daemon takes the request for that client's unless it has a True-Client-IP.
THEOREM ClientIsFound == ShieldSpec => []GenuineAddress
<1>1. ShieldInv => GenuineAddress
  BY ShieldAssumption DEF ShieldInv, ReqOK, GenuineAddress, DaemonSees, ShieldConstants
<1>2. QED
  BY <1>1, ShieldInvHolds, ShieldAssumption, PTL

\* A span of requests, counted.
LEMMA SpanIsCounted ==
  ASSUME NEW g \in Seq(Nat), NEW m \in 1 .. Len(g), NEW i \in 1 .. m, NEW now \in Nat,
         \A j \in i .. m : g[j] <= now
  PROVE  /\ Cardinality({j \in DOMAIN g : j >= i /\ g[j] <= now}) \in Nat
         /\ Cardinality({j \in DOMAIN g : j >= i /\ g[j] <= now}) >= m - i + 1
<1>1. Len(g) \in Nat /\ DOMAIN g = 1 .. Len(g) /\ m \in Int /\ i \in Int /\ i <= m
  OBVIOUS
<1>2. PICK T : T = {j \in DOMAIN g : j >= i /\ g[j] <= now}
  OBVIOUS
<1>3. i .. m \subseteq T /\ T \subseteq 1 .. Len(g)
  BY <1>1, <1>2
<1>4. IsFiniteSet(1 .. Len(g)) /\ Cardinality(i .. m) = m - i + 1
  BY <1>1, FS_Interval
<1>5. IsFiniteSet(T)
  BY <1>3, <1>4, FS_Subset
<1>6. Cardinality(T) \in Nat /\ Cardinality(i .. m) <= Cardinality(T)
  BY <1>3, <1>5, FS_Subset, FS_CardinalityType
<1>7. QED
  BY <1>2, <1>4, <1>6

\* In every span of time perIPLimiter lets an address through no more often than the
\* burst and the rate allow, an evicted bucket notwithstanding; and it turns a request
\* away only when the address has used up its own tokens of that limiter.
THEOREM RateIsKept == ShieldSpec => []RateIsExact
<1>1. ASSUME ShieldInv
      PROVE  RateHolds
  <2>1. ASSUME Fits, NEW k \in Keys
        PROVE  Within(granted[k]) /\ DOMAIN granted[k] = 1 .. Len(granted[k])
    BY <1>1, <2>1 DEF ShieldInv, KeyOK, ShieldTypeOK
  <2>2. QED
    BY <2>1 DEF RateHolds, Within, Fits
<1>2. ASSUME ShieldInv
      PROVE  ThrottledIsSpent
  <2>1. SUFFICES ASSUME NEW r \in Requests, req[r].status = "throttled"
                 PROVE  LET g == granted[<<req[r].kind, req[r].ip>>]
                            now == req[r].asked
                        IN  \E i \in DOMAIN g :
                              Cardinality({j \in DOMAIN g : j >= i /\ g[j] <= now})
                                >= Burst + Rate * (now - g[i])
    BY DEF ThrottledIsSpent
  <2>2. <<req[r].kind, req[r].ip>> \in Keys
    BY <1>2, <2>1 DEF ShieldInv, ThrottleOK, Keys
  <2>3. PICK g \in Seq(Nat), now \in Nat :
          g = granted[<<req[r].kind, req[r].ip>>] /\ now = req[r].asked
    BY <1>2, <2>2 DEF ShieldInv, ShieldTypeOK, Reqs
  <2>4. PICK m \in 1 .. Len(g) : \E i \in 1 .. m :
          /\ \A j \in i .. m : g[j] <= now
          /\ m - i + 1 >= Burst + Rate * (now - g[i])
    BY <1>2, <2>1, <2>3 DEF ShieldInv, ThrottleOK, Spent
  <2>5. PICK i \in 1 .. m :
          /\ \A j \in i .. m : g[j] <= now
          /\ m - i + 1 >= Burst + Rate * (now - g[i])
    BY <2>4
  <2>6. i \in DOMAIN g /\ g[i] \in Nat /\ m \in Int /\ i \in Int
    BY <2>3
  <2>7. PICK y \in Int : y = Burst + Rate * (now - g[i])
    BY <2>6, ShieldAssumption DEF ShieldConstants
  <2>8. PICK n \in Nat :
          n = Cardinality({j \in DOMAIN g : j >= i /\ g[j] <= now}) /\ n >= m - i + 1
    BY <2>5, SpanIsCounted
  <2>9. n >= y
    BY <2>5, <2>6, <2>7, <2>8
  <2>10. QED
    BY <2>3, <2>6, <2>7, <2>8, <2>9
<1>3. QED
  BY <1>1, <1>2, ShieldInvHolds, ShieldAssumption, PTL DEF RateIsExact

\* However the steps of recordFailure interleave, an address whose failures have reached
\* the threshold is being banned: none piles up failures and stays in.
THEOREM FailuresEndInABan == ShieldSpec => []OffendersAreBanned
<1>1. ShieldInv => OffendersAreBanned
  BY DEF ShieldInv
<1>2. QED
  BY <1>1, ShieldInvHolds, ShieldAssumption, PTL
==============================================================================
