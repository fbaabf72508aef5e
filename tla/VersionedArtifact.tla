-------------------------- MODULE VersionedArtifact --------------------------
(***************************************************************************)
(* One base name of internal/cluster/secrets.go: the Swarm secrets         *)
(* (EnsureVersionedSecret) or Docker configs (EnsureConfig) <base>_v001,   *)
(* <base>_v002, ... and the calls that reuse, mint and collect versions.   *)
(* Secrets are write-only, so whether the current version holds the bytes  *)
(* is decided by a hash kept in the settings table; a config is read back. *)
(* Every docker call and every settings statement is an action.            *)
(***************************************************************************)
EXTENDS Nil, Naturals, FiniteSets

CONSTANTS
  Callers,      \* runs of up, update, ApplyCert or down --purge
  Contents,     \* payloads
  MaxVersion,   \* bound on the version numbers
  HashInStore,  \* TRUE: secrets, compared by stored hash; FALSE: configs
  Serial        \* TRUE: one run at a time

ASSUME ArtifactConstants ==
  /\ MaxVersion \in Nat
  /\ HashInStore \in BOOLEAN /\ Serial \in BOOLEAN
  /\ NULL \notin Contents

VARIABLES
  versions,  \* versions[v]: payload of <base>_v<v> in the Swarm, or NULL
  hash,      \* settings row secret_data_hash:<base>
  mounted,   \* versions a deployed service references; docker keeps those
  pc,        \* step each run is at
  loc,       \* local variables of each run
  lapse      \* the newest version never had its hash recorded (history)

vars == <<versions, hash, mounted, pc, loc, lapse>>

-----------------------------------------------------------------------------
Numbers == 1 .. MaxVersion
Steps == {"idle", "list", "compare", "create", "record", "collect", "returned",
          "stackrm", "wipelist", "wipe"}
\* kept: docker failed to remove one of the old versions, which is not reported.
Locals == [data : Contents \union {NULL}, listed : SUBSET Numbers,
           highest : 0 .. MaxVersion, left : SUBSET Numbers,
           result : 0 .. MaxVersion, reused : BOOLEAN, kept : BOOLEAN]
Asking(d) == [data |-> d, listed |-> {}, highest |-> 0, left |-> {},
              result |-> 0, reused |-> FALSE, kept |-> FALSE]
NoLocals == Asking(NULL)

Existing == {v \in Numbers : versions[v] # NULL}
Highest(S, n) == \/ S = {} /\ n = 0
                 \/ n \in S /\ \A v \in S : v <= n

MayStart(c) == /\ pc[c] = "idle"
               /\ Serial => \A d \in Callers : pc[d] = "idle"
\* docker secret rm, docker config rm: refused for a version in use, and it may fail.
Removal(v) == {versions} \union
              (IF v \in mounted THEN {} ELSE {[versions EXCEPT ![v] = NULL]})
\* The removal of a version that nothing uses did not take place.
Failed(v) == v \notin mounted /\ versions'[v] # NULL

Goto(c, step) == pc' = [pc EXCEPT ![c] = step]
Return(c) == /\ Goto(c, "idle")
             /\ loc' = [loc EXCEPT ![c] = NoLocals]

Init ==
  /\ versions = [v \in Numbers |-> NULL]
  /\ hash = NULL
  /\ mounted = {}
  /\ pc  = [c \in Callers |-> "idle"]
  /\ loc = [c \in Callers |-> NoLocals]
  /\ lapse = FALSE

-----------------------------------------------------------------------------
(* Ensuring that a version holds some bytes *)

Ensure(c, d) ==
  /\ MayStart(c)
  /\ loc' = [loc EXCEPT ![c] = Asking(d)]
  /\ Goto(c, "list")
  /\ UNCHANGED <<versions, hash, mounted, lapse>>

List(c) ==
  /\ pc[c] = "list"
  /\ \E n \in 0 .. MaxVersion :
       /\ Highest(Existing, n)
       /\ loc' = [loc EXCEPT ![c].listed = Existing, ![c].highest = n]
       /\ Goto(c, IF n > 0 THEN "compare" ELSE "create")
  /\ UNCHANGED <<versions, hash, mounted, lapse>>

\* Does the current version hold the bytes?
Unchanged(c) == IF HashInStore THEN hash = loc[c].data
                               ELSE versions[loc[c].highest] = loc[c].data

\* A hash or config that cannot be read counts as changed.
Compare(c) ==
  /\ pc[c] = "compare"
  /\ \/ /\ Unchanged(c)
        /\ loc' = [loc EXCEPT ![c].result = loc[c].highest,
                              ![c].reused = TRUE]
        /\ Goto(c, "returned")
     \/ /\ Goto(c, "create")
        /\ UNCHANGED loc
  /\ UNCHANGED <<versions, hash, mounted, lapse>>

\* The number of a new version.
NextNumber(c) == loc[c].highest + 1

\* Docker refuses a name that is taken; the call then fails.
Create(c) ==
  LET v == NextNumber(c)
  IN
  /\ pc[c] = "create"
  /\ v \in Numbers
  /\ IF versions[v] = NULL
       THEN /\ versions' = [versions EXCEPT ![v] = loc[c].data]
            /\ loc' = [loc EXCEPT ![c].result = v, ![c].left = loc[c].listed]
            /\ Goto(c, IF HashInStore THEN "record" ELSE "collect")
       ELSE /\ Return(c)
            /\ UNCHANGED versions
  /\ UNCHANGED <<hash, mounted, lapse>>

\* SetSetting of the new version's hash; the faulty variant stores a hash only
\* when there is none.
RecordFirst(c) ==
  /\ pc[c] = "record"
  /\ hash' = IF hash = NULL THEN loc[c].data ELSE hash
  /\ lapse' = FALSE
  /\ Goto(c, "collect")
  /\ UNCHANGED <<versions, mounted, loc>>

RecordHash(c) ==
  /\ pc[c] = "record"
  /\ hash' = loc[c].data
  /\ lapse' = FALSE
  /\ Goto(c, "collect")
  /\ UNCHANGED <<versions, mounted, loc>>

\* Faulty variant: only the version that was current is removed.
OnlyCurrent(c) == loc[c].left \ {v \in Numbers : v # loc[c].highest}
Collectable(c) == loc[c].left

\* Old versions are removed one by one; a failed removal is ignored.
Collect(c) ==
  /\ pc[c] = "collect"
  /\ IF Collectable(c) = {}
       THEN /\ Goto(c, "returned")
            /\ UNCHANGED <<versions, loc>>
       ELSE /\ \E v \in Collectable(c) :
                 /\ versions' \in Removal(v)
                 /\ loc' = [loc EXCEPT ![c].left = @ \ {v},
                                       ![c].kept = @ \/ Failed(v)]
            /\ UNCHANGED pc
  /\ UNCHANGED <<hash, mounted, lapse>>

\* The caller deploys the stack that references the version - which fails when
\* there is no such version - or does not get that far.
Deploy(c) ==
  /\ pc[c] = "returned"
  /\ mounted' \in {mounted} \union
                  {{v} : v \in {loc[c].result} \intersect Existing}
  /\ Return(c)
  /\ UNCHANGED <<versions, hash, lapse>>

-----------------------------------------------------------------------------
(* cluster down --purge: the stacks are removed, then everything listed *)

Purge(c) ==
  /\ MayStart(c)
  /\ Goto(c, "stackrm")
  /\ UNCHANGED <<versions, hash, mounted, loc, lapse>>

\* A stack that cannot be removed is reported and skipped.
RemoveStacks(c) ==
  /\ pc[c] = "stackrm"
  /\ mounted' \in {{}, mounted}
  /\ Goto(c, "wipelist")
  /\ UNCHANGED <<versions, hash, loc, lapse>>

WipeList(c) ==
  /\ pc[c] = "wipelist"
  /\ loc' = [loc EXCEPT ![c].left = Existing]
  /\ Goto(c, "wipe")
  /\ UNCHANGED <<versions, hash, mounted, lapse>>

\* The hashes stay in the settings: one outlives its version, with older ones left.
NewestWiped == \E n \in Existing : Highest(Existing, n) /\ versions'[n] = NULL
Wipe(c) ==
  /\ pc[c] = "wipe"
  /\ IF loc[c].left = {}
       THEN /\ Return(c)
            /\ UNCHANGED <<versions, lapse>>
       ELSE /\ \E v \in loc[c].left :
                 /\ versions' \in Removal(v)
                 /\ loc' = [loc EXCEPT ![c].left = @ \ {v}]
            /\ lapse' = (HashInStore /\ (lapse \/ NewestWiped) /\ Existing' # {})
            /\ UNCHANGED pc
  /\ UNCHANGED <<hash, mounted>>

\* The run dies, or fails with a settings statement or docker call.
Crash(c) ==
  /\ pc[c] # "idle"
  /\ Return(c)
  /\ lapse' = (lapse \/ pc[c] = "record")
  /\ UNCHANGED <<versions, hash, mounted>>

Step(c) ==
  \/ \E d \in Contents : Ensure(c, d)
  \/ List(c) \/ Compare(c) \/ Create(c) \/ RecordHash(c) \/ Collect(c)
  \/ Deploy(c)
  \/ Purge(c) \/ RemoveStacks(c) \/ WipeList(c) \/ Wipe(c)
  \/ Crash(c)

Next == \E c \in Callers : Step(c)
Spec == Init /\ [][Next]_vars
-----------------------------------------------------------------------------
TypeOK ==
  /\ versions \in [Numbers -> Contents \union {NULL}]
  /\ hash \in Contents \union {NULL}
  /\ mounted \subseteq Numbers
  /\ pc \in [Callers -> Steps]
  /\ loc \in [Callers -> Locals]
  /\ lapse \in BOOLEAN

\* The version a call returns exists and holds the bytes it was called with: always when
\* it was minted for them, and when it was reused - "already holds exactly these bytes,
\* that version is reused" (secrets.go:94) - unless the newest secret is one whose run
\* died before its hash was recorded, or one that a purge could not remove when it
\* removed the secret whose hash is recorded.
ReturnedHolds ==
  \A c \in Callers :
     pc[c] = "returned" =>
       /\ loc[c].result \in Existing
       /\ versions[loc[c].result] = loc[c].data \/ (loc[c].reused /\ lapse)

\* A call that mints a version leaves no other behind but those in use, unless
\* docker failed to remove one - which is ignored; the next call finds its
\* version to be the highest.
OldVersionsCollected ==
  \A c \in Callers :
     pc[c] = "returned" /\ ~loc[c].reused /\ ~loc[c].kept
        => Existing \subseteq mounted \union {loc[c].result}

\* What a call reuses is the highest version that exists: an operator looking
\* at the Swarm finds the service on the newest version.
ReusedIsNewest ==
  \A c \in Callers :
     pc[c] = "returned" => Highest(Existing, loc[c].result)
=============================================================================
