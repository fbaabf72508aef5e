----------------------- MODULE VersionedArtifactProofs -----------------------
(***************************************************************************)
(* When runs do not overlap, every call returns the newest version, and    *)
(* the versions before it that nothing uses are gone unless docker failed. *)
(* Runs may die anywhere.  The version holds the bytes asked for, except a *)
(* secret reused after a lapse: the stored hash may then be that of        *)
(* another version.  Were runs to overlap, a purge could remove what       *)
(* another run is about to return.                                         *)
(*                                                                         *)
(* Then the certificates, whose secrets are such versions: commands side   *)
(* by side, any of them cut off anywhere.  The row of a host holds its     *)
(* pair once its own last command went through, and what Traefik mounts    *)
(* for the cluster's own domain stays the pair its row says - if nothing   *)
(* was left behind by a command that was cut off before.                   *)
(***************************************************************************)
EXTENDS VersionedArtifact, Certificates, WellFoundedInduction, TLAPS

\* What a run knows at each step.
Knows(c) ==
  /\ pc[c] \in {"list", "compare", "create", "record", "collect", "returned"}
        => loc[c].data \in Contents
  /\ pc[c] \in {"compare", "create"}
        => loc[c].listed = Existing /\ Highest(Existing, loc[c].highest)
  /\ pc[c] = "compare" => loc[c].highest > 0
  /\ pc[c] \in {"record", "collect", "returned"}
        => /\ loc[c].result \in Numbers
           /\ loc[c].result \in Existing
           /\ Highest(Existing, loc[c].result)
           /\ versions[loc[c].result] = loc[c].data
                \/ (pc[c] = "returned" /\ loc[c].reused /\ lapse)
  /\ pc[c] \in {"record", "collect"} => loc[c].result \notin loc[c].left
  /\ pc[c] \in {"collect", "returned"} /\ HashInStore => hash = loc[c].data

\* Two runs are never under way at once.
Alone == \A c, d \in Callers : pc[c] # "idle" /\ pc[d] # "idle" => c = d

\* The stored hash is that of the newest version, except between the creation
\* of a version and RecordHash, and after a lapse.
HashIsNewest ==
  HashInStore /\ ~lapse /\ (\A c \in Callers : pc[c] # "record") /\ hash # NULL
     => \A n \in Numbers : Highest(Existing, n) => versions[n] = hash

IInv == TypeOK /\ Alone /\ (\A c \in Callers : Knows(c)) /\ HashIsNewest

-----------------------------------------------------------------------------
\* Removing a version clears it or, when docker refuses or fails, does nothing.
LEMMA RemovalEffect ==
  ASSUME NEW v, versions' \in Removal(v)
  PROVE  versions' = versions \/ versions' = [versions EXCEPT ![v] = NULL]
PROOF
BY DEF Removal

\* Whoever takes a step, the others are idle before and after it: MayStart
\* asks for it at the start of a run, Alone keeps it.
LEMMA OthersIdle ==
  ASSUME IInv, Serial, NEW c \in Callers, Step(c)
  PROVE  /\ \A d \in Callers \ {c} : pc[d] = "idle" /\ pc'[d] = "idle"
         /\ pc' \in [Callers -> Steps] /\ loc' \in [Callers -> Locals]
         /\ versions' \in [Numbers -> Contents \union {NULL}]
         /\ hash' \in Contents \union {NULL} /\ mounted' \subseteq Numbers
         /\ lapse' \in BOOLEAN
PROOF
<1> USE DEF Goto, Return
<1>1. /\ pc \in [Callers -> Steps] /\ loc \in [Callers -> Locals]
      /\ versions \in [Numbers -> Contents \union {NULL}]
      /\ hash \in Contents \union {NULL} /\ mounted \subseteq Numbers
      /\ NoLocals \in Locals /\ lapse \in BOOLEAN
  BY ArtifactConstants DEF IInv, TypeOK, NoLocals, Asking, Locals
<1>2. pc[c] # "idle" => \A d \in Callers \ {c} : pc[d] = "idle"
  BY DEF IInv, Alone
<1>3. CASE \E d \in Contents : Ensure(c, d)
  <2>1. PICK d \in Contents : Ensure(c, d)
    BY <1>3
  <2>2. Asking(d) \in Locals
    BY ArtifactConstants DEF Asking, Locals
  <2> QED
    BY <1>1, <2>1, <2>2 DEF Ensure, MayStart, Steps
<1>4. CASE List(c)
  <2>1. PICK n \in 0 .. MaxVersion :
          loc' = [loc EXCEPT ![c].listed = Existing, ![c].highest = n]
    BY <1>4 DEF List
  <2>2. Existing \in SUBSET Numbers
    BY DEF Existing
  <2>3. loc' \in [Callers -> Locals]
    BY <1>1, <2>1, <2>2 DEF Locals
  <2> QED
    BY <1>1, <1>2, <1>4, <2>3 DEF List, Steps
<1>5. CASE Compare(c)
  <2>1. loc' \in [Callers -> Locals]
    <3>1. CASE loc' = loc
      BY <1>1, <3>1
    <3>2. CASE loc' = [loc EXCEPT ![c].result = loc[c].highest, ![c].reused = TRUE]
      BY <1>1, <3>2 DEF Locals
    <3> QED
      BY <1>5, <3>1, <3>2 DEF Compare
  <2>2. pc' \in [Callers -> Steps] /\ \A d \in Callers \ {c} : pc'[d] = pc[d]
    BY <1>1, <1>5 DEF Compare, Steps
  <2> QED
    BY <1>1, <1>2, <1>5, <2>1, <2>2 DEF Compare
<1>6. CASE Create(c)
  <2>1. CASE versions[NextNumber(c)] = NULL
    <3>1. loc[c].data \in Contents
      BY <1>6 DEF IInv, Knows, Create
    <3>2. NextNumber(c) \in 0 .. MaxVersion
      BY <1>6 DEF Create, Numbers
    <3> QED
      BY <1>1, <1>2, <1>6, <2>1, <3>1, <3>2 DEF Create, Steps, Locals
  <2>2. CASE versions[NextNumber(c)] # NULL
    BY <1>1, <1>2, <1>6, <2>2 DEF Create, Steps
  <2> QED
    BY <2>1, <2>2
<1>7. CASE RecordHash(c)
  BY <1>1, <1>2, <1>7 DEF RecordHash, Steps, Locals
<1>8. CASE Collect(c)
  <2>1. CASE loc[c].left = {}
    BY <1>1, <1>2, <1>8, <2>1 DEF Collect, Collectable, Steps
  <2>2. CASE loc[c].left # {}
    <3>1. PICK v \in loc[c].left :
            /\ versions' \in Removal(v)
            /\ loc' = [loc EXCEPT ![c].left = @ \ {v}, ![c].kept = @ \/ Failed(v)]
            /\ pc' = pc
      BY <1>8, <2>2 DEF Collect, Collectable
    <3>2. versions' \in [Numbers -> Contents \union {NULL}]
      BY <1>1, <3>1, RemovalEffect
    <3>3. loc' \in [Callers -> Locals]
      BY <1>1, <3>1 DEF Locals
    <3>4. pc[c] = "collect" /\ hash' = hash /\ mounted' = mounted /\ lapse' = lapse
      BY <1>8 DEF Collect
    <3> QED
      BY <1>1, <1>2, <3>1, <3>2, <3>3, <3>4
  <2> QED
    BY <2>1, <2>2
<1>9. CASE Deploy(c)
  BY <1>1, <1>2, <1>9 DEF Deploy, Existing, Steps
<1>10. CASE Purge(c)
  BY <1>1, <1>10 DEF Purge, MayStart, Steps
<1>11. CASE RemoveStacks(c)
  BY <1>1, <1>2, <1>11 DEF RemoveStacks, Steps
<1>12. CASE WipeList(c)
  <2>1. Existing \subseteq Numbers
    BY DEF Existing
  <2> QED
    BY <1>1, <1>2, <1>12, <2>1 DEF WipeList, Steps, Locals
<1>13. CASE Wipe(c)
  <2>1. CASE loc[c].left = {}
    BY <1>1, <1>2, <1>13, <2>1 DEF Wipe, Steps, NoLocals
  <2>2. CASE loc[c].left # {}
    <3>1. PICK v \in loc[c].left :
            /\ versions' \in Removal(v)
            /\ loc' = [loc EXCEPT ![c].left = @ \ {v}]
            /\ pc' = pc
      BY <1>13, <2>2 DEF Wipe
    <3>2. versions' \in [Numbers -> Contents \union {NULL}]
      BY <1>1, <3>1, RemovalEffect
    <3>3. loc' \in [Callers -> Locals]
      BY <1>1, <3>1 DEF Locals
    <3> QED
      BY <1>1, <1>2, <1>13, <3>1, <3>2, <3>3 DEF Wipe
  <2> QED
    BY <2>1, <2>2
<1>14. CASE Crash(c)
  BY <1>1, <1>2, <1>14 DEF Crash, Steps
<1> QED
  BY <1>3, <1>4, <1>5, <1>6, <1>7, <1>8, <1>9, <1>10, <1>11, <1>12, <1>13,
     <1>14 DEF Step

-----------------------------------------------------------------------------
\* What a step of c must leave: the two parts of IInv that OthersIdle does not
\* give, for c alone.
Kept(c) == Knows(c)' /\ HashIsNewest'

LEMMA CallSteps ==
  ASSUME IInv, Serial, NEW c \in Callers,
         \/ \E d \in Contents : Ensure(c, d)
         \/ List(c) \/ Compare(c) \/ RecordHash(c)
  PROVE  Kept(c)
PROOF
<1> USE DEF Goto, Kept
<1>1. /\ pc \in [Callers -> Steps] /\ loc \in [Callers -> Locals]
      /\ Knows(c) /\ HashIsNewest /\ Alone
  BY DEF IInv, TypeOK
<1>2. pc[c] # "idle" => \A d \in Callers \ {c} : pc[d] = "idle"
  BY <1>1 DEF Alone
<1>3. CASE \E d \in Contents : Ensure(c, d)
  <2>1. PICK d \in Contents : Ensure(c, d)
    BY <1>3
  <2>2. /\ pc'[c] = "list" /\ loc'[c].data = d
        /\ versions' = versions /\ hash' = hash /\ lapse' = lapse
    BY <1>1, <2>1 DEF Ensure, Asking
  <2>3. \A e \in Callers : pc[e] = "idle"
    BY <2>1 DEF Ensure, MayStart
  <2> QED
    BY <1>1, <2>2, <2>3 DEF Knows, HashIsNewest, Highest, Existing
<1>4. CASE List(c)
  <2>1. PICK n \in 0 .. MaxVersion :
          /\ Highest(Existing, n)
          /\ loc' = [loc EXCEPT ![c].listed = Existing, ![c].highest = n]
          /\ pc' = [pc EXCEPT ![c] = IF n > 0 THEN "compare" ELSE "create"]
    BY <1>4 DEF List
  <2>2. /\ loc'[c].data = loc[c].data /\ loc'[c].listed = Existing
        /\ loc'[c].highest = n /\ Existing' = Existing
        /\ versions' = versions /\ hash' = hash /\ lapse' = lapse /\ pc[c] = "list"
    <3>1. loc[c] \in Locals /\ loc'[c] = [loc[c] EXCEPT !.listed = Existing,
                                                        !.highest = n]
      BY <1>1, <2>1 DEF Locals
    <3>2. versions' = versions /\ hash' = hash /\ lapse' = lapse /\ pc[c] = "list"
      BY <1>4 DEF List
    <3> QED
      BY <3>1, <3>2 DEF Existing, Locals
  <2>3. (pc'[c] = "compare" /\ n > 0) \/ pc'[c] = "create"
    BY <1>1, <2>1
  <2>4. Knows(c)'
    BY <1>1, <2>1, <2>2, <2>3 DEF Knows, Highest
  <2>5. HashIsNewest'
    BY <1>1, <1>2, <2>2 DEF HashIsNewest, Highest
  <2> QED
    BY <2>4, <2>5
<1>5. CASE Compare(c)
  <2> DEFINE Reuse ==
        /\ pc' = [pc EXCEPT ![c] = "returned"]
        /\ loc' = [loc EXCEPT ![c].result = loc[c].highest, ![c].reused = TRUE]
  <2>1. /\ pc[c] = "compare" /\ versions' = versions /\ hash' = hash
        /\ lapse' = lapse /\ Existing' = Existing
    BY <1>5 DEF Compare, Existing
  <2>2. HashIsNewest'
    BY <1>1, <1>2, <2>1 DEF HashIsNewest, Highest
  <2>3. CASE Unchanged(c) /\ Reuse
    <3>1. /\ pc'[c] = "returned" /\ loc'[c].result = loc[c].highest
          /\ loc'[c].data = loc[c].data /\ loc'[c].reused
      BY <1>1, <2>3 DEF Locals
    <3>2. /\ loc[c].highest \in Numbers /\ Highest(Existing, loc[c].highest)
          /\ loc[c].data \in Contents
      BY <1>1, <2>1, ArtifactConstants DEF Knows, Locals, Numbers
    <3>3. versions[loc[c].highest] = loc[c].data \/ lapse
      <4>1. CASE ~HashInStore
        BY <2>3, <4>1 DEF Unchanged
      <4>2. CASE HashInStore /\ ~lapse
        <5>1. hash = loc[c].data /\ hash # NULL
          BY <2>3, <3>2, <4>2, ArtifactConstants DEF Unchanged
        <5> QED
          BY <1>1, <1>2, <2>1, <3>2, <4>2, <5>1 DEF HashIsNewest
      <4> QED
        BY <4>1, <4>2
    <3>4. HashInStore => hash = loc[c].data
      BY <2>3 DEF Unchanged
    <3>5. loc[c].highest \in Existing
      BY <3>2, ArtifactConstants DEF Highest, Numbers
    <3> QED
      BY <2>1, <2>2, <3>1, <3>2, <3>3, <3>4, <3>5 DEF Knows, Highest
  <2>4. CASE pc'[c] = "create" /\ loc' = loc
    BY <1>1, <2>1, <2>2, <2>4 DEF Knows, Highest
  <2> QED
    BY <1>1, <1>5, <2>3, <2>4 DEF Compare
<1>6. CASE RecordHash(c)
  <2>1. /\ pc[c] = "record" /\ pc'[c] = "collect" /\ hash' = loc[c].data
        /\ versions' = versions /\ loc' = loc /\ Existing' = Existing
    BY <1>1, <1>6 DEF RecordHash, Existing
  <2>2. Knows(c)'
    BY <1>1, <2>1 DEF Knows, Highest
  <2>3. HashIsNewest'
    <3>1. /\ Highest(Existing, loc[c].result) /\ loc[c].result \in Numbers
          /\ versions[loc[c].result] = loc[c].data
      BY <1>1, <2>1 DEF Knows
    <3>2. loc[c].result \in Existing
      BY <3>1 DEF Highest, Numbers
    <3>3. \A n \in Numbers : Highest(Existing, n) => n = loc[c].result
      BY <3>1, <3>2, ArtifactConstants DEF Highest, Numbers
    <3> QED
      BY <2>1, <3>1, <3>3 DEF HashIsNewest, Highest
  <2> QED
    BY <2>2, <2>3
<1> QED
  BY <1>3, <1>4, <1>5, <1>6

LEMMA MintSteps ==
  ASSUME IInv, Serial, NEW c \in Callers, Create(c) \/ Collect(c) \/ Deploy(c)
  PROVE  Kept(c)
PROOF
<1> USE DEF Goto, Return, Kept
<1>1. /\ pc \in [Callers -> Steps] /\ loc \in [Callers -> Locals]
      /\ versions \in [Numbers -> Contents \union {NULL}]
      /\ Knows(c) /\ HashIsNewest /\ Alone
  BY DEF IInv, TypeOK
<1>2. pc[c] # "idle" => \A d \in Callers \ {c} : pc[d] = "idle"
  BY <1>1 DEF Alone
<1>3. CASE Create(c)
  <2> DEFINE v == NextNumber(c)
  <2>1. /\ pc[c] = "create" /\ v \in Numbers /\ hash' = hash
        /\ loc[c].listed = Existing /\ Highest(Existing, loc[c].highest)
        /\ loc[c].data \in Contents
    BY <1>1, <1>3 DEF Create, Knows
  <2>2. v \notin Existing /\ \A w \in Existing : w <= v
    <3>1. loc[c].highest \in Nat
      BY <1>1, ArtifactConstants DEF Locals
    <3>2. \A w \in Existing : w <= loc[c].highest
      BY <2>1 DEF Highest
    <3>3. \A w \in Existing : w \in Nat
      BY ArtifactConstants DEF Existing, Numbers
    <3>4. v = loc[c].highest + 1
      BY DEF NextNumber
    <3> HIDE DEF v
    <3>5. \A w \in Existing : w < v
      BY <3>1, <3>2, <3>3, <3>4
    <3> QED
      BY <3>1, <3>3, <3>4, <3>5
  <2>3. versions[v] = NULL
    BY <2>1, <2>2 DEF Existing
  <2>4. /\ versions' = [versions EXCEPT ![v] = loc[c].data]
        /\ loc' = [loc EXCEPT ![c].result = v, ![c].left = loc[c].listed]
        /\ pc' = [pc EXCEPT ![c] = IF HashInStore THEN "record" ELSE "collect"]
    BY <1>3, <2>3 DEF Create
  <2>5. loc'[c].data = loc[c].data /\ loc'[c].result = v /\ loc'[c].left = Existing
    <3>1. loc[c] \in Locals /\ loc'[c] = [loc[c] EXCEPT !.result = v,
                                                        !.left = loc[c].listed]
      BY <1>1, <2>4
    <3> HIDE DEF v
    <3> QED
      BY <2>1, <3>1 DEF Locals
  <2>6. Existing' = Existing \union {v} /\ versions'[v] = loc[c].data
    <3> HIDE DEF v
    <3> QED
      BY <1>1, <2>1, <2>4, ArtifactConstants DEF Existing
  <2>7. Highest(Existing', v)
    BY <2>1, <2>2, <2>6 DEF Highest, Numbers
  <2>8. pc'[c] = (IF HashInStore THEN "record" ELSE "collect")
    BY <1>1, <2>4
  <2>9. Knows(c)'
    <3> HIDE DEF v
    <3> QED
      BY <2>1, <2>2, <2>5, <2>6, <2>7, <2>8 DEF Knows, Highest
  <2>10. HashIsNewest'
    BY <2>8 DEF HashIsNewest
  <2> QED
    BY <2>9, <2>10
<1>4. CASE Collect(c)
  <2>1. /\ pc[c] = "collect" /\ hash' = hash /\ lapse' = lapse
        /\ loc[c].data \in Contents /\ loc[c].result \in Numbers
        /\ versions[loc[c].result] = loc[c].data
        /\ Highest(Existing, loc[c].result) /\ loc[c].result \notin loc[c].left
        /\ HashInStore => hash = loc[c].data
    BY <1>1, <1>4 DEF Collect, Knows
  <2>2. CASE loc[c].left = {}
    <3>1. pc'[c] = "returned" /\ versions' = versions /\ loc' = loc /\ lapse' = lapse
      BY <1>1, <1>4, <2>2 DEF Collect, Collectable
    <3> QED
      BY <1>1, <1>2, <2>1, <3>1 DEF Knows, HashIsNewest, Highest, Existing
  <2>3. CASE loc[c].left # {}
    <3>1. PICK v \in loc[c].left :
            /\ versions' \in Removal(v)
            /\ loc' = [loc EXCEPT ![c].left = @ \ {v}, ![c].kept = @ \/ Failed(v)]
            /\ pc' = pc
      BY <1>4, <2>3 DEF Collect, Collectable
    <3>2. /\ loc'[c].data = loc[c].data /\ loc'[c].result = loc[c].result
          /\ loc'[c].left = loc[c].left \ {v}
      BY <1>1, <3>1 DEF Locals
    <3>3. v # loc[c].result /\ versions'[loc[c].result] = loc[c].data
          /\ Existing' \subseteq Existing
      BY <1>1, <2>1, <3>1, RemovalEffect DEF Existing
    <3>4. loc[c].result \in Existing'
      BY <2>1, <3>3, ArtifactConstants DEF Existing
    <3>5. Highest(Existing', loc[c].result)
      BY <2>1, <3>3, <3>4 DEF Highest
    <3>6. Knows(c)'
      BY <2>1, <3>1, <3>2, <3>3, <3>4, <3>5 DEF Knows, Highest
    <3>7. HashIsNewest'
      <4>1. \A n \in Numbers : Highest(Existing', n) => n = loc[c].result
        BY <2>1, <3>4, <3>5, ArtifactConstants DEF Highest, Numbers
      <4> QED
        BY <2>1, <3>3, <4>1 DEF HashIsNewest, Highest
    <3> QED
      BY <3>6, <3>7
  <2> QED
    BY <2>2, <2>3
<1>5. CASE Deploy(c)
  <2>1. /\ pc[c] = "returned" /\ pc'[c] = "idle"
        /\ versions' = versions /\ hash' = hash /\ lapse' = lapse
    BY <1>1, <1>5 DEF Deploy
  <2> QED
    BY <1>1, <1>2, <2>1 DEF Knows, HashIsNewest, Highest, Existing
<1> QED
  BY <1>3, <1>4, <1>5

LEMMA PurgeSteps ==
  ASSUME IInv, Serial, NEW c \in Callers,
         Purge(c) \/ RemoveStacks(c) \/ WipeList(c) \/ Wipe(c) \/ Crash(c)
  PROVE  Kept(c)
PROOF
<1> USE DEF Goto, Return, Kept
<1>1. /\ pc \in [Callers -> Steps] /\ loc \in [Callers -> Locals]
      /\ versions \in [Numbers -> Contents \union {NULL}]
      /\ Knows(c) /\ HashIsNewest /\ Alone
  BY DEF IInv, TypeOK
<1>2. pc[c] # "idle" => \A d \in Callers \ {c} : pc[d] = "idle"
  BY <1>1 DEF Alone
<1>3. CASE Purge(c)
  <2>1. /\ pc'[c] = "stackrm" /\ versions' = versions /\ hash' = hash /\ lapse' = lapse
        /\ \A d \in Callers : pc[d] = "idle"
    BY <1>1, <1>3 DEF Purge, MayStart
  <2> QED
    BY <1>1, <2>1 DEF Knows, HashIsNewest, Highest, Existing
<1>4. CASE RemoveStacks(c)
  <2>1. /\ pc[c] = "stackrm" /\ pc'[c] = "wipelist" /\ versions' = versions
        /\ hash' = hash /\ lapse' = lapse
    BY <1>1, <1>4 DEF RemoveStacks
  <2> QED
    BY <1>1, <1>2, <2>1 DEF Knows, HashIsNewest, Highest, Existing
<1>5. CASE WipeList(c)
  <2>1. /\ pc[c] = "wipelist" /\ pc'[c] = "wipe" /\ loc'[c].left = Existing
        /\ versions' = versions /\ hash' = hash /\ lapse' = lapse /\ Existing' = Existing
    BY <1>1, <1>5 DEF WipeList, Locals, Existing
  <2>2. pc[c] = "wipelist"
    BY <1>5 DEF WipeList
  <2> QED
    BY <1>1, <1>2, <2>1, <2>2 DEF Knows, HashIsNewest, Highest
<1>6. CASE Wipe(c)
  <2>1. pc[c] = "wipe" /\ hash' = hash
    BY <1>6 DEF Wipe
  <2>2. CASE loc[c].left = {}
    <3>1. pc'[c] = "idle" /\ Existing' = Existing /\ versions' = versions /\ lapse' = lapse
      BY <1>1, <1>6, <2>2 DEF Wipe, Existing
    <3> QED
      BY <1>1, <1>2, <2>1, <3>1 DEF Knows, HashIsNewest, Highest
  <2>3. CASE loc[c].left # {}
    <3>1. PICK v \in loc[c].left :
            /\ versions' \in Removal(v)
            /\ loc' = [loc EXCEPT ![c].left = @ \ {v}]
            /\ lapse' = (HashInStore /\ (lapse \/ NewestWiped) /\ Existing' # {})
            /\ pc' = pc
      BY <1>6, <2>3 DEF Wipe
    <3>2. Knows(c)'
      BY <2>1, <3>1 DEF Knows
    <3>3. HashIsNewest'
      <4>1. SUFFICES ASSUME HashInStore, ~lapse', hash # NULL,
                            NEW n \in Numbers, Highest(Existing', n)
                     PROVE  versions'[n] = hash
        BY <2>1 DEF HashIsNewest, Highest
      <4>2. n \in Existing'
        BY <4>1, ArtifactConstants DEF Highest, Numbers
      <4>3. ~lapse /\ ~NewestWiped
        BY <3>1, <4>1, <4>2
      <4>4. Existing' \subseteq Existing /\ versions'[n] = versions[n]
        BY <1>1, <3>1, <4>2, RemovalEffect DEF Existing
      <4>5. \A x \in Existing : x \in Nat
        BY ArtifactConstants DEF Existing, Numbers
      <4>6. Highest(Existing, n)
        <5>1. SUFFICES ASSUME NEW x \in Existing, ~(x <= n) PROVE FALSE
          BY <4>2, <4>4 DEF Highest
        <5>2. x \notin Existing'
          BY <4>1, <4>2, <5>1 DEF Highest
        <5>3. versions' = [versions EXCEPT ![v] = NULL] /\ x = v
          BY <1>1, <3>1, <5>1, <5>2, RemovalEffect DEF Existing
        <5>4. \A y \in Existing : y \in Existing' \/ y = x
          BY <1>1, <5>3 DEF Existing
        <5>5. \A y \in Existing' : y <= n
          BY <4>1, <4>2 DEF Highest
        <5>6. n \in Nat /\ x \in Nat
          BY <4>1, <4>5, <5>1, ArtifactConstants DEF Numbers
        <5>7. \A y \in Existing : y <= x
          BY <4>5, <5>1, <5>4, <5>5, <5>6
        <5>8. Highest(Existing, x)
          BY <5>1, <5>7 DEF Highest
        <5>9. versions'[x] = NULL
          BY <5>1, <5>2 DEF Existing
        <5> QED
          BY <4>3, <5>8, <5>9 DEF NewestWiped
      <4> QED
        BY <1>1, <1>2, <2>1, <4>1, <4>3, <4>4, <4>6 DEF HashIsNewest
    <3> QED
      BY <3>2, <3>3
  <2> QED
    BY <2>2, <2>3
<1>7. CASE Crash(c)
  <2>1. /\ pc'[c] = "idle" /\ versions' = versions /\ hash' = hash
        /\ lapse' = (lapse \/ pc[c] = "record") /\ pc[c] # "idle"
    BY <1>1, <1>7 DEF Crash
  <2> QED
    BY <1>1, <1>2, <2>1 DEF Knows, HashIsNewest, Highest, Existing
<1> QED
  BY <1>3, <1>4, <1>5, <1>6, <1>7

-----------------------------------------------------------------------------
LEMMA IInvInductive ==
  ASSUME IInv, Serial, Next
  PROVE  IInv'
PROOF
<1>1. PICK c \in Callers : Step(c)
  BY DEF Next
<1>2. /\ \A d \in Callers \ {c} : pc[d] = "idle" /\ pc'[d] = "idle"
      /\ TypeOK'
  BY <1>1, OthersIdle DEF TypeOK
<1>3. Kept(c)
  BY <1>1, CallSteps, MintSteps, PurgeSteps DEF Step
<1>4. \A d \in Callers : Knows(d)'
  BY <1>2, <1>3 DEF Kept, Knows
<1>5. Alone'
  BY <1>2 DEF Alone
<1> QED
  BY <1>2, <1>3, <1>4, <1>5 DEF IInv, Kept

LEMMA InitEstablishes ==
  ASSUME Init PROVE IInv
PROOF
<1>1. NoLocals \in Locals
  BY ArtifactConstants DEF NoLocals, Asking, Locals
<1> QED
  BY <1>1 DEF Init, IInv, TypeOK, Alone, Knows, HashIsNewest, Steps

LEMMA NextPreserves ==
  ASSUME IInv, Serial, [Next]_vars PROVE IInv'
PROOF
<1>1. CASE Next
  BY <1>1, IInvInductive
<1>2. CASE UNCHANGED vars
  BY <1>2 DEF vars, IInv, TypeOK, Alone, Knows, HashIsNewest, Highest, Existing
<1> QED
  BY <1>1, <1>2

\* Every call of EnsureVersionedSecret or EnsureConfig returns a version that
\* exists, is the newest and holds the bytes it was called with, as long as
\* runs do not overlap; they may die at any step and docker may fail.  A secret
\* that is reused holds other bytes only after a lapse: while the newest one is
\* one whose run died before its hash was recorded, or one a purge left.
THEOREM ReturnsWhatWasAsked ==
  ASSUME Serial
  PROVE  Spec => [](TypeOK /\ ReturnedHolds /\ ReusedIsNewest)
PROOF
<1>1. IInv => TypeOK /\ ReturnedHolds /\ ReusedIsNewest
  BY DEF IInv, Knows, ReturnedHolds, ReusedIsNewest
<1> QED
  BY <1>1, InitEstablishes, NextPreserves, PTL DEF Spec

-----------------------------------------------------------------------------
(* What a call that mints a version leaves behind *)

\* From the creation of a version on, what exists is in use, is that version,
\* or is still to be collected.
CollectInv ==
  \A c \in Callers :
    /\ pc[c] \in {"record", "collect"} /\ ~loc[c].kept
         => Existing \subseteq mounted \union {loc[c].result} \union loc[c].left
    /\ pc[c] = "returned" /\ ~loc[c].reused /\ ~loc[c].kept
         => Existing \subseteq mounted \union {loc[c].result}

\* The steps after the listing keep it: docker removes whatever is not in use.
LEMMA CollectInductive ==
  ASSUME IInv, Serial, CollectInv, Next
  PROVE  CollectInv'
PROOF
<1> USE DEF Goto, Return
<1>1. PICK c \in Callers : Step(c)
  BY DEF Next
<1>2. /\ pc \in [Callers -> Steps] /\ loc \in [Callers -> Locals]
      /\ versions \in [Numbers -> Contents \union {NULL}]
      /\ Knows(c) /\ CollectInv
  BY DEF IInv, TypeOK
<1>3. \A d \in Callers \ {c} : pc'[d] = "idle"
  BY <1>1, OthersIdle
<1> DEFINE After ==
      /\ pc'[c] \in {"record", "collect"} /\ ~loc'[c].kept
           => Existing' \subseteq mounted' \union {loc'[c].result} \union loc'[c].left
      /\ pc'[c] = "returned" /\ ~loc'[c].reused /\ ~loc'[c].kept
           => Existing' \subseteq mounted' \union {loc'[c].result}
<1>4. SUFFICES After
  BY <1>3 DEF CollectInv
<1>5. CASE \/ \E d \in Contents : Ensure(c, d)
           \/ List(c) \/ Deploy(c) \/ Purge(c) \/ RemoveStacks(c) \/ WipeList(c)
           \/ Wipe(c) \/ Crash(c)
  <2>1. pc'[c] \notin {"record", "collect", "returned"}
    BY <1>2, <1>5 DEF Ensure, List, Deploy, Purge, RemoveStacks, WipeList, Wipe, Crash
  <2> QED
    BY <2>1
<1>6. CASE Compare(c)
  <2>1. CASE pc' = [pc EXCEPT ![c] = "create"]
    BY <1>2, <2>1
  <2>2. CASE loc' = [loc EXCEPT ![c].result = loc[c].highest, ![c].reused = TRUE]
             /\ pc' = [pc EXCEPT ![c] = "returned"]
    <3>1. loc'[c].reused = TRUE /\ pc'[c] = "returned"
      BY <1>2, <2>2 DEF Locals
    <3> QED
      BY <3>1
  <2> QED
    BY <1>6, <2>1, <2>2 DEF Compare
<1>7. CASE Create(c)
  <2> DEFINE v == NextNumber(c)
  <2>1. CASE versions[v] = NULL
    <3>1. /\ versions' = [versions EXCEPT ![v] = loc[c].data] /\ v \in Numbers
          /\ loc' = [loc EXCEPT ![c].result = v, ![c].left = loc[c].listed]
          /\ pc'[c] \in {"record", "collect"} /\ loc[c].listed = Existing
      BY <1>2, <1>7, <2>1 DEF Create, Knows
    <3> HIDE DEF v
    <3>2. loc'[c].result = v /\ loc'[c].left = Existing
      BY <1>2, <3>1 DEF Locals
    <3>3. Existing' \subseteq Existing \union {v}
      BY <1>2, <3>1 DEF Existing
    <3> QED
      BY <3>1, <3>2, <3>3
  <2>2. CASE versions[v] # NULL
    BY <1>2, <1>7, <2>2 DEF Create
  <2> QED
    BY <2>1, <2>2
<1>8. CASE RecordHash(c)
  BY <1>2, <1>8 DEF RecordHash, CollectInv, Existing
<1>9. CASE Collect(c)
  <2>1. /\ pc[c] = "collect" /\ mounted' = mounted
        /\ ~loc[c].kept
             => Existing \subseteq mounted \union {loc[c].result} \union loc[c].left
    BY <1>2, <1>9 DEF Collect, CollectInv
  <2>2. CASE loc[c].left = {}
    BY <1>2, <1>9, <2>1, <2>2 DEF Collect, Collectable, Existing
  <2>3. CASE loc[c].left # {}
    <3>1. PICK v \in loc[c].left :
            /\ versions' \in Removal(v)
            /\ loc' = [loc EXCEPT ![c].left = @ \ {v}, ![c].kept = @ \/ Failed(v)]
            /\ pc' = pc
      BY <1>9, <2>3 DEF Collect, Collectable
    <3>2. /\ loc'[c].result = loc[c].result /\ loc'[c].left = loc[c].left \ {v}
          /\ loc'[c].kept = (loc[c].kept \/ Failed(v))
      BY <1>2, <3>1 DEF Locals
    <3>3. Existing' \subseteq Existing
      BY <1>2, <3>1, RemovalEffect DEF Existing
    <3>4. ~loc'[c].kept => ~loc[c].kept /\ (v \in mounted \/ v \notin Existing')
      BY <3>2 DEF Failed, Existing
    <3> QED
      BY <2>1, <3>1, <3>2, <3>3, <3>4
  <2> QED
    BY <2>2, <2>3
<1> QED
  BY <1>1, <1>5, <1>6, <1>7, <1>8, <1>9 DEF Step

\* The collection loop of EnsureVersionedSecret and EnsureConfig: when a call
\* that minted a version returns and docker has failed to remove none, no
\* other is left but those a deployed service references.
THEOREM OldVersionsGo ==
  ASSUME Serial
  PROVE  Spec => []OldVersionsCollected
PROOF
<1>1. Init => IInv /\ CollectInv
  BY InitEstablishes DEF Init, CollectInv
<1>2. IInv /\ CollectInv /\ [Next]_vars => IInv' /\ CollectInv'
  <2> SUFFICES ASSUME IInv, CollectInv, [Next]_vars PROVE IInv' /\ CollectInv'
    OBVIOUS
  <2>1. CASE Next
    BY <2>1, CollectInductive, NextPreserves
  <2>2. CASE UNCHANGED vars
    BY <2>2, NextPreserves DEF vars, CollectInv, Existing
  <2> QED
    BY <2>1, <2>2
<1>3. CollectInv => OldVersionsCollected
  BY DEF CollectInv, OldVersionsCollected
<1> QED
  BY <1>1, <1>2, <1>3, PTL DEF Spec

-----------------------------------------------------------------------------
(* The certificates: the inductive invariant *)

Rendered  == {"compare", "record", "deploy"}
KeyDone   == {"render"} \union Rendered
SiteDone  == {"siteKey"} \union KeyDone
Updating  == {"load", "siteCert"} \union SiteDone
Phases    == {"idle", "keyFile", "certFile", "hostCert", "hostKey", "deleteRow", "dropSecrets",
              "putRow"} \union Updating
CertCmds  == [domain : Domains \union {NULL}, pair : Pairs \union {NULL}, refresh : BOOLEAN,
              cert : Secrets \union {NULL}, key : Secrets \union {NULL}, lists : SUBSET Entries,
              siteCert : Secrets \union {NULL}, siteKey : Secrets \union {NULL},
              config : Configs \union {NULL}, changed : BOOLEAN, alone : BOOLEAN]
Of(x, b)  == {s \in Secrets : s.part = x /\ s.base = b}

\* Files, secrets, rows and commands are of the right shape.
CertTypeOK ==
  /\ files \in [Parts -> Pairs] /\ held \subseteq Secrets
  /\ digests \in [Parts \X Domains -> Pairs \union {NULL}]
  /\ rows \in [Domains -> Row \union {NULL}]
  /\ phase \in [Admins -> Phases] /\ cmd \in [Admins -> CertCmds] /\ settled \subseteq Domains

\* There is a newest dynamic config.
ConfigsOK ==
  /\ configs \subseteq Configs /\ recorded \in Configs /\ deployed \in Configs
  /\ \E c \in configs : \A e \in configs : e.ver <= c.ver

\* The row of a host names secrets of that host.
RowsOK == \A h \in Hosts : rows[h] # NULL => rows[h].cert \in Of("cert", h) /\ rows[h].key \in Of("key", h)

\* What a command has made or read so far is for its own domain, and what it renders is
\* what its update has made.
CmdOK(o) ==
  phase[o] # "idle" =>
    /\ cmd[o].domain \in Domains
    /\ phase[o] \in {"keyFile", "certFile"} => cmd[o].domain = Main /\ cmd[o].siteCert = NULL
    /\ phase[o] \in {"hostCert", "hostKey", "deleteRow", "dropSecrets"} => cmd[o].domain \in Hosts
    /\ phase[o] \in {"deleteRow", "dropSecrets"} => cmd[o].pair = NULL
    /\ phase[o] \in {"keyFile", "certFile", "hostCert", "hostKey", "putRow"} => cmd[o].pair \in Pairs
    /\ cmd[o].domain = Main => cmd[o].pair \in Pairs
    /\ cmd[o].domain \in Hosts =>
         /\ phase[o] # "hostCert" => cmd[o].cert \in Of("cert", cmd[o].domain)
         /\ phase[o] \notin {"hostCert", "hostKey"} => cmd[o].key \in Of("key", cmd[o].domain)
    /\ phase[o] \in SiteDone => cmd[o].siteCert \in Secrets
    /\ phase[o] \in KeyDone => cmd[o].siteKey \in Secrets
    /\ phase[o] \in Rendered => /\ cmd[o].config \in Configs
                                /\ cmd[o].config.cert = cmd[o].siteCert
                                /\ cmd[o].config.key = cmd[o].siteKey

\* Alone a command is the only one for its domain, or the only one there is.
AloneOK(o) ==
  phase[o] # "idle" /\ cmd[o].alone =>
    \A e \in Admins \ {o} :
      phase[e] # "idle" => cmd[o].domain # Main /\ cmd[e].domain # cmd[o].domain

SettledOK == \A o \in Admins : phase[o] # "idle" => cmd[o].domain \notin settled

\* A lone command for a host has found the hashes to be those of the newest secrets: what
\* it has made exists and holds what it was sent.  It finds no row it has removed.
HostOK(o) ==
  phase[o] # "idle" /\ cmd[o].alone /\ cmd[o].domain \in Hosts =>
    /\ phase[o] = "hostCert" => Noted("cert", cmd[o].domain)
    /\ phase[o] \in {"hostCert", "hostKey"} => Noted("key", cmd[o].domain)
    /\ cmd[o].pair # NULL /\ phase[o] # "hostCert"
         => cmd[o].cert \in held /\ cmd[o].cert.pair = cmd[o].pair
    /\ cmd[o].pair # NULL /\ phase[o] \notin {"hostCert", "hostKey"}
         => cmd[o].key \in held /\ cmd[o].key.pair = cmd[o].pair
    /\ cmd[o].pair = NULL /\ phase[o] # "deleteRow" => rows[cmd[o].domain] = NULL

\* Any update would make of the files what is there: secret s.
Current(x, p, s) ==
  /\ files[x] = p /\ digests[<<x, Main>>] = p
  /\ Versions(x, Main) # {} /\ s = Newest(x, Main) /\ s.pair = p

\* How far a lone command for the cluster's own domain is.  Until it deploys, or finds
\* that it need not, the stored rendering is the deployed one.
MainOK(o) ==
  phase[o] # "idle" /\ cmd[o].alone /\ cmd[o].domain = Main =>
    /\ phase[o] = "certFile" => files["key"] = cmd[o].pair
    /\ phase[o] \in Updating => files["key"] = cmd[o].pair /\ files["cert"] = cmd[o].pair
    /\ phase[o] \in {"keyFile", "certFile", "load", "siteCert"} => Noted("cert", Main)
    /\ phase[o] \in {"keyFile", "certFile", "load", "siteCert", "siteKey"} => Noted("key", Main)
    /\ phase[o] \notin {"deploy", "putRow"} => recorded = deployed
    /\ phase[o] = "record" => (cmd[o].changed \/ cmd[o].config = recorded)
    /\ phase[o] \in SiteDone => Current("cert", cmd[o].pair, cmd[o].siteCert)
    /\ phase[o] \in KeyDone => Current("key", cmd[o].pair, cmd[o].siteKey)
    /\ phase[o] = "putRow" /\ cmd[o].siteCert # NULL =>
         /\ Current("cert", cmd[o].pair, cmd[o].siteCert) /\ Current("key", cmd[o].pair, cmd[o].siteKey)
         /\ deployed.cert = cmd[o].siteCert /\ deployed.key = cmd[o].siteKey

\* The update of a command has made, or will make, secrets c and k.
Follows(o, c, k) == /\ phase[o] \in SiteDone => cmd[o].siteCert = c
                    /\ phase[o] \in KeyDone => cmd[o].siteKey = k

\* What was uploaded last for the cluster's own domain is what every command that
\* renders now has or will find.
OwnKept ==
  Main \in settled /\ rows[Main] # NULL /\ rows[Main].cert # NULL =>
    /\ Current("cert", rows[Main].pair, rows[Main].cert) /\ Current("key", rows[Main].pair, rows[Main].key)
    /\ deployed.cert = rows[Main].cert /\ deployed.key = rows[Main].key
    /\ \A o \in Admins : Follows(o, rows[Main].cert, rows[Main].key)

CertInv ==
  /\ CertTypeOK /\ ConfigsOK /\ RowsOK /\ SettledOK /\ OwnKept /\ RowsHoldTheirPair
  /\ \A o \in Admins : CmdOK(o) /\ AloneOK(o) /\ HostOK(o) /\ MainOK(o)

-----------------------------------------------------------------------------
(* The certificates: versions of a secret *)

\* A non-empty set of versions has a greatest one.
LEMMA GreatestVersion ==
  ASSUME NEW V \in SUBSET (1 .. MaxMinted), V # {}
  PROVE  \E i \in V : \A j \in V : j <= i
<1> DEFINE T == {x \in Nat : MaxMinted - x \in V}
<1>0. MaxMinted \in Nat
  BY CertConstants
<1>1. T \subseteq Nat /\ \A i \in V : MaxMinted - i \in T
  BY <1>0
<1>2. \E x \in T : \A y \in T : ~ (<<y, x>> \in OpToRel(<, Nat))
  <2>1. T # {} /\ T \subseteq Nat
    BY <1>1
  <2> HIDE DEF T
  <2> QED
    BY <2>1, NatLessThanWellFounded, WFMin, Zenon
<1>3. PICK x \in T : \A y \in T : ~ (y < x)
  BY <1>1, <1>2 DEF OpToRel
<1>4. ASSUME NEW j \in V PROVE j <= MaxMinted - x
  <2>1. ~ (MaxMinted - j < x)
    BY <1>1, <1>3
  <2> QED
    BY <1>0, <1>3, <2>1
<1> QED
  BY <1>3, <1>4

LEMMA NewestIs ==
  ASSUME CertTypeOK, NEW x \in Parts, NEW b \in Domains, Versions(x, b) # {}
  PROVE  /\ Newest(x, b) \in Versions(x, b) /\ Newest(x, b) \in Of(x, b)
         /\ Newest(x, b).ver \in 1 .. MaxMinted
         /\ \A t \in Versions(x, b) : t.ver <= Newest(x, b).ver
<1> DEFINE V == {s.ver : s \in Versions(x, b)}
<1>1. Versions(x, b) \subseteq Of(x, b) /\ \A s \in Versions(x, b) : s.ver \in 1 .. MaxMinted
  BY DEF CertTypeOK, Versions, Of, Secrets
<1>2. V \in SUBSET (1 .. MaxMinted) /\ V # {}
  BY <1>1
<1>3. PICK i \in V : \A j \in V : j <= i
  <2> HIDE DEF V
  <2> QED
    BY <1>2, GreatestVersion
<1>4. \E s \in Versions(x, b) : \A t \in Versions(x, b) : t.ver <= s.ver
  BY <1>3
<1>5. Newest(x, b) \in Versions(x, b) /\ \A t \in Versions(x, b) : t.ver <= Newest(x, b).ver
  BY <1>4 DEF Newest
<1> QED
  BY <1>1, <1>5

\* A fresh version is above all there are.
LEMMA FreshIs ==
  ASSUME CertTypeOK, NEW x \in Parts, NEW b \in Domains, NEW p \in Pairs, NextVer(x, b) <= MaxMinted
  PROVE  /\ Fresh(x, b, p) \in Of(x, b) /\ Fresh(x, b, p).pair = p
         /\ \A t \in Versions(x, b) : t.ver < Fresh(x, b, p).ver
<1>1. MaxMinted \in Nat \ {0}
  BY CertConstants
<1>2. NextVer(x, b) \in 1 .. MaxMinted /\ \A t \in Versions(x, b) : t.ver < NextVer(x, b)
  <2>1. CASE Versions(x, b) = {}
    BY <1>1, <2>1 DEF NextVer
  <2>2. CASE Versions(x, b) # {}
    <3>1. \A t \in Versions(x, b) : t.ver \in 1 .. MaxMinted
      BY DEF CertTypeOK, Versions, Secrets
    <3> QED
      BY <1>1, <2>2, <3>1, NewestIs DEF NextVer
  <2> QED
    BY <2>1, <2>2
<1> QED
  BY <1>2 DEF Fresh, Of, Secrets

\* A run of EnsureVersionedSecret touches the versions and the hash of its own base, and
\* what it returns exists.
LEMMA MintIs ==
  ASSUME CertTypeOK, NEW x \in Parts, NEW b \in Domains, NEW p \in Pairs, Mint(x, b, p)
  PROVE  /\ held' \subseteq Secrets /\ digests' \in [Parts \X Domains -> Pairs \union {NULL}]
         /\ Minted(x, b, p) \in Of(x, b) /\ Minted(x, b, p) \in held'
         /\ \A s \in Secrets : ~ (s.part = x /\ s.base = b) => (s \in held' <=> s \in held)
         /\ \A y \in Parts, c \in Domains : y # x \/ c # b => digests'[<<y, c>>] = digests[<<y, c>>]
<1>1. CASE Reused(x, b, p)
  BY <1>1, NewestIs DEF Mint, Minted, CertTypeOK, Reused, Versions, Of
<1>2. CASE ~Reused(x, b, p)
  <2>1. PICK gone \in SUBSET (Versions(x, b) \ Mounted) :
          held' = (held \ gone) \union {Fresh(x, b, p)}
    BY <1>2 DEF Mint
  <2>2. /\ NextVer(x, b) <= MaxMinted
        /\ digests' = [digests EXCEPT ![<<x, b>>] = p] /\ Minted(x, b, p) = Fresh(x, b, p)
    BY <1>2 DEF Mint, Minted
  <2>3. Fresh(x, b, p) \in Of(x, b)
    BY <2>2, FreshIs
  <2>4. held' \subseteq Secrets
    BY <2>1, <2>3 DEF CertTypeOK, Of
  <2>5. digests' \in [Parts \X Domains -> Pairs \union {NULL}]
    BY <2>2 DEF CertTypeOK
  <2>6. \A y \in Parts, c \in Domains : y # x \/ c # b => digests'[<<y, c>>] = digests[<<y, c>>]
    BY <2>2 DEF CertTypeOK
  <2>7. \A s \in Secrets : ~ (s.part = x /\ s.base = b) => (s \in held' <=> s \in held)
    BY <2>1, <2>3 DEF Versions, Of
  <2> QED
    BY <2>1, <2>2, <2>3, <2>4, <2>5, <2>6, <2>7
<1> QED
  BY <1>1, <1>2

\* Where the recorded hash is that of the newest version, it returns what holds the bytes
\* asked for, and that is the newest version.
LEMMA MintCurrent ==
  ASSUME CertTypeOK, NEW x \in Parts, NEW b \in Domains, NEW p \in Pairs, Noted(x, b), Mint(x, b, p)
  PROVE  /\ Versions(x, b)' # {} /\ Newest(x, b)' = Minted(x, b, p)
         /\ Minted(x, b, p).pair = p /\ digests'[<<x, b>>] = p
<1>2. CASE Reused(x, b, p)
  <2>1. held' = held /\ digests' = digests /\ Minted(x, b, p) = Newest(x, b)
        /\ Versions(x, b) # {} /\ digests[<<x, b>>] = p
    BY <1>2 DEF Mint, Minted, Reused
  <2>2. Versions(x, b)' = Versions(x, b)
    BY <2>1 DEF Versions
  <2>3. Newest(x, b)' = Newest(x, b)
    BY <2>2 DEF Newest
  <2> QED
    BY <2>1, <2>2, <2>3 DEF Noted
<1>3. CASE ~Reused(x, b, p)
  <2>0. PICK gone \in SUBSET (Versions(x, b) \ Mounted) :
          held' = (held \ gone) \union {Fresh(x, b, p)}
    BY <1>3 DEF Mint
  <2>1. /\ NextVer(x, b) <= MaxMinted /\ Minted(x, b, p) = Fresh(x, b, p)
        /\ digests' = [digests EXCEPT ![<<x, b>>] = p]
    BY <1>3 DEF Mint, Minted
  <2>2. /\ Fresh(x, b, p) \in Of(x, b) /\ Fresh(x, b, p).pair = p
        /\ \A t \in Versions(x, b) : t.ver < Fresh(x, b, p).ver
    BY <2>1, FreshIs
  <2>3. digests'[<<x, b>>] = p
    BY <2>1 DEF CertTypeOK
  <2>4. Fresh(x, b, p) \in Versions(x, b)'
    BY <2>0, <2>2 DEF Versions, Of
  <2>5. \A t \in Versions(x, b)' : t = Fresh(x, b, p) \/ t \in Versions(x, b)
    BY <2>0 DEF Versions
  <2> DEFINE f == Fresh(x, b, p)
             W == Versions(x, b)'
  <2>6. f.ver \in Int /\ \A t \in Versions(x, b) : t.ver \in Int
    BY <2>2 DEF Of, Versions, CertTypeOK, Secrets
  <2>7. Newest(x, b)' = CHOOSE s \in W : \A t \in W : t.ver <= s.ver
    BY DEF Newest
  <2>8. f \in W /\ (\A t \in W : t.ver <= f.ver) /\ \A s \in W : (\A t \in W : t.ver <= s.ver) => s = f
    BY <2>2, <2>4, <2>5, <2>6
  <2>9. Newest(x, b)' = f
    <3> HIDE DEF f, W
    <3> QED
      BY <2>7, <2>8
  <2> QED
    BY <2>1, <2>2, <2>3, <2>4, <2>9
<1> QED
  BY <1>2, <1>3

-----------------------------------------------------------------------------
(* The certificates: what a step leaves alone *)

\* A command under way changes itself, the row of its domain and the secrets and hashes of
\* its domain or of the cluster's own, and settles its domain only at its end.
Frame(o) ==
  /\ \A e \in Admins \ {o} : phase'[e] = phase[e] /\ cmd'[e] = cmd[e]
  /\ phase'[o] # "idle" => cmd'[o].domain = cmd[o].domain /\ cmd'[o].alone = cmd[o].alone
  /\ \/ settled' = settled
     \/ phase'[o] = "idle" /\ cmd[o].alone /\ settled' = settled \union {cmd[o].domain}
  /\ \A d \in Domains : d # cmd[o].domain => rows'[d] = rows[d]
  /\ \A s \in Secrets : s.base \notin {cmd[o].domain, Main} => (s \in held' <=> s \in held)
  /\ \A x \in Parts, b \in Domains :
       b \notin {cmd[o].domain, Main} => digests'[<<x, b>>] = digests[<<x, b>>]

\* The hash stays that of the newest version where neither is touched.
LEMMA NotedStays ==
  ASSUME NEW x, NEW b, Versions(x, b)' = Versions(x, b), digests'[<<x, b>>] = digests[<<x, b>>]
  PROVE  Newest(x, b)' = Newest(x, b) /\ (Noted(x, b)' <=> Noted(x, b))
<1>1. Newest(x, b)' = Newest(x, b)
  BY DEF Newest
<1> QED
  BY <1>1 DEF Noted

\* Secrets of one base are untouched where none of that base comes or goes.
LEMMA SameVersions ==
  ASSUME CertTypeOK, held' \subseteq Secrets, NEW x, NEW b,
         \A s \in Secrets : s.part = x /\ s.base = b => (s \in held' <=> s \in held)
  PROVE  Versions(x, b)' = Versions(x, b)
BY DEF Versions, CertTypeOK

LEMMA FrameKeeps ==
  ASSUME CertInv, CertTypeOK', ConfigsOK', RowsOK', NEW o \in Admins, phase[o] # "idle", Frame(o),
         cmd[o].domain \in Hosts \intersect settled' /\ rows'[cmd[o].domain] # NULL
           => LET r == rows'[cmd[o].domain]
              IN  /\ {r.cert, r.key} \subseteq held'
                  /\ r.cert.pair = r.pair /\ r.key.pair = r.pair,
         CmdOK(o)', HostOK(o)', MainOK(o)', OwnKept'
  PROVE  CertInv'
<1>1. CertTypeOK /\ RowsOK /\ SettledOK /\ RowsHoldTheirPair /\ Main \notin Hosts /\ held' \subseteq Secrets
  BY CertConstants DEF CertInv, CertTypeOK
<1>2. ASSUME NEW e \in Admins PROVE CmdOK(e) /\ AloneOK(e) /\ HostOK(e) /\ MainOK(e)
  BY DEF CertInv
<1>3. SettledOK'
  <2>1. ASSUME NEW e \in Admins, phase'[e] # "idle" PROVE cmd'[e].domain \notin settled'
    BY <1>1, <1>2, <2>1 DEF Frame, SettledOK, AloneOK
  <2> QED
    BY <2>1 DEF SettledOK
<1>4. ASSUME NEW e \in Admins PROVE AloneOK(e)'
  <2>1. ASSUME phase'[e] # "idle", cmd'[e].alone, NEW f \in Admins \ {e}, phase'[f] # "idle"
        PROVE  cmd'[e].domain # Main /\ cmd'[f].domain # cmd'[e].domain
    <3>1. phase[e] # "idle" /\ cmd[e].alone /\ cmd'[e].domain = cmd[e].domain
      BY <2>1 DEF Frame
    <3>2. phase[f] # "idle" /\ cmd'[f].domain = cmd[f].domain
      BY <2>1 DEF Frame
    <3> QED
      BY <1>2, <2>1, <3>1, <3>2 DEF AloneOK
  <2> QED
    BY <2>1 DEF AloneOK
<1>5. ASSUME NEW e \in Admins, e # o PROVE CmdOK(e)' /\ HostOK(e)' /\ MainOK(e)'
  <2>1. phase'[e] = phase[e] /\ cmd'[e] = cmd[e]
    BY <1>5 DEF Frame
  <2>2. CmdOK(e)'
    BY <1>2, <2>1 DEF CmdOK
  <2>3. phase[e] # "idle" /\ cmd[e].alone => cmd[e].domain # Main /\ cmd[o].domain # cmd[e].domain
    BY <1>2, <1>5 DEF AloneOK
  <2>4. MainOK(e)'
    BY <2>1, <2>3 DEF MainOK
  <2>5. HostOK(e)'
    <3> SUFFICES ASSUME phase[e] # "idle", cmd[e].alone, cmd[e].domain \in Hosts PROVE HostOK(e)'
      BY <2>1 DEF HostOK
    <3>1. PICK h \in Hosts : h = cmd[e].domain
      OBVIOUS
    <3>2. h \notin {cmd[o].domain, Main} /\ h \in Domains
      BY <1>1, <2>3, <3>1 DEF Domains
    <3>3. rows'[h] = rows[h] /\ \A x \in Parts : digests'[<<x, h>>] = digests[<<x, h>>]
      BY <3>2 DEF Frame
    <3>4. \A s \in Secrets : s.base = h => (s \in held' <=> s \in held)
      BY <3>2 DEF Frame
    <3>5. \A x \in Parts : Noted(x, h)' <=> Noted(x, h)
      <4>1. ASSUME NEW x \in Parts PROVE Versions(x, h)' = Versions(x, h)
        BY <1>1, <3>4, SameVersions
      <4> QED
        BY <3>3, <4>1, NotedStays
    <3>6. "cert" \in Parts /\ "key" \in Parts
      BY DEF Parts
    <3> QED
      BY <1>2, <2>1, <3>1, <3>3, <3>4, <3>5, <3>6 DEF HostOK, CmdOK, Of
  <2> QED
    BY <2>2, <2>4, <2>5
<1>6. RowsHoldTheirPair'
  <2>1. ASSUME NEW d \in Hosts \intersect settled', rows'[d] # NULL
        PROVE  /\ {rows'[d].cert, rows'[d].key} \subseteq held'
               /\ rows'[d].cert.pair = rows'[d].pair /\ rows'[d].key.pair = rows'[d].pair
    <3>1. CASE d = cmd[o].domain
      BY <2>1, <3>1
    <3>2. CASE d # cmd[o].domain
      <4>1. d \in settled /\ rows'[d] = rows[d] /\ d # Main
        BY <1>1, <2>1, <3>2 DEF Frame, Domains
      <4>2. /\ {rows[d].cert, rows[d].key} \subseteq held
            /\ rows[d].cert \in Of("cert", d) /\ rows[d].key \in Of("key", d)
            /\ rows[d].cert.pair = rows[d].pair /\ rows[d].key.pair = rows[d].pair
        BY <1>1, <2>1, <4>1 DEF RowsHoldTheirPair, RowsOK
      <4>3. {rows[d].cert, rows[d].key} \subseteq held'
        BY <3>2, <4>1, <4>2 DEF Frame, Of
      <4> QED
        BY <4>1, <4>2, <4>3
    <3> QED
      BY <3>1, <3>2
  <2> QED
    BY <2>1 DEF RowsHoldTheirPair
<1> QED
  BY <1>3, <1>4, <1>5, <1>6 DEF CertInv

\* What the cluster's own certificate is compared with.
Undisputed == /\ files' = files
              /\ \A x \in Parts : Versions(x, Main)' = Versions(x, Main)
                                   /\ digests'[<<x, Main>>] = digests[<<x, Main>>]

LEMMA CurrentStays ==
  ASSUME Undisputed
  PROVE  /\ \A x \in Parts : Newest(x, Main)' = Newest(x, Main) /\ (Noted(x, Main)' <=> Noted(x, Main))
         /\ \A x \in Parts : \A p, s : Current(x, p, s)' <=> Current(x, p, s)
<1>1. ASSUME NEW x \in Parts PROVE Newest(x, Main)' = Newest(x, Main) /\ (Noted(x, Main)' <=> Noted(x, Main))
  BY NotedStays DEF Undisputed
<1>2. ASSUME NEW x \in Parts, NEW p, NEW s PROVE Current(x, p, s)' <=> Current(x, p, s)
  BY <1>1 DEF Undisputed, Current
<1> QED
  BY <1>1, <1>2

\* A step that neither mints nor deploys leaves what is known of the cluster's own
\* certificate as it is.
LEMMA OwnStays ==
  ASSUME CertInv, NEW o \in Admins, phase[o] # "idle", Frame(o), Undisputed, deployed' = deployed,
         Main \in settled' => Main \in settled,
         \A c, k : Follows(o, c, k) => Follows(o, c, k)'
  PROVE  OwnKept'
<1> SUFFICES ASSUME Main \in settled', rows'[Main] # NULL, rows'[Main].cert # NULL PROVE OwnKept'
  BY DEF OwnKept
<1>1. Main \in settled /\ cmd[o].domain # Main
  BY DEF CertInv, SettledOK
<1>2. rows'[Main] = rows[Main]
  BY <1>1 DEF Frame, Domains
<1>3. PICK p, c, k : p = rows[Main].pair /\ c = rows[Main].cert /\ k = rows[Main].key
  OBVIOUS
<1>4. /\ Current("cert", p, c) /\ Current("key", p, k) /\ deployed.cert = c /\ deployed.key = k
      /\ \A e \in Admins : Follows(e, c, k)
  BY <1>1, <1>2, <1>3 DEF CertInv, OwnKept
<1>5. Current("cert", p, c)' /\ Current("key", p, k)'
  BY <1>4, CurrentStays DEF Parts
<1>6. \A e \in Admins : Follows(e, c, k)'
  <2>1. Follows(o, c, k)'
    BY <1>4
  <2>2. ASSUME NEW e \in Admins, e # o PROVE Follows(e, c, k)'
    BY <1>4, <2>2 DEF Frame, Follows
  <2> QED
    BY <2>1, <2>2
<1> QED
  BY <1>2, <1>3, <1>4, <1>5, <1>6 DEF OwnKept

-----------------------------------------------------------------------------
(* The certificates: the steps of a command *)

LEMMA WriteFileKeeps == ASSUME CertInv, NEW o \in Admins, WriteFile(o) PROVE CertInv'
<1>1. CertTypeOK /\ ConfigsOK /\ RowsOK /\ CmdOK(o) /\ MainOK(o) /\ SettledOK /\ Main \notin Hosts
  BY CertConstants DEF CertInv
<1>2. phase[o] \in {"keyFile", "certFile"} /\ phase[o] # "idle" /\ cmd[o].domain = Main
      /\ cmd[o].pair \in Pairs /\ cmd[o].siteCert = NULL
  BY <1>1 DEF WriteFile, CmdOK
<1>3. UNCHANGED <<held, digests, rows, configs, recorded, deployed, cmd, settled>>
  BY DEF WriteFile, traefik
<1>4. CertTypeOK' /\ ConfigsOK'
  <2>1. CertTypeOK'
    BY <1>1, <1>2, <1>3 DEF CertTypeOK, WriteFile, ToPhase, Phases, Updating, Parts
  <2> QED
    BY <1>1, <1>3, <2>1 DEF ConfigsOK
<1>5. RowsOK' /\ Frame(o)
  <2>1. RowsOK'
    BY <1>1, <1>3 DEF RowsOK
  <2>2. \E v : phase' = [phase EXCEPT ![o] = v]
    BY DEF WriteFile, ToPhase
  <2>3. Frame(o)
    BY <1>1, <1>3, <2>2 DEF Frame, CertTypeOK
  <2> QED
    BY <2>1, <2>3
<1>6. phase'[o] \in {"certFile", "load", "putRow"}
  BY <1>1, <1>2 DEF CertTypeOK, WriteFile, ToPhase
<1>7. CmdOK(o)' /\ HostOK(o)'
  BY <1>1, <1>2, <1>3, <1>6 DEF CmdOK, HostOK, SiteDone, KeyDone, Rendered
<1>8. MainOK(o)'
  <2>1. \A x \in Parts : Versions(x, Main)' = Versions(x, Main)
    BY <1>3 DEF Versions
  <2>2. \A x \in Parts : Noted(x, Main)' <=> Noted(x, Main)
    BY <1>3, <2>1, NotedStays
  <2> QED
    BY <1>1, <1>2, <1>3, <1>6, <2>2
       DEF MainOK, CertTypeOK, WriteFile, ToPhase, Parts, Updating, SiteDone, KeyDone, Rendered
<1>10. OwnKept'
  BY <1>1, <1>2, <1>3 DEF OwnKept, SettledOK
<1>11. cmd[o].domain \notin Hosts
  BY <1>1, <1>2
<1> QED
  BY <1>2, <1>4, <1>5, <1>7, <1>8, <1>10, <1>11, FrameKeeps

\* Secrets of another base are not the cluster's own.
LEMMA OthersVersions ==
  ASSUME CertTypeOK, NEW b \in Hosts, held' \subseteq Secrets,
         \A s \in Secrets : s.base # b => (s \in held' <=> s \in held)
  PROVE  \A x \in Parts : Versions(x, Main)' = Versions(x, Main)
BY CertConstants DEF Versions, CertTypeOK

LEMMA MintHostKeeps == ASSUME CertInv, NEW o \in Admins, MintHost(o) PROVE CertInv'
<1>1. CertTypeOK /\ ConfigsOK /\ RowsOK /\ CmdOK(o) /\ HostOK(o) /\ SettledOK /\ Main \notin Hosts
  BY CertConstants DEF CertInv
<1> DEFINE d == cmd[o].domain
           p == cmd[o].pair
           x == IF phase[o] = "hostCert" THEN "cert" ELSE "key"
           s == Minted(x, d, p)
<1>2. phase[o] \in {"hostCert", "hostKey"} /\ phase[o] # "idle" /\ d \in Hosts /\ p \in Pairs
      /\ x \in Parts /\ d \in Domains /\ d # Main
  BY <1>1 DEF MintHost, CmdOK, Parts, Domains
<1>3. UNCHANGED <<uploads, files, rows, configs, recorded, deployed, settled>> /\ Mint(x, d, p)
  BY <1>2 DEF MintHost, Base, traefik
<1>4. \/ /\ phase[o] = "hostCert" /\ phase' = [phase EXCEPT ![o] = "hostKey"] /\ x = "cert"
         /\ cmd' = [cmd EXCEPT ![o].cert = s]
      \/ /\ phase[o] = "hostKey" /\ x = "key"
         /\ phase' = [phase EXCEPT ![o] = IF cmd[o].refresh THEN "load" ELSE "putRow"]
         /\ cmd' = [cmd EXCEPT ![o].key = s]
  BY <1>2 DEF MintHost, Base, ToPhase
<1>5. /\ held' \subseteq Secrets /\ digests' \in [Parts \X Domains -> Pairs \union {NULL}]
      /\ s \in Of(x, d) /\ s \in held'
      /\ \A t \in Secrets : ~ (t.part = x /\ t.base = d) => (t \in held' <=> t \in held)
      /\ \A y \in Parts, c \in Domains : y # x \/ c # d => digests'[<<y, c>>] = digests[<<y, c>>]
  <2> HIDE DEF d, p, x
  <2> QED
    BY <1>1, <1>2, <1>3, MintIs
<1>a. cmd[o].alone => s.pair = p
  <2>1. cmd[o].alone => Noted(x, d)
    BY <1>1, <1>2 DEF HostOK
  <2> HIDE DEF d, p, x
  <2> QED
    BY <1>1, <1>2, <1>3, <2>1, MintCurrent
<1> HIDE DEF s
<1>6. CertTypeOK' /\ ConfigsOK'
  <2>1. s \in Secrets
    BY <1>5 DEF Of
  <2>2. cmd' \in [Admins -> CertCmds]
    <3>1. [cmd[o] EXCEPT !.cert = s] \in CertCmds /\ [cmd[o] EXCEPT !.key = s] \in CertCmds
      BY <1>1, <2>1 DEF CertTypeOK, CertCmds
    <3> QED
      BY <1>1, <1>4, <3>1 DEF CertTypeOK
  <2>3. phase' \in [Admins -> Phases]
    BY <1>1, <1>4 DEF CertTypeOK, Phases, Updating
  <2>4. ConfigsOK'
    BY <1>1, <1>3 DEF ConfigsOK
  <2> QED
    BY <1>1, <1>3, <1>5, <2>2, <2>3, <2>4 DEF CertTypeOK
<1>7. RowsOK'
  BY <1>1, <1>3 DEF RowsOK
<1>8. /\ phase'[o] \in {"hostKey", "load", "putRow"} /\ (phase'[o] = "hostKey" <=> x = "cert")
      /\ cmd'[o].domain = d /\ cmd'[o].pair = p /\ cmd'[o].alone = cmd[o].alone
      /\ IF x = "cert" THEN cmd'[o].cert = s ELSE cmd'[o].key = s /\ cmd'[o].cert = cmd[o].cert
  BY <1>1, <1>4 DEF CertTypeOK, CertCmds
<1>9. Frame(o)
  <2>1. \A e \in Admins \ {o} : phase'[e] = phase[e] /\ cmd'[e] = cmd[e]
    BY <1>1, <1>4 DEF CertTypeOK
  <2>2. \A t \in Secrets : t.base # d => (t \in held' <=> t \in held)
    BY <1>5
  <2> QED
    BY <1>3, <1>5, <1>8, <2>1, <2>2 DEF Frame
<1>10. CmdOK(o)' /\ MainOK(o)'
  BY <1>1, <1>2, <1>4, <1>5, <1>8 DEF CmdOK, MainOK, SiteDone, KeyDone, Rendered
<1>11. HostOK(o)'
  <2>1. NULL \notin Pairs /\ "key" \in Parts
    BY CertConstants DEF Parts
  <2>2. x = "key" /\ cmd[o].cert \in held => cmd[o].cert \in held'
    BY <1>1, <1>2, <1>4, <1>5 DEF CmdOK, Of
  <2>3. x = "cert" /\ Noted("key", d) => Noted("key", d)'
    <3> SUFFICES ASSUME x = "cert", Noted("key", d) PROVE Noted("key", d)'
      OBVIOUS
    <3>1. PICK h \in Hosts : h = d
      BY <1>2
    <3>2. Versions("key", h)' = Versions("key", h)
      BY <1>1, <1>5, <3>1, SameVersions
    <3>3. digests'[<<"key", h>>] = digests[<<"key", h>>]
      BY <1>2, <1>5, <2>1, <3>1
    <3>4. Noted("key", h)'
      BY <3>1, <3>2, <3>3, NotedStays
    <3> QED
      BY <1>3, <1>4, <1>8, <3>1, <3>4 DEF Noted, Versions, Newest
  <2>4. x = "cert" /\ cmd[o].alone => Noted("key", d)
    BY <1>1, <1>2, <1>4 DEF HostOK
  <2>5. PICK h \in Hosts : h = d
    BY <1>2
  <2>6. cmd'[o].domain = h /\ (x = "cert" /\ cmd[o].alone => Noted("key", h)')
    BY <1>8, <2>3, <2>4, <2>5
  <2> QED
    BY <1>1, <1>2, <1>4, <1>5, <1>8, <1>a, <2>1, <2>2, <2>6 DEF HostOK
<1>12. Undisputed
  <2>1. \A t \in Secrets : t.base # d => (t \in held' <=> t \in held)
    BY <1>5
  <2>2. \A y \in Parts : Versions(y, Main)' = Versions(y, Main)
    <3> HIDE DEF d
    <3> QED
      BY <1>1, <1>2, <1>5, <2>1, OthersVersions
  <2>3. Main \in Domains
    BY DEF Domains
  <2> QED
    BY <1>2, <1>3, <1>5, <2>2, <2>3 DEF Undisputed
<1>13. OwnKept'
  <2>1. \A c, k : Follows(o, c, k) => Follows(o, c, k)'
    BY <1>8 DEF Follows, SiteDone, KeyDone, Rendered
  <2> QED
    BY <1>2, <1>3, <1>9, <1>12, <2>1, OwnStays
<1>14. d \notin settled'
  BY <1>1, <1>2, <1>3 DEF SettledOK
<1> QED
  BY <1>2, <1>6, <1>7, <1>9, <1>10, <1>11, <1>13, <1>14, FrameKeeps

LEMMA DeleteRowKeeps == ASSUME CertInv, NEW o \in Admins, DeleteRow(o) PROVE CertInv'
<1>1. CertTypeOK /\ ConfigsOK /\ RowsOK /\ CmdOK(o) /\ SettledOK /\ Main \notin Hosts
  BY CertConstants DEF CertInv
<1>2. phase[o] = "deleteRow" /\ phase[o] # "idle" /\ cmd[o].domain \in Hosts /\ cmd[o].pair = NULL
      /\ cmd[o].domain \in Domains /\ cmd[o].domain # Main
  BY <1>1 DEF DeleteRow, CmdOK
<1>3. /\ UNCHANGED <<files, held, digests, configs, recorded, deployed, cmd, settled>>
      /\ phase' = [phase EXCEPT ![o] = "dropSecrets"] /\ rows' = [rows EXCEPT ![cmd[o].domain] = NULL]
  BY DEF DeleteRow, ToPhase, traefik
<1>4. CertTypeOK' /\ ConfigsOK'
  BY <1>1, <1>3 DEF CertTypeOK, ConfigsOK, Phases
<1>5. phase'[o] = "dropSecrets" /\ rows'[cmd[o].domain] = NULL
      /\ \A d \in Domains : d # cmd[o].domain => rows'[d] = rows[d]
  BY <1>1, <1>2, <1>3 DEF CertTypeOK
<1>6. RowsOK'
  BY <1>1, <1>5 DEF RowsOK, Domains
<1>7. Frame(o)
  BY <1>1, <1>3, <1>5 DEF Frame, CertTypeOK
<1>8. CmdOK(o)' /\ HostOK(o)' /\ MainOK(o)'
  BY <1>1, <1>2, <1>3, <1>5 DEF CmdOK, HostOK, MainOK, SiteDone, KeyDone, Rendered
<1>9. OwnKept'
  <2>1. Undisputed
    BY <1>3 DEF Undisputed, Versions
  <2>2. \A c, k : Follows(o, c, k) => Follows(o, c, k)'
    BY <1>5 DEF Follows, SiteDone, KeyDone, Rendered
  <2> QED
    BY <1>2, <1>3, <1>7, <2>1, <2>2, OwnStays
<1> QED
  BY <1>2, <1>4, <1>5, <1>6, <1>7, <1>8, <1>9, FrameKeeps

LEMMA NoCmdIs == NoCmd \in CertCmds /\ "idle" \in Phases
BY DEF NoCmd, Sent, CertCmds, Phases

\* The removal of a certificate ends with the row gone, if no other command put one.
LEMMA DropSecretsKeeps == ASSUME CertInv, NEW o \in Admins, DropSecrets(o) PROVE CertInv'
<1> DEFINE d == cmd[o].domain
<1>1. CertTypeOK /\ ConfigsOK /\ RowsOK /\ CmdOK(o) /\ HostOK(o) /\ SettledOK /\ Main \notin Hosts
  BY CertConstants DEF CertInv
<1>2. phase[o] = "dropSecrets" /\ phase[o] # "idle" /\ d \in Hosts /\ cmd[o].pair = NULL
      /\ d \in Domains /\ d # Main /\ cmd[o].cert.base = d /\ cmd[o].key.base = d
  BY <1>1 DEF DropSecrets, CmdOK, Of
<1>3. UNCHANGED <<files, digests, rows, configs, recorded, deployed>>
  BY DEF DropSecrets, traefik
<1>b. PICK gone \in SUBSET ({cmd[o].cert, cmd[o].key} \ Mounted) : held' = held \ gone
  BY DEF DropSecrets
<1>4. \/ cmd' = cmd /\ settled' = settled /\ phase' = [phase EXCEPT ![o] = "load"]
      \/ /\ cmd' = [cmd EXCEPT ![o] = NoCmd] /\ phase' = [phase EXCEPT ![o] = "idle"]
         /\ settled' = IF cmd[o].alone THEN settled \union {d} ELSE settled
  BY DEF DropSecrets, ToPhase, Finish, EndCmd
<1>5. CertTypeOK' /\ ConfigsOK'
  <2>1. held' \subseteq Secrets
    BY <1>1, <1>b DEF CertTypeOK
  <2>2. CertTypeOK'
    BY <1>1, <1>2, <1>3, <1>4, <2>1, NoCmdIs DEF CertTypeOK, Phases, Updating
  <2> QED
    BY <1>1, <1>3, <2>2 DEF ConfigsOK
<1>6. RowsOK'
  BY <1>1, <1>3 DEF RowsOK
<1>7. (phase'[o] = "load" /\ cmd'[o] = cmd[o] /\ settled' = settled) \/ phase'[o] = "idle"
  BY <1>1, <1>4 DEF CertTypeOK
<1>8. \A t \in Secrets : t.base # d => (t \in held' <=> t \in held)
  BY <1>2, <1>b
<1>9. Frame(o)
  <2>1. \A e \in Admins \ {o} : phase'[e] = phase[e] /\ cmd'[e] = cmd[e]
    BY <1>1, <1>4 DEF CertTypeOK
  <2>2. \/ settled' = settled
        \/ phase'[o] = "idle" /\ cmd[o].alone /\ settled' = settled \union {d}
    BY <1>1, <1>4 DEF CertTypeOK
  <2>3. phase'[o] # "idle" => cmd'[o] = cmd[o]
    BY <1>7
  <2> QED
    BY <1>3, <1>8, <2>1, <2>2, <2>3 DEF Frame
<1>10. CmdOK(o)' /\ HostOK(o)' /\ MainOK(o)'
  BY <1>1, <1>2, <1>3, <1>7 DEF CmdOK, HostOK, MainOK, SiteDone, KeyDone, Rendered
<1>11. Undisputed
  <2>1. \A y \in Parts : Versions(y, Main)' = Versions(y, Main)
    <3> HIDE DEF d
    <3> QED
      BY <1>1, <1>2, <1>5, <1>8, OthersVersions DEF CertTypeOK
  <2> QED
    BY <1>3, <2>1 DEF Undisputed
<1>12. (Main \in settled' => Main \in settled) /\ \A c, k : Follows(o, c, k) => Follows(o, c, k)'
  BY <1>2, <1>4, <1>7 DEF Follows, SiteDone, KeyDone, Rendered
<1>13. OwnKept'
  BY <1>2, <1>3, <1>9, <1>11, <1>12, OwnStays
<1>14. d \in settled' => rows'[d] = NULL
  BY <1>1, <1>2, <1>3, <1>4 DEF SettledOK, HostOK
<1> QED
  BY <1>2, <1>5, <1>6, <1>9, <1>10, <1>13, <1>14, FrameKeeps

LEMMA CutOffKeeps == ASSUME CertInv, NEW o \in Admins, CutOff(o) PROVE CertInv'
<1>1. CertTypeOK /\ ConfigsOK /\ RowsOK /\ SettledOK
  BY DEF CertInv
<1>2. /\ UNCHANGED <<files, held, digests, rows, configs, recorded, deployed, settled>> /\ phase[o] # "idle"
      /\ phase' = [phase EXCEPT ![o] = "idle"] /\ cmd' = [cmd EXCEPT ![o] = NoCmd]
  BY DEF CutOff, EndCmd, ToPhase, traefik
<1>3. CertTypeOK' /\ ConfigsOK' /\ phase'[o] = "idle"
  BY <1>1, <1>2, NoCmdIs DEF CertTypeOK, ConfigsOK
<1>4. RowsOK'
  BY <1>1, <1>2 DEF RowsOK
<1>5. Frame(o)
  BY <1>1, <1>2, <1>3 DEF Frame, CertTypeOK
<1>6. CmdOK(o)' /\ HostOK(o)' /\ MainOK(o)'
  BY <1>3 DEF CmdOK, HostOK, MainOK
<1>7. OwnKept'
  <2>1. Undisputed
    BY <1>2 DEF Undisputed, Versions
  <2>2. \A c, k : Follows(o, c, k) => Follows(o, c, k)'
    BY <1>3 DEF Follows, SiteDone, KeyDone, Rendered
  <2> QED
    BY <1>2, <1>3, <1>5, <2>1, <2>2, OwnStays
<1>8. cmd[o].domain \notin settled'
  BY <1>1, <1>2 DEF SettledOK
<1> QED
  BY <1>2, <1>3, <1>4, <1>5, <1>6, <1>7, <1>8, FrameKeeps

\* A command killed within EnsureVersionedSecret leaves a secret of its domain or of the
\* cluster's own without its hash; where the files are current it makes none of these.
LEMMA CutInMintKeeps == ASSUME CertInv, NEW o \in Admins, CutInMint(o) PROVE CertInv'
<1>1. CertTypeOK /\ ConfigsOK /\ RowsOK /\ SettledOK /\ CmdOK(o) /\ OwnKept /\ Main \notin Hosts /\ Main \in Domains
  BY CertConstants DEF CertInv, Domains
<1>2. PICK x \in Parts, b \in Domains, p \in Pairs :
        /\ Orphan(o, x, b, p) /\ phase[o] # "idle"
        /\ (b = Main /\ p = files[x]) \/ (b = cmd[o].domain /\ b # Main)
  <2>1. "cert" \in Parts /\ "key" \in Parts /\ files["cert"] \in Pairs /\ files["key"] \in Pairs
    BY <1>1 DEF Parts, CertTypeOK
  <2> QED
    BY <1>1, <2>1 DEF CutInMint, CmdOK, Base, Domains
<1>3. /\ UNCHANGED <<files, digests, rows, configs, recorded, deployed, settled>>
      /\ phase' = [phase EXCEPT ![o] = "idle"] /\ cmd' = [cmd EXCEPT ![o] = NoCmd]
      /\ held' = held \union {Fresh(x, b, p)} /\ ~Reused(x, b, p) /\ NextVer(x, b) <= MaxMinted
  BY <1>2 DEF Orphan, EndCmd, ToPhase, traefik
<1>4. Fresh(x, b, p) \in Of(x, b)
  BY <1>1, <1>3, FreshIs
<1>5. CertTypeOK' /\ ConfigsOK' /\ phase'[o] = "idle"
  <2>1. held' \subseteq Secrets
    BY <1>1, <1>3, <1>4 DEF CertTypeOK, Of
  <2>2. CertTypeOK' /\ phase'[o] = "idle"
    BY <1>1, <1>3, <2>1, NoCmdIs DEF CertTypeOK
  <2> QED
    BY <1>1, <1>3, <2>2 DEF ConfigsOK
<1>6. RowsOK'
  BY <1>1, <1>3 DEF RowsOK
<1>7. Frame(o)
  <2>1. \A s \in Secrets : s.base # b => (s \in held' <=> s \in held)
    BY <1>3, <1>4 DEF Of
  <2> QED
    BY <1>1, <1>2, <1>3, <1>5, <2>1 DEF Frame, CertTypeOK
<1>8. CmdOK(o)' /\ HostOK(o)' /\ MainOK(o)'
  BY <1>5 DEF CmdOK, HostOK, MainOK
<1>9. OwnKept'
  <2>1. CASE b # Main
    <3>1. \A s \in Secrets : s.base # b => (s \in held' <=> s \in held)
      BY <1>3, <1>4 DEF Of
    <3>2. b \in Hosts /\ held' \subseteq Secrets
      BY <1>1, <1>5, <2>1 DEF Domains, CertTypeOK
    <3>3. Undisputed
      BY <1>1, <1>3, <3>1, <3>2, OthersVersions DEF Undisputed
    <3>4. \A c, k : Follows(o, c, k) => Follows(o, c, k)'
      BY <1>5 DEF Follows, SiteDone, KeyDone, Rendered
    <3> QED
      BY <1>2, <1>3, <1>7, <3>3, <3>4, OwnStays
  <2>2. CASE b = Main
    <3>1. ~ (Main \in settled /\ rows[Main] # NULL /\ rows[Main].cert # NULL)
      BY <1>1, <1>2, <1>3, <2>2 DEF OwnKept, Current, Reused, Parts
    <3> QED
      BY <1>3, <3>1 DEF OwnKept
  <2> QED
    BY <2>1, <2>2
<1>10. cmd[o].domain \notin settled'
  BY <1>1, <1>2, <1>3 DEF SettledOK
<1> QED
  BY <1>2, <1>5, <1>6, <1>7, <1>8, <1>9, <1>10, FrameKeeps

\* A step of an update that neither makes a secret nor deploys.
LEMMA UpdateKeeps ==
  ASSUME CertInv, NEW o \in Admins, NEW v \in {"siteCert", "compare", "record"},
         UNCHANGED <<files, held, digests, rows, deployed, settled>>,
         phase' = [phase EXCEPT ![o] = v], phase[o] \in Updating, phase[o] # "deploy",
         cmd' \in [Admins -> CertCmds], \A e \in Admins \ {o} : cmd'[e] = cmd[e],
         /\ cmd'[o].domain = cmd[o].domain /\ cmd'[o].pair = cmd[o].pair /\ cmd'[o].alone = cmd[o].alone
         /\ cmd'[o].cert = cmd[o].cert /\ cmd'[o].key = cmd[o].key
         /\ cmd'[o].siteCert = cmd[o].siteCert /\ cmd'[o].siteKey = cmd[o].siteKey,
         v # "siteCert" => phase[o] \in KeyDone,
         v = "siteCert" => phase[o] = "load",
         ConfigsOK', CmdOK(o)', recorded' = recorded,
         v = "record" => cmd'[o].changed \/ cmd'[o].config = recorded
  PROVE  CertInv'
<1>1. CertTypeOK /\ RowsOK /\ CmdOK(o) /\ HostOK(o) /\ MainOK(o) /\ SettledOK
  BY DEF CertInv
<1>2. phase'[o] = v /\ phase[o] # "idle" /\ \A e \in Admins \ {o} : phase'[e] = phase[e]
  BY <1>1 DEF CertTypeOK, Updating, SiteDone, KeyDone, Rendered
<1>3. CertTypeOK' /\ RowsOK'
  BY <1>1 DEF CertTypeOK, RowsOK, Phases, Updating, SiteDone, KeyDone, Rendered
<1>4. Frame(o)
  BY <1>1, <1>2 DEF Frame
<1>5. Undisputed
  BY DEF Undisputed, Versions
<1>6. HostOK(o)'
  BY <1>1, <1>2 DEF HostOK, Updating, SiteDone, KeyDone, Rendered
<1>7. MainOK(o)'
  <2> SUFFICES ASSUME cmd[o].alone, cmd[o].domain = Main PROVE MainOK(o)'
    BY DEF MainOK
  <2>1. PICK p, c, k : p = cmd[o].pair /\ c = cmd[o].siteCert /\ k = cmd[o].siteKey
    OBVIOUS
  <2>2. /\ files["key"] = p /\ files["cert"] = p
        /\ v = "siteCert" => recorded = deployed /\ Noted("cert", Main) /\ Noted("key", Main)
        /\ v # "siteCert" => Current("cert", p, c) /\ Current("key", p, k)
    BY <1>1, <1>2, <2>1 DEF MainOK, SiteDone
  <2>3. recorded = deployed
    BY <1>1, <1>2 DEF MainOK, Updating, SiteDone, KeyDone, Rendered
  <2>4. /\ v = "siteCert" => Noted("cert", Main)' /\ Noted("key", Main)'
        /\ v # "siteCert" => Current("cert", p, c)' /\ Current("key", p, k)'
    BY <1>5, <2>2, CurrentStays DEF Parts
  <2> QED
    BY <1>2, <2>1, <2>2, <2>3, <2>4 DEF MainOK, Updating, SiteDone, KeyDone, Rendered
<1>8. OwnKept'
  <2>1. \A c, k : Follows(o, c, k) => Follows(o, c, k)'
    BY <1>2 DEF Follows, SiteDone, KeyDone, Rendered
  <2> QED
    BY <1>2, <1>4, <1>5, <2>1, OwnStays
<1>9. cmd[o].domain \notin settled'
  BY <1>1, <1>2 DEF SettledOK
<1> QED
  BY <1>2, <1>3, <1>4, <1>6, <1>7, <1>8, <1>9, FrameKeeps

\* There is a newest dynamic config, and what is rendered is that or above all there are.
LEMMA RenderingIs ==
  ASSUME CertInv, NEW o \in Admins, phase[o] = "render"
  PROVE  /\ Rendering(o) \in Configs
         /\ Rendering(o).cert = cmd[o].siteCert /\ Rendering(o).key = cmd[o].siteKey
         /\ \A e \in configs : e.ver <= Rendering(o).ver
<1>1. ConfigsOK /\ CmdOK(o) /\ CertTypeOK
  BY DEF CertInv
<1>2. NewestConfig \in configs /\ \A e \in configs : e.ver <= NewestConfig.ver
  BY <1>1 DEF ConfigsOK, NewestConfig
<1>3. cmd[o].siteCert \in Secrets /\ cmd[o].siteKey \in Secrets /\ cmd[o].lists \in SUBSET Entries
  BY <1>1 DEF CmdOK, KeyDone, SiteDone, CertTypeOK, CertCmds
<1>4. NewestConfig \in Configs /\ NewestConfig.ver \in Nat \ {0} /\ \A e \in configs : e.ver \in Nat
  BY <1>1, <1>2 DEF ConfigsOK, Configs
<1>5. CASE NewestConfig = Body(o, NewestConfig.ver)
  <2>1. Rendering(o) = NewestConfig
    BY <1>5 DEF Rendering
  <2>2. NewestConfig.cert = cmd[o].siteCert /\ NewestConfig.key = cmd[o].siteKey
    BY <1>5 DEF Body
  <2> QED
    BY <1>2, <1>4, <2>1, <2>2
<1>6. CASE NewestConfig # Body(o, NewestConfig.ver)
  <2>1. PICK n : n = NewestConfig.ver + 1
    OBVIOUS
  <2>2. Rendering(o) = [ver |-> n, cert |-> cmd[o].siteCert, key |-> cmd[o].siteKey, lists |-> cmd[o].lists]
    BY <1>6, <2>1 DEF Rendering, Body
  <2>3. n \in Nat \ {0} /\ \A e \in configs : e.ver <= n
    BY <1>2, <1>4, <2>1
  <2> QED
    BY <1>3, <2>2, <2>3 DEF Configs
<1> QED
  BY <1>5, <1>6

LEMMA RenderKeeps ==
  ASSUME CertInv, NEW o \in Admins, LoadRows(o) \/ RenderConfig(o) \/ CompareHash(o)
  PROVE  CertInv'
<1>1. CertTypeOK /\ ConfigsOK /\ CmdOK(o)
  BY DEF CertInv
<1>2. CASE LoadRows(o)
  <2>1. PICK L : L = {[cert |-> rows[h].cert, key |-> rows[h].key] : h \in {g \in Hosts : rows[g] # NULL}}
    OBVIOUS
  <2>2. L \in SUBSET Entries
    BY <1>1, <2>1 DEF CertTypeOK, Entries, Row, Domains
  <2>3. /\ UNCHANGED <<files, held, digests, rows, configs, recorded, deployed, settled>>
        /\ phase[o] = "load" /\ phase' = [phase EXCEPT ![o] = "siteCert"]
        /\ cmd' = [cmd EXCEPT ![o].lists = L]
    BY <1>2, <2>1 DEF LoadRows, ToPhase, traefik
  <2>4. cmd[o] \in CertCmds /\ cmd'[o] = [cmd[o] EXCEPT !.lists = L] /\ phase'[o] = "siteCert"
    BY <1>1, <2>3 DEF CertTypeOK
  <2>5. /\ cmd'[o].domain = cmd[o].domain /\ cmd'[o].pair = cmd[o].pair /\ cmd'[o].alone = cmd[o].alone
        /\ cmd'[o].cert = cmd[o].cert /\ cmd'[o].key = cmd[o].key
        /\ cmd'[o].siteCert = cmd[o].siteCert /\ cmd'[o].siteKey = cmd[o].siteKey /\ cmd'[o] \in CertCmds
    BY <2>2, <2>4 DEF CertCmds
  <2>6. cmd' \in [Admins -> CertCmds] /\ \A e \in Admins \ {o} : cmd'[e] = cmd[e]
    BY <1>1, <2>3, <2>4, <2>5 DEF CertTypeOK
  <2>7. ConfigsOK'
    BY <1>1, <2>3 DEF ConfigsOK
  <2>8. CmdOK(o)'
    BY <1>1, <2>3, <2>4, <2>5 DEF CmdOK, SiteDone, KeyDone, Rendered
  <2>9. phase[o] \in Updating
    BY <2>3 DEF Updating
  <2> QED
    BY <2>3, <2>5, <2>6, <2>7, <2>8, <2>9, UpdateKeeps
<1>3. CASE RenderConfig(o)
  <2>1. PICK r : r = Rendering(o)
    OBVIOUS
  <2>2. /\ UNCHANGED <<files, held, digests, rows, recorded, deployed, settled>>
        /\ phase[o] = "render" /\ phase' = [phase EXCEPT ![o] = "compare"]
        /\ cmd' = [cmd EXCEPT ![o].config = r]
        /\ configs' = configs \/ configs' = (configs \intersect {deployed}) \union {r}
    BY <1>3, <2>1 DEF RenderConfig, ToPhase
  <2>3. /\ r \in Configs /\ r.cert = cmd[o].siteCert /\ r.key = cmd[o].siteKey
        /\ \A e \in configs : e.ver <= r.ver
    BY <2>1, <2>2, RenderingIs
  <2>4. cmd[o] \in CertCmds /\ cmd'[o] = [cmd[o] EXCEPT !.config = r] /\ phase'[o] = "compare"
    BY <1>1, <2>2 DEF CertTypeOK
  <2>5. /\ cmd'[o].domain = cmd[o].domain /\ cmd'[o].pair = cmd[o].pair /\ cmd'[o].alone = cmd[o].alone
        /\ cmd'[o].cert = cmd[o].cert /\ cmd'[o].key = cmd[o].key
        /\ cmd'[o].siteCert = cmd[o].siteCert /\ cmd'[o].siteKey = cmd[o].siteKey
        /\ cmd'[o].config = r /\ cmd'[o] \in CertCmds
    BY <2>3, <2>4 DEF CertCmds
  <2>6. cmd' \in [Admins -> CertCmds] /\ \A e \in Admins \ {o} : cmd'[e] = cmd[e]
    BY <1>1, <2>2, <2>4, <2>5 DEF CertTypeOK
  <2>7. ConfigsOK'
    <3>1. r.ver <= r.ver /\ configs \subseteq Configs
      BY <1>1, <2>3 DEF ConfigsOK, Configs
    <3> QED
      BY <1>1, <2>2, <2>3, <3>1 DEF ConfigsOK
  <2>8. CmdOK(o)'
    BY <1>1, <2>2, <2>3, <2>4, <2>5 DEF CmdOK, SiteDone, KeyDone, Rendered
  <2>9. phase[o] \in Updating /\ phase[o] \in KeyDone
    BY <2>2 DEF Updating, SiteDone, KeyDone
  <2> QED
    BY <2>2, <2>5, <2>6, <2>7, <2>8, <2>9, UpdateKeeps
<1>4. CASE CompareHash(o)
  <2>1. PICK b \in BOOLEAN : b = Changed(o)
    BY DEF Changed
  <2>2. /\ UNCHANGED <<files, held, digests, rows, configs, recorded, deployed, settled>>
        /\ phase[o] = "compare" /\ phase' = [phase EXCEPT ![o] = "record"]
        /\ cmd' = [cmd EXCEPT ![o].changed = b] /\ (b \/ cmd[o].config = recorded)
    BY <1>4, <2>1 DEF CompareHash, ToPhase, traefik, Changed
  <2>4. cmd[o] \in CertCmds /\ cmd'[o] = [cmd[o] EXCEPT !.changed = b] /\ phase'[o] = "record"
    BY <1>1, <2>2 DEF CertTypeOK
  <2>5. /\ cmd'[o].domain = cmd[o].domain /\ cmd'[o].pair = cmd[o].pair /\ cmd'[o].alone = cmd[o].alone
        /\ cmd'[o].cert = cmd[o].cert /\ cmd'[o].key = cmd[o].key
        /\ cmd'[o].siteCert = cmd[o].siteCert /\ cmd'[o].siteKey = cmd[o].siteKey
        /\ cmd'[o].config = cmd[o].config /\ cmd'[o].changed = b /\ cmd'[o] \in CertCmds
    BY <2>1, <2>4 DEF CertCmds
  <2>6. cmd' \in [Admins -> CertCmds] /\ \A e \in Admins \ {o} : cmd'[e] = cmd[e]
    BY <1>1, <2>2, <2>4, <2>5 DEF CertTypeOK
  <2>7. ConfigsOK'
    BY <1>1, <2>2 DEF ConfigsOK
  <2>8. CmdOK(o)'
    BY <1>1, <2>2, <2>4, <2>5 DEF CmdOK, SiteDone, KeyDone, Rendered
  <2>9. phase[o] \in Updating /\ phase[o] \in KeyDone
    BY <2>2 DEF Updating, SiteDone, KeyDone, Rendered
  <2> QED
    BY <2>2, <2>5, <2>6, <2>7, <2>8, <2>9, UpdateKeeps
<1> QED
  BY <1>2, <1>3, <1>4

\* An update makes secrets of the files; where these are current it finds them.
LEMMA MintSiteKeeps == ASSUME CertInv, NEW o \in Admins, MintSite(o) PROVE CertInv'
<1> DEFINE d == cmd[o].domain
<1>1. CertTypeOK /\ ConfigsOK /\ RowsOK /\ CmdOK(o) /\ HostOK(o) /\ MainOK(o) /\ SettledOK
      /\ OwnKept /\ Main \notin Hosts /\ Main \in Domains
  BY CertConstants DEF CertInv, Domains
<1>a. phase[o] \in {"siteCert", "siteKey"} /\ phase[o] # "idle" /\ d \in Domains
  BY <1>1 DEF MintSite, CmdOK
<1>b. PICK x \in Parts, y \in Parts :
        /\ x # y /\ Parts = {x, y} /\ (x = "cert" <=> phase[o] = "siteCert") /\ (x = "key" <=> phase[o] = "siteKey")
  BY <1>a DEF Parts
<1>c. PICK p \in Pairs : p = files[x]
  BY <1>1 DEF CertTypeOK
<1>d. PICK s : s = Minted(x, Main, p)
  OBVIOUS
<1>2. /\ phase[o] \in {"siteCert", "siteKey"} /\ phase[o] # "idle" /\ d \in Domains
      /\ x # y /\ Parts = {x, y} /\ p = files[x] /\ (x = "cert" <=> phase[o] = "siteCert")
      /\ x \in {"cert", "key"} /\ s = Minted(x, Main, p)
  BY <1>a, <1>b, <1>c, <1>d DEF Parts
<1>3. UNCHANGED <<files, rows, configs, recorded, deployed, settled>> /\ Mint(x, Main, p)
  BY <1>2 DEF MintSite, traefik
<1>4. \/ /\ phase[o] = "siteCert" /\ x = "cert" /\ phase' = [phase EXCEPT ![o] = "siteKey"]
         /\ cmd' = [cmd EXCEPT ![o].siteCert = s]
      \/ /\ phase[o] = "siteKey" /\ x = "key" /\ phase' = [phase EXCEPT ![o] = "render"]
         /\ cmd' = [cmd EXCEPT ![o].siteKey = s]
  BY <1>2 DEF MintSite, ToPhase
<1>5. /\ held' \subseteq Secrets /\ digests' \in [Parts \X Domains -> Pairs \union {NULL}]
      /\ s \in Of(x, Main)
      /\ \A t \in Secrets : ~ (t.part = x /\ t.base = Main) => (t \in held' <=> t \in held)
      /\ \A z \in Parts, c \in Domains : z # x \/ c # Main => digests'[<<z, c>>] = digests[<<z, c>>]
  BY <1>1, <1>2, <1>3, MintIs
<1>6. Noted(x, Main) => Current(x, p, s)'
  <2>1. Noted(x, Main) => /\ Versions(x, Main)' # {} /\ Newest(x, Main)' = s
                          /\ s.pair = p /\ digests'[<<x, Main>>] = p
    BY <1>1, <1>2, <1>3, MintCurrent
  <2> QED
    BY <1>2, <1>3, <2>1 DEF Current
<1>7. /\ Versions(y, Main)' = Versions(y, Main) /\ Newest(y, Main)' = Newest(y, Main)
      /\ digests'[<<y, Main>>] = digests[<<y, Main>>] /\ (Noted(y, Main)' <=> Noted(y, Main))
  <2>1. Versions(y, Main)' = Versions(y, Main)
    BY <1>1, <1>2, <1>5 DEF Versions, CertTypeOK
  <2>2. digests'[<<y, Main>>] = digests[<<y, Main>>]
    BY <1>1, <1>2, <1>5
  <2> QED
    BY <2>1, <2>2, NotedStays
<1>8. CertTypeOK' /\ ConfigsOK'
  <2>1. s \in Secrets
    BY <1>5 DEF Of
  <2>2. cmd' \in [Admins -> CertCmds]
    <3>1. [cmd[o] EXCEPT !.siteCert = s] \in CertCmds /\ [cmd[o] EXCEPT !.siteKey = s] \in CertCmds
      BY <1>1, <2>1 DEF CertTypeOK, CertCmds
    <3> QED
      BY <1>1, <1>4, <3>1 DEF CertTypeOK
  <2>3. phase' \in [Admins -> Phases]
    BY <1>1, <1>4 DEF CertTypeOK, Phases, Updating, SiteDone, KeyDone
  <2>4. ConfigsOK'
    BY <1>1, <1>3 DEF ConfigsOK
  <2> QED
    BY <1>1, <1>3, <1>5, <2>2, <2>3, <2>4 DEF CertTypeOK
<1>9. RowsOK'
  BY <1>1, <1>3 DEF RowsOK
<1>10. /\ phase'[o] \in {"siteKey", "render"} /\ (phase'[o] = "siteKey" <=> x = "cert")
       /\ cmd'[o].domain = d /\ cmd'[o].pair = cmd[o].pair /\ cmd'[o].alone = cmd[o].alone
       /\ cmd'[o].cert = cmd[o].cert /\ cmd'[o].key = cmd[o].key
       /\ IF x = "cert" THEN cmd'[o].siteCert = s
                        ELSE cmd'[o].siteKey = s /\ cmd'[o].siteCert = cmd[o].siteCert
  BY <1>1, <1>4 DEF CertTypeOK, CertCmds
<1>11. \A e \in Admins \ {o} : phase'[e] = phase[e] /\ cmd'[e] = cmd[e]
  BY <1>1, <1>4 DEF CertTypeOK
<1>12. Frame(o)
  <2>1. \A t \in Secrets : t.base # Main => (t \in held' <=> t \in held)
    BY <1>5
  <2> QED
    BY <1>3, <1>5, <1>10, <1>11, <2>1 DEF Frame
<1>13. CmdOK(o)'
  BY <1>1, <1>2, <1>5, <1>10 DEF CmdOK, Of, SiteDone, KeyDone, Rendered
<1>14. HostOK(o)'
  <2>1. \A t \in Of("cert", d) \union Of("key", d) : d # Main /\ t \in held => t \in held'
    BY <1>5 DEF Of
  <2> QED
    BY <1>1, <1>2, <1>3, <1>10, <2>1 DEF HostOK, CmdOK
<1>17. MainOK(o)'
  <2> SUFFICES ASSUME cmd[o].alone, d = Main PROVE MainOK(o)'
    BY <1>10 DEF MainOK
  <2>1. /\ files["key"] = cmd[o].pair /\ files["cert"] = cmd[o].pair /\ p = cmd[o].pair
        /\ recorded = deployed /\ Noted(x, Main)
        /\ x = "cert" => Noted("key", Main)
        /\ x = "key" => Current("cert", cmd[o].pair, cmd[o].siteCert)
    BY <1>1, <1>2 DEF MainOK, Updating, SiteDone, KeyDone
  <2>2. PICK c : c = cmd[o].siteCert
    OBVIOUS
  <2>3. CASE x = "cert"
    <3>1. y = "key"
      BY <1>2, <2>3 DEF Parts
    <3>2. Noted("key", Main)'
      BY <1>7, <2>1, <2>3, <3>1
    <3> QED
      BY <1>3, <1>6, <1>10, <2>1, <2>3, <3>2 DEF MainOK, Updating, SiteDone, KeyDone, Rendered
  <2>4. CASE x = "key"
    <3>1. y = "cert" /\ Current(y, p, c)
      BY <1>2, <2>1, <2>2, <2>4 DEF Parts
    <3>2. Current(y, p, c)'
      BY <1>2, <1>3, <1>7, <3>1 DEF Current
    <3> QED
      BY <1>3, <1>6, <1>10, <2>1, <2>2, <2>4, <3>1, <3>2 DEF MainOK, Updating, SiteDone, KeyDone, Rendered
  <2> QED
    BY <1>2, <2>3, <2>4
<1>18. OwnKept'
  <2> SUFFICES ASSUME Main \in settled, rows[Main] # NULL, rows[Main].cert # NULL PROVE OwnKept'
    BY <1>3 DEF OwnKept
  <2>0. PICK q, c, k : q = rows[Main].pair /\ c = rows[Main].cert /\ k = rows[Main].key
    OBVIOUS
  <2>1. /\ Current("cert", q, c) /\ Current("key", q, k) /\ deployed.cert = c /\ deployed.key = k
        /\ \A e \in Admins : Follows(e, c, k)
    BY <1>1, <2>0 DEF OwnKept
  <2>2. Reused(x, Main, p)
    BY <1>2, <2>1 DEF Current, Reused
  <2>3. held' = held /\ digests' = digests /\ s = Newest(x, Main)
    BY <1>2, <1>3, <2>2 DEF Mint, Minted
  <2>4. Undisputed
    BY <1>3, <2>3 DEF Undisputed, Versions
  <2>5. s = IF x = "cert" THEN c ELSE k
    BY <1>2, <2>1, <2>3 DEF Current
  <2>6. Current("cert", q, c)' /\ Current("key", q, k)'
    BY <2>1, <2>4, CurrentStays DEF Parts
  <2>7. \A e \in Admins : Follows(e, c, k)'
    <3>1. Follows(o, c, k)'
      BY <1>2, <1>10, <2>1, <2>5 DEF Follows, SiteDone, KeyDone, Rendered
    <3>2. ASSUME NEW e \in Admins, e # o PROVE Follows(e, c, k)'
      BY <1>11, <2>1, <3>2 DEF Follows
    <3> QED
      BY <3>1, <3>2
  <2> QED
    BY <1>3, <2>0, <2>1, <2>6, <2>7 DEF OwnKept
<1>19. d \notin settled'
  BY <1>1, <1>2, <1>3 DEF SettledOK
<1> QED
  BY <1>2, <1>8, <1>9, <1>12, <1>13, <1>14, <1>17, <1>18, <1>19, FrameKeeps

\* The end of an update: the stored rendering is the deployed one, or the one this command
\* has just deployed, and that mounts the secrets it has made of the files.
LEMMA UpdatedKeeps ==
  ASSUME CertInv, NEW o \in Admins, phase[o] \in {"record", "deploy"}, Updated(o),
         UNCHANGED <<files, held, digests, rows, configs>>, recorded' \in Configs,
         deployed' = deployed \/ deployed' = cmd[o].config,
         cmd[o].alone /\ cmd[o].domain = Main =>
           deployed'.cert = cmd[o].siteCert /\ deployed'.key = cmd[o].siteKey
  PROVE  CertInv'
<1> DEFINE d == cmd[o].domain
<1>1. /\ CertTypeOK /\ ConfigsOK /\ RowsOK /\ CmdOK(o) /\ HostOK(o) /\ MainOK(o) /\ SettledOK /\ OwnKept
      /\ Main \notin Hosts /\ Main \in Domains
  BY CertConstants DEF CertInv, Domains
<1>2. /\ phase[o] # "idle" /\ d \in Domains /\ phase[o] \in Rendered
      /\ cmd[o].config \in Configs
      /\ cmd[o].config.cert = cmd[o].siteCert /\ cmd[o].config.key = cmd[o].siteKey
  BY <1>1 DEF CmdOK, Rendered
<1>3. \/ /\ cmd[o].pair # NULL /\ cmd' = cmd /\ settled' = settled /\ phase' = [phase EXCEPT ![o] = "putRow"]
      \/ /\ cmd[o].pair = NULL /\ cmd' = [cmd EXCEPT ![o] = NoCmd] /\ phase' = [phase EXCEPT ![o] = "idle"]
         /\ settled' = IF cmd[o].alone THEN settled \union {d} ELSE settled
  BY DEF Updated, ToPhase, Finish, EndCmd
<1>4. CertTypeOK' /\ ConfigsOK'
  <2>1. CertTypeOK'
    BY <1>1, <1>2, <1>3, NoCmdIs DEF CertTypeOK, Phases
  <2> QED
    BY <1>1, <1>2, <2>1 DEF ConfigsOK
<1>5. RowsOK'
  BY <1>1, <1>2 DEF RowsOK
<1>6. \/ phase'[o] = "putRow" /\ cmd[o].pair \in Pairs /\ cmd'[o] = cmd[o] /\ settled' = settled
      \/ phase'[o] = "idle" /\ cmd[o].pair = NULL
  BY <1>1, <1>3 DEF CertTypeOK, CertCmds
<1>7. \A e \in Admins \ {o} : phase'[e] = phase[e] /\ cmd'[e] = cmd[e]
  BY <1>1, <1>3 DEF CertTypeOK
<1>8. Frame(o)
  <2>1. \/ settled' = settled
        \/ phase'[o] = "idle" /\ cmd[o].alone /\ settled' = settled \union {d}
    BY <1>3, <1>6
  <2> QED
    BY <1>2, <1>6, <1>7, <2>1 DEF Frame
<1>9. CmdOK(o)' /\ HostOK(o)'
  BY <1>1, <1>2, <1>6 DEF CmdOK, HostOK, SiteDone, KeyDone, Rendered
<1>10. Undisputed
  BY <1>2 DEF Undisputed, Versions
<1>12. MainOK(o)'
  <2> SUFFICES ASSUME phase'[o] = "putRow", cmd'[o] = cmd[o], cmd[o].alone, d = Main PROVE MainOK(o)'
    BY <1>6 DEF MainOK
  <2>1. PICK p, c, k : p = cmd[o].pair /\ c = cmd[o].siteCert /\ k = cmd[o].siteKey
    OBVIOUS
  <2>2. Current("cert", p, c) /\ Current("key", p, k)
    BY <1>1, <1>2, <2>1 DEF MainOK, SiteDone, KeyDone
  <2>3. Current("cert", p, c)' /\ Current("key", p, k)'
    BY <1>10, <2>2, CurrentStays DEF Parts
  <2> QED
    BY <1>2, <2>1, <2>3 DEF MainOK, Updating, SiteDone, KeyDone, Rendered
<1>13. OwnKept'
  <2>0. Main \in settled' => Main \in settled
    BY <1>1, <1>2, <1>3, CertConstants DEF CmdOK
  <2> SUFFICES ASSUME Main \in settled, rows[Main] # NULL, rows[Main].cert # NULL PROVE OwnKept'
    BY <1>2, <2>0 DEF OwnKept
  <2>1. PICK p, c, k : p = rows[Main].pair /\ c = rows[Main].cert /\ k = rows[Main].key
    OBVIOUS
  <2>2. /\ Current("cert", p, c) /\ Current("key", p, k) /\ deployed.cert = c /\ deployed.key = k
        /\ \A e \in Admins : Follows(e, c, k)
    BY <1>1, <2>1 DEF OwnKept
  <2>3. Current("cert", p, c)' /\ Current("key", p, k)'
    BY <1>10, <2>2, CurrentStays DEF Parts
  <2>4. cmd[o].config.cert = c /\ cmd[o].config.key = k
    BY <1>2, <2>2 DEF Follows, SiteDone, KeyDone
  <2>5. deployed'.cert = c /\ deployed'.key = k
    BY <2>2, <2>4
  <2>6. \A e \in Admins : Follows(e, c, k)'
    BY <1>6, <1>7, <2>2 DEF Follows, SiteDone, KeyDone, Rendered
  <2> QED
    BY <1>2, <2>1, <2>3, <2>5, <2>6 DEF OwnKept
<1>14. d \in Hosts /\ d \in settled' => rows'[d] = NULL
  BY <1>1, <1>2, <1>3 DEF SettledOK, HostOK
<1> QED
  BY <1>2, <1>4, <1>5, <1>8, <1>9, <1>12, <1>13, <1>14, FrameKeeps

\* With the rendering recorded, what remains to be done is to deploy it - or nothing, if it
\* is the deployed one.
LEMMA SetRenderedKeeps == ASSUME CertInv, NEW o \in Admins, SetRendered(o) PROVE CertInv'
<1>1. /\ CertTypeOK /\ ConfigsOK /\ RowsOK /\ CmdOK(o) /\ HostOK(o) /\ MainOK(o) /\ SettledOK
  BY DEF CertInv
<1>2. /\ phase[o] = "record" /\ phase[o] # "idle" /\ recorded' = cmd[o].config
      /\ UNCHANGED <<files, held, digests, rows, configs, deployed>>
      /\ cmd[o].config \in Configs
      /\ cmd[o].config.cert = cmd[o].siteCert /\ cmd[o].config.key = cmd[o].siteKey
  BY <1>1 DEF SetRendered, CmdOK, Rendered
<1>3. CASE cmd[o].changed
  <2>1. cmd' = cmd /\ settled' = settled /\ phase' = [phase EXCEPT ![o] = "deploy"]
    BY <1>3 DEF SetRendered, ToPhase
  <2>2. phase'[o] = "deploy" /\ \A e \in Admins \ {o} : phase'[e] = phase[e]
    BY <1>1, <2>1 DEF CertTypeOK
  <2>3. CertTypeOK' /\ ConfigsOK' /\ RowsOK'
    <3>1. CertTypeOK' /\ RowsOK'
      BY <1>1, <1>2, <2>1 DEF CertTypeOK, RowsOK, Phases, Updating, SiteDone, KeyDone, Rendered
    <3> QED
      BY <1>1, <1>2, <3>1 DEF ConfigsOK
  <2>4. Frame(o)
    BY <1>2, <2>1, <2>2 DEF Frame
  <2>5. CmdOK(o)' /\ HostOK(o)'
    BY <1>1, <1>2, <2>1, <2>2 DEF CmdOK, HostOK, SiteDone, KeyDone, Rendered
  <2>6. Undisputed
    BY <1>2 DEF Undisputed, Versions
  <2>7. MainOK(o)'
    <3> SUFFICES ASSUME cmd[o].alone, cmd[o].domain = Main PROVE MainOK(o)'
      BY <2>1 DEF MainOK
    <3>1. PICK p, c, k : p = cmd[o].pair /\ c = cmd[o].siteCert /\ k = cmd[o].siteKey
      OBVIOUS
    <3>2. Current("cert", p, c) /\ Current("key", p, k) /\ files["key"] = p /\ files["cert"] = p
      BY <1>1, <1>2, <3>1 DEF MainOK, Updating, SiteDone, KeyDone, Rendered
    <3>3. Current("cert", p, c)' /\ Current("key", p, k)'
      BY <2>6, <3>2, CurrentStays DEF Parts
    <3> QED
      BY <1>2, <2>1, <2>2, <3>1, <3>2, <3>3 DEF MainOK, Updating, SiteDone, KeyDone, Rendered
  <2>8. OwnKept'
    <3>1. \A c, k : Follows(o, c, k) => Follows(o, c, k)'
      BY <1>2, <2>1, <2>2 DEF Follows, SiteDone, KeyDone, Rendered
    <3> QED
      BY <1>2, <2>1, <2>4, <2>6, <3>1, OwnStays
  <2>9. cmd[o].domain \notin settled'
    BY <1>1, <1>2, <2>1 DEF SettledOK
  <2> QED
    BY <1>2, <2>3, <2>4, <2>5, <2>7, <2>8, <2>9, FrameKeeps
<1>4. CASE ~cmd[o].changed
  <2>1. Updated(o)
    BY <1>4 DEF SetRendered
  <2>2. cmd[o].alone /\ cmd[o].domain = Main => deployed = cmd[o].config
    BY <1>1, <1>2, <1>4 DEF MainOK
  <2> QED
    BY <1>2, <2>1, <2>2, UpdatedKeeps
<1> QED
  BY <1>3, <1>4

LEMMA DeployTraefikKeeps == ASSUME CertInv, NEW o \in Admins, DeployTraefik(o) PROVE CertInv'
<1>1. /\ phase[o] = "deploy" /\ deployed' = cmd[o].config /\ Updated(o)
      /\ UNCHANGED <<files, held, digests, rows, configs, recorded>>
  BY DEF DeployTraefik
<1>2. recorded \in Configs
  BY DEF CertInv, ConfigsOK
<1>3. cmd[o].config.cert = cmd[o].siteCert /\ cmd[o].config.key = cmd[o].siteKey
  BY <1>1 DEF CertInv, CmdOK, Rendered
<1> QED
  BY <1>1, <1>2, <1>3, UpdatedKeeps

\* The row is written last, of secrets that are still there.
LEMMA PutRowKeeps == ASSUME CertInv, NEW o \in Admins, PutRow(o) PROVE CertInv'
<1> DEFINE d == cmd[o].domain
<1>1. /\ CertTypeOK /\ ConfigsOK /\ RowsOK /\ CmdOK(o) /\ HostOK(o) /\ MainOK(o) /\ AloneOK(o) /\ SettledOK
      /\ Main \notin Hosts /\ Main \in Domains
  BY CertConstants DEF CertInv, Domains
<1>2. /\ phase[o] = "putRow" /\ phase[o] # "idle" /\ d \in Domains /\ cmd[o].pair \in Pairs
      /\ UNCHANGED <<files, held, digests, configs, recorded, deployed>>
      /\ cmd' = [cmd EXCEPT ![o] = NoCmd] /\ phase' = [phase EXCEPT ![o] = "idle"]
      /\ settled' = IF cmd[o].alone THEN settled \union {d} ELSE settled
      /\ rows' = [rows EXCEPT ![d] = Named(o)]
  BY <1>1 DEF PutRow, Finish, EndCmd, ToPhase, CmdOK, traefik
<1>3. /\ Named(o) \in Row /\ Named(o) # NULL /\ Named(o).pair = cmd[o].pair
      /\ d \in Hosts => Named(o).cert = cmd[o].cert /\ Named(o).key = cmd[o].key
      /\ d = Main => Named(o).cert = cmd[o].siteCert /\ Named(o).key = cmd[o].siteKey
  BY <1>1, <1>2, CertConstants DEF Named, Row, CertTypeOK, CertCmds
<1>4. CertTypeOK' /\ ConfigsOK' /\ phase'[o] = "idle"
  BY <1>1, <1>2, <1>3, NoCmdIs DEF CertTypeOK, ConfigsOK
<1>5. rows'[d] = Named(o) /\ \A e \in Domains : e # d => rows'[e] = rows[e]
  BY <1>1, <1>2 DEF CertTypeOK
<1>6. RowsOK'
  BY <1>1, <1>2, <1>3, <1>5 DEF RowsOK, CmdOK, Domains
<1>7. \A e \in Admins \ {o} : phase'[e] = phase[e] /\ cmd'[e] = cmd[e]
  BY <1>1, <1>2 DEF CertTypeOK
<1>8. Frame(o)
  BY <1>2, <1>4, <1>5, <1>7 DEF Frame
<1>9. CmdOK(o)' /\ HostOK(o)' /\ MainOK(o)'
  BY <1>4 DEF CmdOK, HostOK, MainOK
<1>10. Undisputed
  BY <1>2 DEF Undisputed, Versions
<1>11. OwnKept'
  <2>1. CASE d # Main
    <3>1. \A c, k : Follows(o, c, k) => Follows(o, c, k)'
      BY <1>4 DEF Follows, SiteDone, KeyDone, Rendered
    <3> QED
      BY <1>2, <1>8, <1>10, <2>1, <3>1, OwnStays
  <2>2. CASE d = Main
    <3>2. CASE ~cmd[o].alone
      BY <1>1, <1>2, <2>2, <3>2 DEF SettledOK, OwnKept
    <3>3. CASE cmd[o].alone /\ cmd[o].siteCert # NULL
      <4>1. PICK p, c, k : p = cmd[o].pair /\ c = cmd[o].siteCert /\ k = cmd[o].siteKey
        OBVIOUS
      <4>2. Current("cert", p, c) /\ Current("key", p, k) /\ deployed.cert = c /\ deployed.key = k
        BY <1>1, <1>2, <2>2, <3>3, <4>1 DEF MainOK
      <4>3. Current("cert", p, c)' /\ Current("key", p, k)'
        BY <1>10, <4>2, CurrentStays DEF Parts
      <4>4. \A e \in Admins : phase'[e] = "idle"
        BY <1>1, <1>2, <1>4, <1>7, <2>2, <3>3 DEF AloneOK
      <4>5. rows'[Main].pair = p /\ rows'[Main].cert = c /\ rows'[Main].key = k
        BY <1>3, <1>5, <2>2, <4>1
      <4> QED
        BY <1>2, <4>2, <4>3, <4>4, <4>5 DEF OwnKept, Follows, SiteDone, KeyDone, Rendered
    <3>4. CASE cmd[o].alone /\ cmd[o].siteCert = NULL
      BY <1>3, <1>5, <2>2, <3>4 DEF OwnKept
    <3> QED
      BY <3>2, <3>3, <3>4
  <2> QED
    BY <2>1, <2>2
<1>12. d \in Hosts \intersect settled' =>
         /\ {rows'[d].cert, rows'[d].key} \subseteq held'
         /\ rows'[d].cert.pair = rows'[d].pair /\ rows'[d].key.pair = rows'[d].pair
  BY <1>1, <1>2, <1>3, <1>5, CertConstants DEF SettledOK, HostOK
<1> QED
  BY <1>2, <1>4, <1>6, <1>8, <1>9, <1>11, <1>12, FrameKeeps

\* A command that starts disturbs those for its domain and for the cluster's own.
LEMMA BeginKeeps ==
  ASSUME CertInv, NEW o \in Admins, NEW s, NEW d \in Domains, NEW p \in Pairs \union {NULL},
         NEW refresh \in BOOLEAN, NEW c \in Secrets \union {NULL}, NEW k \in Secrets \union {NULL},
         BeginCmd(o, s, d, p, refresh, c, k),
         \/ d = Main /\ s = "keyFile" /\ p \in Pairs
         \/ d \in Hosts /\ s = "hostCert" /\ p \in Pairs
         \/ d \in Hosts /\ s = "deleteRow" /\ p = NULL /\ c \in Of("cert", d) /\ k \in Of("key", d)
  PROVE  CertInv'
<1> DEFINE lone == Whole(d) /\ \A b \in Busy : d # Main /\ cmd[b].domain # d
<1>1. CertTypeOK /\ ConfigsOK /\ RowsOK /\ SettledOK /\ OwnKept /\ RowsHoldTheirPair /\ Main \notin Hosts
  BY CertConstants DEF CertInv
<1>2. ASSUME NEW e \in Admins PROVE CmdOK(e) /\ AloneOK(e) /\ HostOK(e) /\ MainOK(e)
  BY DEF CertInv
<1>3. /\ phase[o] = "idle" /\ phase' = [phase EXCEPT ![o] = s] /\ settled' = settled \ {d}
      /\ UNCHANGED <<files, held, digests, rows, configs, recorded, deployed>>
      /\ cmd' = [e \in Admins |->
           IF e = o THEN Sent(d, p, refresh, c, k, lone)
           ELSE [cmd[e] EXCEPT !.alone = cmd[e].alone /\ cmd[e].domain \notin {d, Main}]]
  BY DEF BeginCmd, ToPhase, traefik
<1>4. /\ cmd'[o] \in CertCmds /\ cmd'[o].domain = d /\ cmd'[o].pair = p /\ cmd'[o].cert = c /\ cmd'[o].key = k
      /\ cmd'[o].siteCert = NULL /\ cmd'[o].alone = lone /\ lone \in BOOLEAN
  <2>1. cmd'[o] = Sent(d, p, refresh, c, k, lone)
    BY <1>3
  <2>2. lone \in BOOLEAN
    BY DEF Whole, Noted
  <2> HIDE DEF lone
  <2> QED
    BY <2>1, <2>2 DEF Sent, CertCmds
<1>5. ASSUME NEW e \in Admins, e # o
      PROVE  /\ phase'[e] = phase[e] /\ cmd'[e] \in CertCmds
             /\ cmd'[e].alone = (cmd[e].alone /\ cmd[e].domain \notin {d, Main})
             /\ cmd'[e].domain = cmd[e].domain /\ cmd'[e].pair = cmd[e].pair
             /\ cmd'[e].cert = cmd[e].cert /\ cmd'[e].key = cmd[e].key
             /\ cmd'[e].siteCert = cmd[e].siteCert /\ cmd'[e].siteKey = cmd[e].siteKey
             /\ cmd'[e].config = cmd[e].config
  <2>1. cmd'[e] = [cmd[e] EXCEPT !.alone = cmd[e].alone /\ cmd[e].domain \notin {d, Main}]
    BY <1>3, <1>5
  <2>2. cmd[e] \in CertCmds /\ phase'[e] = phase[e]
    BY <1>1, <1>3, <1>5 DEF CertTypeOK
  <2> QED
    BY <2>1, <2>2 DEF CertCmds
<1>6. phase'[o] = s /\ s # "idle" /\ s \notin Updating
  BY <1>1, <1>3 DEF CertTypeOK, Updating, SiteDone, KeyDone, Rendered
<1> HIDE DEF lone
<1>7. CertTypeOK' /\ ConfigsOK'
  <2>1. cmd' \in [Admins -> CertCmds]
    BY <1>3, <1>4, <1>5
  <2>2. phase' \in [Admins -> Phases]
    BY <1>1, <1>3 DEF CertTypeOK, Phases
  <2>3. ConfigsOK'
    BY <1>1, <1>3 DEF ConfigsOK
  <2> QED
    BY <1>1, <1>3, <2>1, <2>2, <2>3 DEF CertTypeOK
<1>8. RowsOK'
  BY <1>1, <1>3 DEF RowsOK
<1>9. SettledOK'
  BY <1>1, <1>3, <1>4, <1>5 DEF SettledOK
<1>10. Undisputed
  BY <1>3 DEF Undisputed, Versions
<1>12. OwnKept'
  <2> SUFFICES ASSUME Main \in settled, rows[Main] # NULL, rows[Main].cert # NULL PROVE OwnKept'
    BY <1>3 DEF OwnKept
  <2>1. PICK q, x, y : q = rows[Main].pair /\ x = rows[Main].cert /\ y = rows[Main].key
    OBVIOUS
  <2>2. /\ Current("cert", q, x) /\ Current("key", q, y) /\ deployed.cert = x /\ deployed.key = y
        /\ \A e \in Admins : Follows(e, x, y)
    BY <1>1, <2>1 DEF OwnKept
  <2>3. Current("cert", q, x)' /\ Current("key", q, y)'
    BY <1>10, <2>2, CurrentStays DEF Parts
  <2>4. \A e \in Admins : Follows(e, x, y)'
    BY <1>5, <1>6, <2>2 DEF Follows, Updating, SiteDone
  <2> QED
    BY <1>3, <2>1, <2>2, <2>3, <2>4 DEF OwnKept
<1>13. RowsHoldTheirPair'
  BY <1>1, <1>3 DEF RowsHoldTheirPair
<1>14. CmdOK(o)' /\ HostOK(o)' /\ MainOK(o)' /\ AloneOK(o)'
  <2>1. CmdOK(o)'
    BY <1>1, <1>4, <1>6 DEF CmdOK, Domains, Updating, SiteDone, KeyDone, Rendered
  <2>a. \A x, b : Noted(x, b)' <=> Noted(x, b)
    BY <1>3 DEF Noted, Newest, Versions
  <2>b. lone => Noted("cert", d) /\ Noted("key", d) /\ (d = Main => recorded = deployed)
    BY DEF lone, Whole, Base, Parts
  <2>c. lone => Noted("cert", d)' /\ Noted("key", d)'
    BY <2>a, <2>b
  <2>2. HostOK(o)' /\ MainOK(o)'
    BY <1>1, <1>3, <1>4, <1>6, <2>b, <2>c, CertConstants
       DEF HostOK, MainOK, Updating, SiteDone, KeyDone, Rendered
  <2>3. ASSUME lone, NEW e \in Admins, e # o, phase'[e] # "idle" PROVE d # Main /\ cmd'[e].domain # d
    BY <1>5, <2>3 DEF lone, Busy
  <2> QED
    BY <1>4, <2>1, <2>2, <2>3 DEF AloneOK
<1>15. ASSUME NEW e \in Admins, e # o PROVE CmdOK(e)' /\ HostOK(e)' /\ MainOK(e)' /\ AloneOK(e)'
  <2>1. CmdOK(e)'
    BY <1>2, <1>5, <1>15 DEF CmdOK
  <2>2. HostOK(e)'
    <3> SUFFICES ASSUME phase'[e] # "idle", cmd'[e].alone, cmd'[e].domain \in Hosts PROVE HostOK(e)'
      BY DEF HostOK
    <3>1. cmd[e].alone /\ phase'[e] = phase[e] /\ cmd'[e].domain = cmd[e].domain
          /\ cmd'[e].pair = cmd[e].pair /\ cmd'[e].cert = cmd[e].cert /\ cmd'[e].key = cmd[e].key
      BY <1>5, <1>15
    <3>2. \A x, b : Noted(x, b)' <=> Noted(x, b)
      BY <1>3 DEF Noted, Newest, Versions
    <3>3. PICK h : h = cmd[e].domain
      OBVIOUS
    <3> QED
      BY <1>2, <1>3, <3>1, <3>2, <3>3 DEF HostOK
  <2>3. MainOK(e)'
    BY <1>5, <1>15 DEF MainOK
  <2>4. ASSUME phase'[e] # "idle", cmd'[e].alone, NEW f \in Admins \ {e}, phase'[f] # "idle"
        PROVE  cmd'[e].domain # Main /\ cmd'[f].domain # cmd'[e].domain
    <3>1. cmd[e].alone /\ cmd[e].domain \notin {d, Main} /\ cmd'[e].domain = cmd[e].domain /\ phase[e] # "idle"
      BY <1>5, <1>15, <2>4
    <3>2. CASE f = o
      BY <1>4, <3>1, <3>2
    <3>3. CASE f # o
      BY <1>2, <1>5, <2>4, <3>1, <3>3 DEF AloneOK
    <3> QED
      BY <3>2, <3>3
  <2> QED
    BY <2>1, <2>2, <2>3, <2>4 DEF AloneOK
<1> QED
  BY <1>7, <1>8, <1>9, <1>12, <1>13, <1>14, <1>15 DEF CertInv

LEMMA CertInvStep == CertInv /\ [CertNext]_certVars => CertInv'
<1> SUFFICES ASSUME CertInv, [CertNext]_certVars PROVE CertInv'
  OBVIOUS
<1>0. CertTypeOK /\ RowsOK /\ Main \notin Hosts /\ Domains = {Main} \union Hosts
  BY CertConstants DEF CertInv, Domains
<1>1. ASSUME NEW o \in Admins, NEW d \in Domains, NEW p \in Pairs, NEW refresh \in BOOLEAN,
             StartApply(o, d, p, refresh)
      PROVE  CertInv'
  BY <1>0, <1>1, BeginKeeps DEF StartApply
<1>2. ASSUME NEW o \in Admins, NEW d \in Domains, NEW refresh \in BOOLEAN, StartRemoval(o, d, refresh)
      PROVE  CertInv'
  <2>1. d \in Hosts /\ rows[d].cert \in Of("cert", d) /\ rows[d].key \in Of("key", d)
    BY <1>0, <1>2 DEF StartRemoval, RowsOK
  <2>2. rows[d].cert \in Secrets /\ rows[d].key \in Secrets
    BY <2>1 DEF Of
  <2> QED
    BY <1>2, <2>1, <2>2, BeginKeeps DEF StartRemoval
<1>3. ASSUME NEW o \in Admins,
             \/ WriteFile(o) \/ MintHost(o) \/ DeleteRow(o) \/ DropSecrets(o)
             \/ LoadRows(o) \/ MintSite(o) \/ RenderConfig(o) \/ CompareHash(o) \/ SetRendered(o)
             \/ DeployTraefik(o) \/ PutRow(o) \/ CutOff(o) \/ CutInMint(o)
      PROVE  CertInv'
  BY <1>3, WriteFileKeeps, MintHostKeeps, DeleteRowKeeps, DropSecretsKeeps, RenderKeeps, MintSiteKeeps,
     SetRenderedKeeps, DeployTraefikKeeps, PutRowKeeps, CutOffKeeps, CutInMintKeeps
<1>4. CASE UNCHANGED certVars
  <2>1. /\ UNCHANGED <<files, held, digests, rows, configs, recorded, deployed, settled>>
        /\ phase' = phase /\ cmd' = cmd
    BY <1>4 DEF certVars
  <2>2. CertTypeOK' /\ ConfigsOK' /\ RowsOK' /\ SettledOK' /\ RowsHoldTheirPair'
    BY <2>1 DEF CertInv, CertTypeOK, ConfigsOK, RowsOK, SettledOK, RowsHoldTheirPair
  <2>3. \A x, b : /\ Newest(x, b)' = Newest(x, b) /\ Versions(x, b)' = Versions(x, b)
                  /\ (Noted(x, b)' <=> Noted(x, b))
    BY <2>1 DEF Versions, Newest, Noted
  <2>4. \A x, p, s : Current(x, p, s)' <=> Current(x, p, s)
    BY <2>1, <2>3 DEF Current
  <2>5. OwnKept'
    <3>1. PICK p, c, k : p = rows[Main].pair /\ c = rows[Main].cert /\ k = rows[Main].key
      OBVIOUS
    <3> QED
      BY <2>1, <2>4, <3>1 DEF CertInv, OwnKept, Follows
  <2>6. ASSUME NEW o \in Admins PROVE CmdOK(o)' /\ AloneOK(o)' /\ HostOK(o)' /\ MainOK(o)'
    <3>1. PICK d, p, c, k : /\ d = cmd[o].domain /\ p = cmd[o].pair
                            /\ c = cmd[o].siteCert /\ k = cmd[o].siteKey
      OBVIOUS
    <3>2. CmdOK(o)' /\ AloneOK(o)'
      BY <2>1 DEF CertInv, CmdOK, AloneOK
    <3>3. HostOK(o)'
      BY <2>1, <2>3, <3>1 DEF CertInv, HostOK
    <3>4. MainOK(o)'
      BY <2>1, <2>3, <2>4, <3>1 DEF CertInv, MainOK
    <3> QED
      BY <3>2, <3>3, <3>4
  <2> QED
    BY <2>2, <2>5, <2>6 DEF CertInv
<1> QED
  BY <1>1, <1>2, <1>3, <1>4 DEF CertNext

LEMMA CertInvInit == CertInit => CertInv
<1> SUFFICES ASSUME CertInit PROVE CertInv
  OBVIOUS
<1>1. PICK p \in Pairs :
        LET own(x) == [part |-> x, base |-> Main, ver |-> 1, pair |-> p]
        IN  /\ files = [x \in Parts |-> p]
            /\ held = {own(x) : x \in Parts}
            /\ digests = [k \in Parts \X Domains |-> IF k[2] = Main THEN p ELSE NULL]
            /\ deployed = [ver |-> 1, cert |-> own("cert"), key |-> own("key"), lists |-> {}]
  BY DEF CertInit
<1>2. /\ rows = [d \in Domains |-> NULL] /\ settled = {} /\ configs = {deployed} /\ recorded = deployed
      /\ phase = [o \in Admins |-> "idle"] /\ cmd = [o \in Admins |-> NoCmd]
  BY DEF CertInit
<1>3. Main \in Domains /\ Hosts \subseteq Domains /\ 1 \in 1 .. MaxMinted
  BY CertConstants DEF Domains
<1>a. \A x \in Parts : [part |-> x, base |-> Main, ver |-> 1, pair |-> p] \in Secrets
  BY <1>3 DEF Secrets
<1>4. CertTypeOK
  <2>1. held \subseteq Secrets
    BY <1>1, <1>a
  <2>2. digests \in [Parts \X Domains -> Pairs \union {NULL}]
    BY <1>1
  <2>3. files \in [Parts -> Pairs]
    BY <1>1
  <2> QED
    BY <1>2, <2>1, <2>2, <2>3, NoCmdIs DEF CertTypeOK
<1>b. ConfigsOK
  <2>1. PICK c \in Secrets, k \in Secrets : deployed = [ver |-> 1, cert |-> c, key |-> k, lists |-> {}]
    BY <1>1, <1>a DEF Parts
  <2>2. deployed \in Configs /\ deployed.ver = 1
    BY <2>1 DEF Configs
  <2> QED
    BY <1>2, <2>2 DEF ConfigsOK
<1>5. RowsOK /\ SettledOK /\ OwnKept /\ RowsHoldTheirPair
  BY <1>2, <1>3 DEF RowsOK, SettledOK, OwnKept, RowsHoldTheirPair
<1>7. \A o \in Admins : CmdOK(o) /\ AloneOK(o) /\ HostOK(o) /\ MainOK(o)
  BY <1>2 DEF CmdOK, AloneOK, HostOK, MainOK
<1> QED
  BY <1>4, <1>5, <1>7, <1>b DEF CertInv

-----------------------------------------------------------------------------
(* The certificates: the theorems *)

LEMMA CertInvHolds == CertSpec => []CertInv
<1>1. CertInit => CertInv
  BY CertInvInit
<1>2. CertInv /\ [CertNext]_certVars => CertInv'
  BY CertInvStep
<1> QED
  BY <1>1, <1>2, PTL DEF CertSpec

\* For any commands, hosts and pairs, whatever runs beside a command or is cut off, and
\* whichever removals docker fails: the row of a host whose own last command went through,
\* with the stored hashes those of the newest secrets when it began, names secrets that
\* exist and hold what was uploaded (hostSecretBase, ApplyCert, RemoveCert).
THEOREM HostRowsCanBeDeployed == CertSpec => []RowsHoldTheirPair
<1>1. CertInv => RowsHoldTheirPair
  BY DEF CertInv
<1> QED
  BY <1>1, CertInvHolds, PTL

\* For any commands, hosts and pairs: after a refreshing upload for the cluster's own domain
\* that no other command overlapped, and that found nothing left behind by one that was cut
\* off, Traefik mounts that certificate with the key that belongs to it, and goes on doing
\* so whatever commands for hosts come later, overlap and are cut off - also where a stack
\* whose stored rendering has not changed is not deployed (ApplyCert, Update).
THEOREM OwnPairStays == CertSpec => []OwnPairServed
<1>1. CertInv => OwnPairServed
  BY DEF CertInv, OwnKept, OwnPairServed, Current, Mounted
<1> QED
  BY <1>1, CertInvHolds, PTL
=============================================================================
