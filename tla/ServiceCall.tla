---------------------------- MODULE ServiceCall ----------------------------
(* What the service ports (configs.Service, secrets.Service, apikeys.Service, *)
(* ...) promise their callers: a call takes effect at most once and at one    *)
(* instant, and an answer that says what happened to it is true.  A caller    *)
(* may also be left with an error that says nothing, of a call that has       *)
(* acted, never will, or still may while the caller does something else.      *)
EXTENDS FiniteSets

CONSTANTS Callers, Names

VARIABLES
  present, state, target, result, heard,
  pending  \* per caller: the name of the call it no longer waits for, if any

vars == <<present, state, target, result, heard, pending>>

Init ==
  /\ present \in SUBSET Names
  /\ state = [c \in Callers |-> "idle"] /\ target \in [Callers -> Names]
  /\ result = [c \in Callers |-> "failed"] /\ heard = [c \in Callers |-> "error"]
  /\ pending = [c \in Callers |-> {}]

Open(c) ==
  /\ state[c] = "idle" /\ state' = [state EXCEPT ![c] = "open"]
  /\ \E n \in Names : target' = [target EXCEPT ![c] = n]
  /\ heard' = [heard EXCEPT ![c] = "error"]
  /\ UNCHANGED <<present, result, pending>>

\* What a call of n may make of the rows.
Moves(n) == {present, present \union {n}, present \ {n}}

\* The instant of the call: only a call that succeeds or fails moves its row.
Act(c) ==
  LET n == target[c]  IN
  /\ state[c] = "open" /\ state' = [state EXCEPT ![c] = "acted"]
  /\ \/ /\ \/ result' = [result EXCEPT ![c] = "missing"]
           \/ result' \in {[result EXCEPT ![c] = r] : r \in {"exists", "refused"}} /\ n \in present
        /\ UNCHANGED present
     \/ /\ result' \in {[result EXCEPT ![c] = r] : r \in {"ok", "failed"}}
        /\ present' \in Moves(n)
  /\ UNCHANGED <<target, heard, pending>>

Forget(c) ==
  /\ \E n \in Names : target' = [target EXCEPT ![c] = n]
  /\ result' = [result EXCEPT ![c] = "failed"] /\ UNCHANGED present

\* What may be heard of a result: a row that exists may be said to be protected, for
\* either means that it is there and that nothing was done to it.
Truths(r) == {r, "error"} \union (IF r = "exists" THEN {"refused"} ELSE {})

Hear(c) ==
  /\ state[c] = "acted" /\ state' = [state EXCEPT ![c] = "idle"]
  /\ heard' \in {heard} \union {[heard EXCEPT ![c] = x] : x \in Truths(result[c])}
  /\ Forget(c) /\ UNCHANGED pending

Close(c) ==
  /\ state[c] = "open" /\ state' = [state EXCEPT ![c] = "idle"]
  /\ UNCHANGED <<heard, pending>> /\ Forget(c)

\* The caller has heard an error; the call may act yet, once.
Abandon(c) ==
  /\ state[c] = "open" /\ state' = [state EXCEPT ![c] = "idle"]
  /\ pending' = [pending EXCEPT ![c] = {target[c]}]
  /\ UNCHANGED heard /\ Forget(c)
ActLate(c) ==
  /\ \E n \in pending[c] : present' \in Moves(n)
  /\ pending' = [pending EXCEPT ![c] = {}]
  /\ UNCHANGED <<state, target, result, heard>>

Next == \E c \in Callers :
  Open(c) \/ Act(c) \/ Hear(c) \/ Close(c) \/ Abandon(c) \/ ActLate(c)

Spec == Init /\ [][Next]_vars
=============================================================================
