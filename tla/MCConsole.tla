----------------------------- MODULE MCConsole -----------------------------
(* Who may do what, one kind per behaviour: the accounts of the console, and  *)
(* the credentials and API keys of the node, for one credential at a time.    *)
(* kind: the credential, or "none" for the accounts.                          *)
EXTENDS Console, Credentials, TLC

VARIABLE kind

EitherInit ==
  /\ Init /\ CredInit
  /\ kind \in {"none"} \union Managed
  /\ kind # "none" => envUser = NULL

\* The commands are about the credential at hand; the keys matter to the edge token only.
OneCredential ==
  /\ \A p \in Commands : step'[p] # "idle" /\ held'[p].form.kind # "delete"
                            => held'[p].form.cred = kind
  /\ \A c \in Managed \ {kind} : row'[c] = NULL
  /\ kind # Edge => keys' = keys

ConsoleStep == kind = "none" /\ Next /\ UNCHANGED <<kind, credVars>>
NodeStep    == kind # "none" /\ CredNext /\ OneCredential /\ UNCHANGED <<kind, vars>>
EitherNext  == ConsoleStep \/ NodeStep
EitherSpec  == EitherInit /\ [][EitherNext]_<<kind, vars, credVars>>

AccessSymmetry == Permutations(Requests) \union Permutations(Commands)
=============================================================================
