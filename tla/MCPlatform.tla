------------------------------ MODULE MCPlatform ------------------------------
(* Two platform stacks.  The second build ships a new template for Traefik's  *)
(* stack and the same one as before for the other.                            *)
EXTENDS Platform, TLC
CONSTANTS infra, sso, d1, d2, e, c1, c2

ShippedTemplates == (infra :> [b \in 1 .. MaxBuild |-> IF b = 1 THEN d1 ELSE d2])
                    @@ (sso :> [b \in 1 .. MaxBuild |-> d1])
=============================================================================
