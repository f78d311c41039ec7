------------------------------- MODULE MCReload -------------------------------
(* Reload with files that are accepted, rejected by the loader, rejected    *)
(* because they need a restart, and that move or add a backend.             *)
EXTENDS Reload, TLC

CONSTANTS a, moved, b, A, B

Pools == "base" :> {a} @@ "moved" :> {moved} @@ "wider" :> {a, b}
         @@ "broken" :> {} @@ "address" :> {a}
FrozenParts == [c \in Configs |-> IF c = "address" THEN "other" ELSE "same"]
Names == a :> A @@ moved :> A @@ b :> B
=============================================================================
