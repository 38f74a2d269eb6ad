--------------------------- MODULE MCCoordinator ---------------------------
(* Instances of Coordinator for TLC. *)
EXTENDS Coordinator

MCReplicas == {"a", "b"}
MCNamespaces == {"n1", "n2"}

(* n1 prefers a, n2 prefers b. *)
MCRank == [ns \in MCNamespaces |->
              IF ns = "n1" THEN [r \in MCReplicas |-> IF r = "a" THEN 0 ELSE 1]
                           ELSE [r \in MCReplicas |-> IF r = "b" THEN 0 ELSE 1]]
=============================================================================
