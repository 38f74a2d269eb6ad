---------------------------- MODULE ImportLedger ----------------------------
(***************************************************************************)
(* What an import of a dashboard bundle promises, whatever requests are    *)
(* lost and however often the operator tries again: a document of the      *)
(* bundle is stored under one identity only, and it is reported as saved   *)
(* only once the workspace has taken it.  BundleImport implements this.    *)
(***************************************************************************)
EXTENDS FiniteSets

CONSTANTS Documents, Identities

VARIABLES
    stored,    \* per document, the identities the workspace took it under
    reported   \* per document: "open", "kept" or "saved"

Init == /\ stored = [d \in Documents |-> {}]
        /\ reported = [d \in Documents |-> "open"]

(* The workspace takes the document, perhaps again, at its one identity *)
Store(d) == /\ \E i \in Identities : /\ stored[d] \subseteq {i}
                                     /\ stored' = [stored EXCEPT ![d] = {i}]
            /\ UNCHANGED reported

(* One attempt may report several documents as kept when it ends *)
Keep == /\ \E D \in SUBSET {d \in Documents : reported[d] = "open"} :
               reported' = [d \in Documents |-> IF d \in D THEN "kept" ELSE reported[d]]
        /\ UNCHANGED stored

Report(d) == /\ reported[d] = "open" /\ stored'[d] # {}
             /\ reported' = [reported EXCEPT ![d] = "saved"]
             /\ \/ UNCHANGED stored
                \/ \E i \in Identities : /\ stored[d] \subseteq {i}
                                         /\ stored' = [stored EXCEPT ![d] = {i}]

Next == Keep \/ \E d \in Documents : Store(d) \/ Report(d)

Spec == Init /\ [][Next]_<<stored, reported>>
=============================================================================
