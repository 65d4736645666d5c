--------------------------- MODULE MCOrchestrator ---------------------------
(* TLC instances of the orchestrator. *)
EXTENDS Claims, TLC

(* Workers, clients and projects are interchangeable: no definition orders    *)
(* them or picks one with CHOOSE.                                             *)
Symmetry == Permutations(Workers) \union Permutations(Clients)
                \union Permutations(Projects)

=============================================================================
