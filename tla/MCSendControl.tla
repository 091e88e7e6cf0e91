--------------------------- MODULE MCSendControl ---------------------------
(* TLC instances of SendControl.                                            *)
EXTENDS SendControl, TLC

\* Jobs, cycles and requests are interchangeable.
Symmetry == Permutations(Jobs) \union Permutations(Senders)
                \union Permutations(Clients)
=============================================================================
