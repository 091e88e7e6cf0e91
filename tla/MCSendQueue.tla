---------------------------- MODULE MCSendQueue ----------------------------
(* TLC instances of SendQueue.                                              *)
EXTENDS SendQueue, TLC

\* Clients, senders and texts are interchangeable.
Symmetry == Permutations(Clients) \union Permutations(Senders)
                \union Permutations(Texts)
=============================================================================
