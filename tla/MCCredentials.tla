--------------------------- MODULE MCCredentials ---------------------------
(* TLC instances of Credentials.                                            *)
EXTENDS Credentials, TLC

\* Calls are interchangeable, and so are client objects.
Symmetry == Permutations(Calls) \union Permutations(Clients)
=============================================================================
