------------------------- MODULE MCCredentialWriter -------------------------
(* CredentialWriter on small instances. *)
EXTENDS CredentialWriter, TLC

\* A list of endpoints has no meaning here beyond being the same or another.
EndpointSymmetry == Permutations(Endpoints)
=============================================================================
