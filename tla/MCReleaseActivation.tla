------------------------- MODULE MCReleaseActivation -------------------------
(***************************************************************************)
(* Small instances of ReleaseActivation.                                   *)
(***************************************************************************)
EXTENDS ReleaseActivation, TLC

\* Installers are alike.
Interchangeable == Permutations(Installers)

=============================================================================
