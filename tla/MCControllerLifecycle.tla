----------------------- MODULE MCControllerLifecycle -----------------------
(* Instances of ControllerLifecycle for TLC. *)
EXTENDS ControllerLifecycle

\* The first creation of a CRD is of a kind the mapper does not know, a later
\* one of a kind it knows; or the mapper knows all of them.
MCMapped    == {kn \in CRDs \X (1..MaxCRD) : kn[2] > 1}
MCAllMapped == CRDs \X (1..MaxCRD)
=============================================================================
