----------------------- MODULE MCPaidBundleRotation -----------------------
(***************************************************************************)
(* PaidBundleRotation with two shared-lock processes, two windows and one  *)
(* archive directory, which a rotation with and without an explicit id     *)
(* compete for.                                                            *)
(***************************************************************************)
EXTENDS PaidBundleRotation

===========================================================================
