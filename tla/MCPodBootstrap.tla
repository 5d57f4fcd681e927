--------------------------- MODULE MCPodBootstrap ---------------------------
(***************************************************************************)
(* PodBootstrap with two runs of the script, which overlap or follow one   *)
(* another.                                                                *)
(***************************************************************************)
EXTENDS PodBootstrap
=============================================================================
