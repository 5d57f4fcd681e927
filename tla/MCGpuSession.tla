---------------------------- MODULE MCGpuSession ----------------------------
(***************************************************************************)
(* GpuSession with two sessions to run after a settled first one.          *)
(***************************************************************************)
EXTENDS GpuSession

=============================================================================
