---------------------------- MODULE MCGpuFrames ----------------------------
(* The instance TLC checks: one resource, two frames in flight over three  *)
(* images, and a window of two sizes.                                      *)
EXTENDS GpuFrames

CONSTANTS r1, small, large

=============================================================================
