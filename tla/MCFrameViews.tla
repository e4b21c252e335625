---------------------------- MODULE MCFrameViews ----------------------------
(* FrameViews for TLC: one watch; several stops, and a few things the user   *)
(* may do at any time.                                                       *)
EXTENDS FrameViews
=============================================================================
