------------------------------- MODULE MCClose --------------------------------
(* Instances of CloseCoordinator.                                            *)
EXTENDS CloseCoordinator, TLC
=============================================================================
