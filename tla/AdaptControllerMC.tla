-------------------------- MODULE AdaptControllerMC --------------------------
(* AdaptController with the default setting MinActive = MaxActive, one with *)
(* room between the two, and one without a cap.                             *)
EXTENDS AdaptController

MCConfigs == {[min |-> 2, max |-> 2], [min |-> 1, max |-> 2], [min |-> 1, max |-> 0]}

\* What cmd/xplex/main.go:211 gives the controller.
DefaultConfig == {[min |-> 2, max |-> 2]}
=============================================================================
