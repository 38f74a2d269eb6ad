----------------------------- MODULE MCRelease -----------------------------
(* Instances of Release for TLC: ladders of canary weights. *)
EXTENDS Release

NoCanary == <<>>
TwoSteps == <<50, 100>>
(* A soak at no traffic, and a step after the one with full weight. *)
FourSteps == <<0, 50, 100, 100>>
=============================================================================
