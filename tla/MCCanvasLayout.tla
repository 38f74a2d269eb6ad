---------------------------- MODULE MCCanvasLayout ----------------------------
(* Two statistics and a calendar on a grid of two columns, and two further *)
(* statistics for the projections.                                         *)
EXTENDS CanvasLayout

CONSTANTS left, right, month, third, fourth

MCWidgets == {left, right, month}
MCSpare   == <<third, fourth>>
MCKind    == [w \in MCWidgets \cup Range(MCSpare) |-> IF w = month THEN "calendar" ELSE "stat"]
MCIdOrder == left :> 1 @@ right :> 2 @@ month :> 3 @@ third :> 4 @@ fourth :> 5
=============================================================================
