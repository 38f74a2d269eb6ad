------------------------- MODULE MCInsightsWorkspace -------------------------
(* Two saved dashboards and one identity for a new one.                    *)
EXTENDS InsightsWorkspace

CONSTANTS left, right, fresh

MCExisting == {left, right}
MCNewIds   == {fresh}
=============================================================================
