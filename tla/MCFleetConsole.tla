--------------------------- MODULE MCFleetConsole ---------------------------
(* Two applications on pages of one record, so that a query has a second   *)
(* page; the filter value selects the second application.                  *)
EXTENDS FleetConsole

MCApps == 1..2
MCTagged == {2}
(* The table with and without the filter, and the map.                     *)
MCKey == {[view |-> "table", filter |-> FALSE], [view |-> "table", filter |-> TRUE],
          [view |-> "treemap", filter |-> FALSE]}
=============================================================================
