----------------------------- MODULE MCWidgetQuery -----------------------------
(* A widget that polls, one that is being edited, and a tooltip.           *)
EXTENDS WidgetQuery

CONSTANTS poller, edited, tip, cpu, blank

MCWidgets   == {poller, edited}
MCTips      == {tip}
MCFirstKey  == [query |-> cpu, window |-> 1]
MCKeys      == {MCFirstKey, [query |-> cpu, window |-> 2], [query |-> blank, window |-> 2]}
MCDebounced == {edited}
MCPolls     == {poller}
=============================================================================
