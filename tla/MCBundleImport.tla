--------------------------- MODULE MCBundleImport ---------------------------
(* Two dashboards, the first of which uses the bundle's saved query and    *)
(* opens the second.                                                       *)
EXTENDS BundleImport

CONSTANTS board, target, latency, prom, mimir

MCBundle      == <<board, target>>
MCDefinitions == <<latency>>
MCUses        == (board :> {latency}) @@ (target :> {})
MCLinks       == (board :> {target}) @@ (target :> {})
MCProviders   == {prom, mimir}
=============================================================================
