--------------------------- MODULE MCBrowserSession ---------------------------
(* Two tabs, one account of the identity provider, one password account.   *)
EXTENDS BrowserSession, TLC

CONSTANTS ta, tb, ann, bob

MCTabs == {ta, tb}
MCOidc == {ann}
MCBasic == {bob}
MCSymmetry == Permutations(MCTabs)
MCInputs == {"reconnect", "read", "write", "signin", "logout", "reload", "fail", "revoke", "time"}
=============================================================================
