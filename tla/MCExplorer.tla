----------------------------- MODULE MCExplorer -----------------------------
(* The explorer's server and the adapters above it for TLC.                *)
EXTENDS DebugAdapter, TLC

CONSTANTS r1, r2, r3

MCMayAsk ==
  (r1 :> {"debug"}) @@ (r2 :> {"debug", "action"})
    @@ (r3 :> {"action", "change", "eval", "read", "plain"})

=============================================================================
