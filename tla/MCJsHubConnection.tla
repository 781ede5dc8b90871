------------------------- MODULE MCJsHubConnection -------------------------
(* Model checking of JsHubConnection.                                      *)
EXTENDS JsHubConnection
=============================================================================
