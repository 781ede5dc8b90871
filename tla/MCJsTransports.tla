--------------------------- MODULE MCJsTransports ---------------------------
(* Model checking of JsTransports.                                         *)
EXTENDS JsTransports
=============================================================================
