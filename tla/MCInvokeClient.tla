--------------------------- MODULE MCInvokeClient ---------------------------
(***************************************************************************)
(* InvokeClient with two concurrent calls, one Invoke and one Send: the    *)
(* smallest instance where ids collide and calls race with each other.     *)
(***************************************************************************)
EXTENDS InvokeClient
=============================================================================
