----------------------------- MODULE MCServerHub -----------------------------
(* ServerHub with the connections as model values. *)
EXTENDS ServerHub
=============================================================================
