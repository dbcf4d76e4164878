------------------------------ MODULE MCSession ------------------------------
(* Small instance of Session: two layers below the sink and two past it, two
   key/value heads. *)
EXTENDS Session
=============================================================================
