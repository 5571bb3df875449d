------------------------------ MODULE MCJsService ------------------------------
(* Small instances of JsService. *)
EXTENDS JsService
=============================================================================
