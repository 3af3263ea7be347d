---- MODULE MCLocalChat ----
(* Two requests of one key, one crash or shutdown, one failed write. *)
EXTENDS LocalChat
============================
