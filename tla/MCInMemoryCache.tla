--------------------------- MODULE MCInMemoryCache ---------------------------
(* The instance of InMemoryCache for TLC is given in the .cfg file. *)
EXTENDS InMemoryCache
=============================================================================
