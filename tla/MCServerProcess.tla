--------------------------- MODULE MCServerProcess ---------------------------
(* Two clients on three io threads: two that make the default logger at    *)
(* once, and one that finds it made.                                       *)
EXTENDS ServerProcess
=============================================================================
