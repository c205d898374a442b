-------------------------- MODULE MCHandlerStream ---------------------------
(* Small instances of the handler stream for TLC.                          *)
EXTENDS HandlerStream, TLC

(* Events are interchangeable as long as all of them, or none, have a      *)
(* deadline; used by the runs without temporal properties only.            *)
Symmetry == Permutations(Events)

=============================================================================
