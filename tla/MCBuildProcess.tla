--------------------------- MODULE MCBuildProcess ---------------------------
(* Small instances of BuildProcess for TLC. *)
EXTENDS BuildProcess

AllLines == {"text", "step", "final", "long"}
=============================================================================
