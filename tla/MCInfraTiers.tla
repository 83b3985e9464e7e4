---------------------------- MODULE MCInfraTiers ----------------------------
(* TLC instances of InfraTiers. *)
EXTENDS InfraTiers
=============================================================================
