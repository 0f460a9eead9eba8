-------------------------- MODULE MCDeadletterReplay --------------------------
(* DeadletterReplay on small instances. *)
EXTENDS DeadletterReplay, TLC
=============================================================================
