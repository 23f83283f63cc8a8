---------------------------- MODULE MCDeployment ----------------------------
(* Instances of Deployment for TLC. *)
EXTENDS Deployment

Commits == 1 .. 4
Schemas == <<1, 1, 2, 2>>       \* the third commit needs a migration
=============================================================================
