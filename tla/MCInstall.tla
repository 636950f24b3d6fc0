----------------------------- MODULE MCInstall ------------------------------
(* Instances of Install for TLC. *)
EXTENDS Install

MCVersions == {"old", "new"}
=============================================================================
