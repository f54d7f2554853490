---------------------------- MODULE MCInstaller ----------------------------
(* Instances of Installer for TLC. *)
EXTENDS Installer

TwoHarnesses == <<"claude", "kiro">>
OneHarness == <<"claude">>
=============================================================================
