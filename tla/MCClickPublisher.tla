-------------------------- MODULE MCClickPublisher --------------------------
(* Small instances of ClickPublisher, for TLC. *)
EXTENDS ClickPublisher
=============================================================================
