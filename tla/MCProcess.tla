------------------------------ MODULE MCProcess ------------------------------
(* Instances of Process for TLC. *)
EXTENDS Process

FewCounts  == {2}
OneBatch   == {1}
=============================================================================
