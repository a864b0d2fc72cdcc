-------------------------------- MODULE Null --------------------------------
(* The absent value: an SQL NULL, a None.                                   *)
CONSTANT NULL

=============================================================================
