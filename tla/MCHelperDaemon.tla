--------------------------- MODULE MCHelperDaemon ----------------------------
(* HelperDaemon for a user with one server. *)
EXTENDS HelperDaemon
CONSTANT s1
OneServer == {<<s1>>}
=============================================================================
