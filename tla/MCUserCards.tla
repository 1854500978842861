---------------------------- MODULE MCUserCards ----------------------------
(* The instance of UserStatus with cards; TLC also evaluates the test table. *)
EXTENDS MCUserStatus, UserStatusTests
=============================================================================
