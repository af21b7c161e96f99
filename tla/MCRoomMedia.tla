----------------------------- MODULE MCRoomMedia -----------------------------
(* Two of each value, and two protocol versions so that a conversion that  *)
(* defaults `v` is told apart from one that copies it.                     *)
EXTENDS RoomMedia

MCVersions == {"v2", "v1"}

=============================================================================
