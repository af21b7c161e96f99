--------------------------- MODULE MCRoomImageInfo ---------------------------
(***************************************************************************)
(* Image messages with up to two thumbnails: two keys, so that two         *)
(* encrypted thumbnails differ, and one value of every other field, each   *)
(* of them present or absent.                                              *)
(***************************************************************************)
EXTENDS RoomImageInfo, TLC

MCVersions == {"v2"}

=============================================================================
