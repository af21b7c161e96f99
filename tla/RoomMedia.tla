------------------------------ MODULE RoomMedia ------------------------------
(***************************************************************************)
(* MediaSource of ruma-common/src/events/room.rs: how the source of a media *)
(* file is read from an event's JSON, and how it is converted to and from  *)
(* the extensible-event file content (MSC3551).                            *)
(*                                                                         *)
(* The state follows one media source through the calls a client chains:  *)
(* the JSON body of an event (`json`) is deserialized (`source`), turned   *)
(* into extensible content (`ext`) and turned back (`rebuilt`).            *)
(***************************************************************************)
EXTENDS RoomMediaTypes

VARIABLES pc, json, source, ext, rebuilt

vars == <<pc, json, source, ext, rebuilt>>

-----------------------------------------------------------------------------
Init ==
  /\ pc = "received"
  /\ json \in JsonReprs
  /\ source = None /\ ext = None /\ rebuilt = None

(* The event body is deserialized; a body without url and file is refused. *)
Deserialize ==
  /\ pc = "received"
  /\ source' = DeserializeMedia(json)
  /\ pc' = IF source' = Error THEN "refused" ELSE "decoded"
  /\ UNCHANGED <<json, ext, rebuilt>>

ToExtensible ==
  /\ pc = "decoded"
  /\ ext' = IntoExtensibleContent(source)
  /\ pc' = "extended"
  /\ UNCHANGED <<json, source, rebuilt>>

FromExtensible ==
  /\ pc = "extended"
  /\ rebuilt' = FromFileContent(ext)
  /\ pc' = "rebuilt"
  /\ UNCHANGED <<json, source, ext>>

Next == Deserialize \/ ToExtensible \/ FromExtensible

Spec == Init /\ [][Next]_vars

-----------------------------------------------------------------------------
TypeOK ==
  /\ pc \in {"received", "refused", "decoded", "extended", "rebuilt"}
  /\ json \in JsonReprs
  /\ source \in MediaSources \cup {None, Error}
  /\ ext \in FileContents \cup {None}
  /\ rebuilt \in MediaSources \cup {None}

(* A body that carries an encrypted file (whatever else it carries, e.g.  *)
(* a plain url kept for old clients) is never handled as plain media: the  *)
(* deserialized source, its extensible content and the source rebuilt     *)
(* from that content all keep the file's url and key.                     *)
NoEncryptionDowngrade ==
  json.file # None =>
    /\ pc \in {"decoded", "extended", "rebuilt"} => source = Encrypted(json.file)
    /\ pc \in {"extended", "rebuilt"} =>
         ext.encryptionInfo # None /\ ext.url = json.file.url
         /\ ext.encryptionInfo.key = json.file.key
    /\ pc = "rebuilt" => rebuilt.kind = "file" /\ rebuilt.file.key = json.file.key

(* Converting a media source to extensible file content and back loses    *)
(* nothing: into_extensible_content and From<&FileContent> are inverse.  *)
ExtensibleRoundTrip ==
  pc = "rebuilt" => rebuilt = source

=============================================================================
