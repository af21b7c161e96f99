---------------------------- MODULE RoomMediaTypes ----------------------------
(***************************************************************************)
(* The media types of ruma-common/src/events/room.rs and their pure       *)
(* conversions: MediaSource, its JSON representation, EncryptedFile and   *)
(* the extensible-event file contents (MSC3551, MSC3552).                 *)
(*                                                                         *)
(* A URI, a key, an IV and a hash map are model values: the conversions    *)
(* only move them between structures. Option::None is the model value      *)
(* None. The fields of EncryptedContent are those room.rs destructures:    *)
(* key, iv, hashes, v.                                                     *)
(***************************************************************************)

CONSTANTS
  Urls,       \* OwnedMxcUri values
  JwKeys,     \* JsonWebKey values
  Ivs,        \* Base64 initialisation vectors
  Hashes,     \* BTreeMap<String, Base64> values
  Versions,   \* the `v` strings of the encrypted attachments protocol
  None        \* Option::None

EncryptedFiles == [url : Urls, key : JwKeys, iv : Ivs, hashes : Hashes, v : Versions]

(* The enum MediaSource: Plain(url) or Encrypted(file). *)
Plain(u)     == [kind |-> "url", url |-> u]
Encrypted(f) == [kind |-> "file", file |-> f]
MediaSources == {Plain(u) : u \in Urls} \cup {Encrypted(f) : f \in EncryptedFiles}

(* MediaSourceJsonRepr: the `url` and `file` members of the JSON object,   *)
(* each optional. A sender may set both.                                   *)
JsonReprs == [url : Urls \cup {None}, file : EncryptedFiles \cup {None}]

(* EncryptedContent and the FileContent of an extensible event. *)
EncryptedContents == [key : JwKeys, iv : Ivs, hashes : Hashes, v : Versions]
FileContents == [url : Urls, encryptionInfo : EncryptedContents \cup {None}]

Error == [kind |-> "missing_field_url"]  \* de::Error::missing_field("url")

-----------------------------------------------------------------------------
(* Variants of the deserializer: one lets the url win when both members *)
(* are present, the other falls back to the url without the missing-field *)
(* error.                                                                  *)
DeserializePreferUrl(j) ==
  IF j.url = None /\ j.file = None THEN Error
  ELSE IF j.url # None THEN Plain(j.url)
  ELSE Encrypted(j.file)

DeserializeNoMissingField(j) ==
  IF j.file # None THEN Encrypted(j.file) ELSE Plain(j.url)

(* <MediaSource as Deserialize>::deserialize: an error when neither member *)
(* is present; otherwise the file wins over the url.                       *)
DeserializeMedia(j) ==
  IF j.url = None /\ j.file = None THEN Error
  ELSE IF j.file # None THEN Encrypted(j.file)
  ELSE Plain(j.url)

(* MediaSource::into_extensible_content: the url, and the encryption info *)
(* of an encrypted file.                                                   *)
IntoExtensibleContent(s) ==
  IF s.kind = "url" THEN [url |-> s.url, encryptionInfo |-> None]
  ELSE [url |-> s.file.url,
        encryptionInfo |-> [key |-> s.file.key, iv |-> s.file.iv,
                            hashes |-> s.file.hashes, v |-> s.file.v]]

(* Variant that fills in the current protocol version instead of copying v. *)
EncryptedFileDefaultVersion(u, info) ==
  [url |-> u, key |-> info.key, iv |-> info.iv, hashes |-> info.hashes, v |-> "v2"]

(* EncryptedFile::from_extensible_content. *)
EncryptedFileFromExtensible(u, info) ==
  [url |-> u, key |-> info.key, iv |-> info.iv, hashes |-> info.hashes, v |-> info.v]

(* <MediaSource as From<&FileContent>>::from. *)
FromFileContent(c) ==
  IF c.encryptionInfo # None
  THEN Encrypted(EncryptedFileFromExtensible(c.url, c.encryptionInfo))
  ELSE Plain(c.url)

=============================================================================
