---------------------------- MODULE RoomImageInfo ----------------------------
(***************************************************************************)
(* ImageInfo and ThumbnailInfo of ruma-common/src/events/room.rs: how the  *)
(* metadata of an image message is rebuilt from its extensible-event      *)
(* content (MSC3552): the file info, the image size and the list of       *)
(* thumbnails.                                                             *)
(*                                                                         *)
(* A MIME type, a byte size and a pixel dimension are model values. The    *)
(* state follows one extensible image message: its content (`fileInfo`,   *)
(* `image`, `thumbnails`) is turned into an ImageInfo (`imageInfo`), and   *)
(* the thumbnail source of that ImageInfo is turned back into extensible   *)
(* content (`ext`), as a client re-sending the image does.                 *)
(***************************************************************************)
EXTENDS RoomMediaTypes, SequencesExt

CONSTANTS
  Mimes,          \* MIME type strings
  Sizes,          \* UInt byte sizes
  Dims,           \* UInt pixel dimensions
  MaxThumbnails   \* the longest thumbnail list a message carries

(* FileContentInfo and ThumbnailFileContentInfo: an optional MIME type and *)
(* an optional size.                                                       *)
FileContentInfos == [mimetype : Mimes \cup {None}, size : Sizes \cup {None}]
NoFileInfo == [mimetype |-> None, size |-> None]

(* ImageContent: an optional height and width. *)
ImageContents == [height : Dims \cup {None}, width : Dims \cup {None}]
NoImage == [height |-> None, width |-> None]

(* ThumbnailFileContent and ThumbnailContent of an extensible event. *)
ThumbnailFileContents ==
  [url : Urls, encryptionInfo : EncryptedContents \cup {None},
   info : FileContentInfos \cup {None}]
ThumbnailContents ==
  [file : ThumbnailFileContents, image : ImageContents \cup {None}]

VARIABLES pc, fileInfo, image, thumbnails, imageInfo, ext

vars == <<pc, fileInfo, image, thumbnails, imageInfo, ext>>

-----------------------------------------------------------------------------
(* ImageContent::is_empty: neither dimension is set. *)
ImageIsEmpty(i) == i.height = None /\ i.width = None

(* Variant that forgets the thumbnail's encryption info. *)
ThumbnailSourcePlain(c) == Plain(c.url)

(* <MediaSource as From<&ThumbnailFileContent>>::from. *)
FromThumbnailFileContent(c) ==
  IF c.encryptionInfo # None
  THEN Encrypted(EncryptedFileFromExtensible(c.url, c.encryptionInfo))
  ELSE Plain(c.url)

(* ThumbnailInfo::from_extensible_content: None when there is neither file *)
(* info nor image size; a missing one contributes its defaults.            *)
ThumbnailInfoFromExtensible(fi, img) ==
  IF fi = None /\ img = None THEN None
  ELSE LET f == IF fi = None THEN NoFileInfo ELSE fi
           m == IF img = None THEN NoImage ELSE img
       IN  [height |-> m.height, width |-> m.width,
            mimetype |-> f.mimetype, size |-> f.size]

(* ImageInfo::from_extensible_content: None when the content carries no   *)
(* file info, an empty image and no thumbnail; otherwise the size and     *)
(* MIME type of the file info, the image's dimensions and the source and  *)
(* info of the first thumbnail (thumbnail.get(0)).                         *)
ImageInfoFromExtensible(fi, img, thumbs) ==
  IF fi = None /\ ImageIsEmpty(img) /\ thumbs = <<>> THEN None
  ELSE LET f == IF fi = None THEN NoFileInfo ELSE fi
       IN  [height |-> img.height, width |-> img.width,
            mimetype |-> f.mimetype, size |-> f.size,
            thumbnailSource |->
              IF thumbs = <<>> THEN None ELSE FromThumbnailFileContent(Head(thumbs).file),
            thumbnailInfo |->
              IF thumbs = <<>> THEN None
              ELSE ThumbnailInfoFromExtensible(Head(thumbs).file.info, Head(thumbs).image)]

-----------------------------------------------------------------------------
Init ==
  /\ pc = "received"
  /\ fileInfo \in FileContentInfos \cup {None}
  /\ image \in ImageContents
  /\ thumbnails \in BoundedSeq(ThumbnailContents, MaxThumbnails)
  /\ imageInfo = None /\ ext = None

(* The client builds the ImageInfo of the message. *)
FromExtensible ==
  /\ pc = "received"
  /\ imageInfo' = ImageInfoFromExtensible(fileInfo, image, thumbnails)
  /\ pc' = "built"
  /\ UNCHANGED <<fileInfo, image, thumbnails, ext>>

(* The client turns the thumbnail source back into extensible content. *)
ThumbnailToExtensible ==
  /\ pc = "built"
  /\ imageInfo # None /\ imageInfo.thumbnailSource # None
  /\ ext' = IntoExtensibleContent(imageInfo.thumbnailSource)
  /\ pc' = "extended"
  /\ UNCHANGED <<fileInfo, image, thumbnails, imageInfo>>

Next == FromExtensible \/ ThumbnailToExtensible

Spec == Init /\ [][Next]_vars

-----------------------------------------------------------------------------
(* A thumbnail that is encrypted stays encrypted: the thumbnail source of  *)
(* the ImageInfo, turned back into extensible content, carries the first  *)
(* thumbnail's url and its encryption info (key, iv, hashes and v).       *)
ThumbnailRoundTrip ==
  pc = "extended" =>
    ext = [url |-> Head(thumbnails).file.url,
           encryptionInfo |-> Head(thumbnails).file.encryptionInfo]

=============================================================================
