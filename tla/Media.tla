------------------------------- MODULE Media -------------------------------
(***************************************************************************)
(* One use of a media reference through MediaResolver                      *)
(* (media/media_utils.py): the reference becomes a local file, audio is    *)
(* converted, and the files made on the way are removed or handed over,    *)
(* whatever fails and wherever the caller is cancelled.                    *)
(*                                                                         *)
(* A file is what its data are: a format, or Junk, such as the page of an  *)
(* HTTP error.  Its suffix is a format too; for images both stand for the  *)
(* formats of images.  A reference that is a path, a file URI or           *)
(* undecodable text is "path"; whether that file exists is in its data.    *)
(* The functions that no resolver uses (video, covers, JPEG, compression)  *)
(* are left out.                                                           *)
(***************************************************************************)
CONSTANTS
  Formats,  \* formats of audio data and suffixes
  Junk,     \* data and suffixes of no audio format
  NoFile,   \* data of a file that does not exist
  NoFormat  \* target_format is None

ASSUME MediaAssumption ==
  /\ {"wav", "mp3", "silk"} \subseteq Formats
  /\ "tencent_silk" \notin Formats
  /\ {Junk, NoFile, NoFormat} \cap (Formats \cup {"tencent_silk"}) = {}
  /\ Junk # NoFile /\ Junk # NoFormat /\ NoFile # NoFormat

VARIABLES
  ask,      \* the reference and what is asked of the resolver
  hook,     \* an AudioCodecHook is registered
  disk,     \* data of the files
  cleanup,  \* cleanup_paths
  path,     \* the file resolved to, so far
  format,   \* the format it is said to have
  at,       \* the await or the step the call is at, "inhand" or "over"
  end,      \* how the call ended
  stuck     \* temporary files that could not be removed

mediaVars == <<ask, hook, disk, cleanup, path, format, at, end, stuck>>

\* The source, what it is converted to, and the output for Tencent.
Files == {"source", "converted", "silk"}
Data == Formats \cup {Junk}
Temporary == Files \ (IF ask.ref = "path" THEN {"source"} ELSE {})
Awaits == {"download", "decode", "ffmpeg", "encode"}

Asks ==
  [ref: {"path", "http", "data", "base64"},   \* base64:// or bare
   media: {"audio", "image"},
   data: Data \cup {NoFile},  \* what the reference stands for
   suffix: Data,              \* its own or the default
   target: Formats \cup {"tencent_silk", NoFormat},
   preserve: BOOLEAN,
   use: {"as_path", "to_path", "to_bytes", "to_base64_data"},
   strict: BOOLEAN]

\* DEFAULT_MEDIA_SUFFIXES: audio without a suffix is taken for WAV.
Default(media) == IF media = "audio" THEN "wav" ELSE Junk

MediaInit ==
  /\ ask \in {a \in Asks :
       /\ a.data = NoFile => a.ref = "path"
       /\ a.ref = "base64" => a.suffix = Default(a.media)
       /\ a.media = "image" => a.target = NoFormat /\ ~a.preserve}
  /\ hook \in BOOLEAN
  /\ disk = [f \in Files |-> IF ask.ref = "path" /\ f = "source" THEN ask.data ELSE NoFile]
  /\ cleanup = {}
  /\ path = "source"
  /\ format = NoFormat
  /\ at = "materialize"
  /\ end = "none"
  /\ stuck = {}

-----------------------------------------------------------------------------

\* _cleanup_paths, after which the files written meanwhile are as in d: a file
\* that cannot be removed is logged and stays.
Cleanup(S, d) ==
  \E left \in SUBSET {f \in S : d[f] # NoFile} :
    /\ disk' = [f \in Files |-> IF f \in S \ left THEN NoFile ELSE d[f]]
    /\ stuck' = stuck \cup left

Over(how) == at' = "over" /\ end' = how

\* An exception leaves the resolver, the files of S are removed.
Fails(S, d) ==
  /\ Cleanup(S, d)
  /\ Over("raised")
  /\ UNCHANGED <<ask, hook, cleanup, path, format>>

\* _resolve_path is done.
Resolved(f, as) ==
  /\ path' = f
  /\ format' = as
  /\ at' = "inhand"
  /\ UNCHANGED <<ask, hook, end>>

-----------------------------------------------------------------------------
(* _materialize_media_ref                                                  *)

Goto(step) ==
  /\ at' = step
  /\ UNCHANGED <<ask, hook, disk, cleanup, path, format, end, stuck>>

IsFile ==
  /\ at = "materialize"
  /\ ask.ref = "path"
  /\ Goto("convert")

StartDownload ==
  /\ at = "materialize"
  /\ ask.ref = "http"
  /\ Goto("download")

\* The source is written to a temporary file.
Written(data) ==
  /\ disk' = [disk EXCEPT !["source"] = data]
  /\ cleanup' = {"source"}
  /\ at' = "convert"
  /\ UNCHANGED <<ask, hook, path, format, end, stuck>>

Decoded ==
  /\ at = "materialize"
  /\ ask.ref \in {"data", "base64"}
  /\ Written(ask.data)

\* The payload is no base64, or writing it fails.
NotDecoded ==
  /\ at = "materialize"
  /\ ask.ref \in {"data", "base64"}
  /\ \E data \in {NoFile, Junk} : Fails({"source"}, [disk EXCEPT !["source"] = data])

\* download_file: the body of an error is taken like another.
Downloaded ==
  /\ at = "download"
  /\ \E data \in {ask.data, Junk} : Written(data)

DownloadFails ==
  /\ at = "download"
  /\ \E data \in {NoFile, Junk} : Fails({"source"}, [disk EXCEPT !["source"] = data])

-----------------------------------------------------------------------------
(* The conversion of _resolve_path.                                        *)

AudioFormat ==
  IF ask.target # NoFormat THEN ask.target
  ELSE IF ask.preserve /\ ask.suffix = "mp3" THEN "mp3" ELSE "wav"

Audio(step) == at = step /\ ask.media = "audio"
ToWav == AudioFormat \in {"wav", "tencent_silk"}

NoAudio ==
  /\ at = "convert"
  /\ ask.media # "audio"
  /\ Resolved("source", ask.suffix)
  /\ UNCHANGED <<disk, cleanup, stuck>>

\* ensure_wav and convert_audio_to_wav leave the source as it is: it is not
\* there, is WAV, cannot be decoded, or has the suffix of WAV.
WavAlready ==
  \/ disk["source"] \in {NoFile, "wav"}
  \/ disk["source"] = "silk" /\ ~hook
  \/ disk["source"] # "silk" /\ ask.suffix = "wav"

\* The WAV file is f; Tencent's format is encoded from it.
HasWav(f, d) ==
  IF AudioFormat = "wav"
  THEN /\ Resolved(f, "wav")
       /\ cleanup' = cleanup \cup ({f} \ {"source"})
       /\ disk' = d
       /\ UNCHANGED stuck
  ELSE IF hook
  THEN /\ path' = f
       /\ disk' = d
       /\ at' = "encode"
       /\ UNCHANGED <<ask, hook, cleanup, format, end, stuck>>
  ELSE Fails(cleanup \cup ({f} \ {"source"}), d)

KeepWav ==
  /\ Audio("convert")
  /\ ToWav
  /\ WavAlready
  /\ HasWav("source", disk)

StartDecode ==
  /\ Audio("convert")
  /\ ToWav
  /\ ~WavAlready
  /\ disk["source"] = "silk"
  /\ Goto("decode")

\* decode_silk of the hook.
DecodeEnds ==
  /\ at = "decode"
  /\ HasWav("converted", [disk EXCEPT !["converted"] = "wav"])

\* What the hook had begun to write is the hook's to remove; what it leaves
\* counts as a file that could not be removed.
DecodeFails ==
  /\ at = "decode"
  /\ \E data \in {NoFile, Junk} : Fails(cleanup \cup {"converted"}, [disk EXCEPT !["converted"] = data])

KeepFormat ==
  /\ Audio("convert")
  /\ ~ToWav
  /\ ask.suffix = AudioFormat
  /\ Resolved("source", AudioFormat)
  /\ UNCHANGED <<disk, cleanup, stuck>>

StartFfmpeg ==
  /\ Audio("convert")
  /\ IF ToWav THEN ~WavAlready /\ disk["source"] # "silk" ELSE ask.suffix # AudioFormat
  /\ Goto("ffmpeg")

FfmpegEnds ==
  /\ at = "ffmpeg"
  /\ disk["source"] # NoFile
  /\ IF ToWav THEN HasWav("converted", [disk EXCEPT !["converted"] = "wav"])
     ELSE /\ Resolved("converted", AudioFormat)
          /\ disk' = [disk EXCEPT !["converted"] = AudioFormat]
          /\ cleanup' = cleanup \cup {"converted"}
          /\ UNCHANGED stuck

\* Mutant: the output of a failed run is not removed.
FfmpegFailsUntidily ==
  /\ at = "ffmpeg"
  /\ \E data \in {NoFile, Junk} : Fails(cleanup, [disk EXCEPT !["converted"] = data])

\* ffmpeg is missing or fails; what it has written is removed.
FfmpegFails ==
  /\ at = "ffmpeg"
  /\ \E data \in {NoFile, Junk} : Fails(cleanup \cup {"converted"}, [disk EXCEPT !["converted"] = data])

\* encode_silk raises or returns no duration.
EncodeFails ==
  /\ at = "encode"
  /\ \E data \in {NoFile, Junk} :
       Fails(cleanup \cup ({path} \ {"source"}) \cup {"silk"}, [disk EXCEPT !["silk"] = data])

\* Mutant: the output is removed with what it was made from.
EncodeEndsAllClean ==
  /\ at = "encode"
  /\ disk[path] # NoFile
  /\ Cleanup(cleanup \cup ({path} \ {"source"}) \cup {"silk"}, [disk EXCEPT !["silk"] = "silk"])
  /\ cleanup' = {"silk"}
  /\ Resolved("silk", "tencent_silk")

\* Of the temporary files only the output is left.
EncodeEnds ==
  /\ at = "encode"
  /\ disk[path] # NoFile
  /\ Cleanup(cleanup \cup ({path} \ {"source"}), [disk EXCEPT !["silk"] = "silk"])
  /\ cleanup' = {"silk"}
  /\ Resolved("silk", "tencent_silk")

\* What is being written.
Begun ==
  IF at = "download" THEN "source" ELSE IF at = "encode" THEN "silk" ELSE "converted"

\* The caller is cancelled while it resolves: `except Exception' does not see
\* that, and files that were begun stay.
Cancel ==
  /\ at \in Awaits
  /\ \E data \in {NoFile, Junk} : disk' = [disk EXCEPT ![Begun] = data]
  /\ Over("cancelled")
  /\ UNCHANGED <<ask, hook, cleanup, path, format, stuck>>

-----------------------------------------------------------------------------
(* What the resolved file is used for.                                     *)

\* as_path: its `finally' cleans up however it is left.
Released(how) ==
  /\ Cleanup(cleanup, disk)
  /\ Over(how)
  /\ UNCHANGED <<ask, hook, cleanup, path, format>>

\* as_path, open: the body ends, raises or is cancelled.
Leave ==
  /\ at = "inhand"
  /\ ask.use = "as_path"
  /\ \E how \in {"left", "raised"} : Released(how)

\* to_path: the temporary files are detached and belong to the caller.
Detach ==
  /\ at = "inhand"
  /\ ask.use = "to_path"
  /\ cleanup' = {}
  /\ Over("path")
  /\ UNCHANGED <<ask, hook, disk, path, format, stuck>>

\* to_bytes, to_base64
Read ==
  /\ at = "inhand"
  /\ ask.use = "to_bytes"
  /\ Released(IF disk[path] = NoFile THEN "raised" ELSE "bytes")

\* Neither the data nor the suffix tell an image; base64 is taken for JPEG.
NoImage ==
  ask.media = "image" /\ disk[path] = Junk /\ ask.suffix = Junk /\ ask.ref # "base64"

\* to_base64_data, to_data_url: what cannot be read, or is no image, is
\* nothing unless the caller is strict.
Encode ==
  LET unusable == disk[path] = NoFile \/ NoImage IN
  /\ at = "inhand"
  /\ ask.use = "to_base64_data"
  /\ Released(IF ~unusable THEN "bytes" ELSE IF ask.strict THEN "raised" ELSE "nothing")

-----------------------------------------------------------------------------

Materialize == IsFile \/ StartDownload \/ Decoded \/ NotDecoded \/ Downloaded \/ DownloadFails

Convert ==
  \/ NoAudio \/ KeepWav \/ KeepFormat
  \/ StartDecode \/ DecodeEnds \/ DecodeFails
  \/ StartFfmpeg \/ FfmpegEnds \/ FfmpegFails
  \/ EncodeEnds \/ EncodeFails

Use == Leave \/ Detach \/ Read \/ Encode

MediaNext == Materialize \/ Convert \/ Cancel \/ Use

MediaSpec == MediaInit /\ [][MediaNext]_mediaVars

-----------------------------------------------------------------------------

MediaTypeOK ==
  /\ ask \in Asks
  /\ hook \in BOOLEAN
  /\ disk \in [Files -> Data \cup {NoFile}]
  /\ cleanup \in SUBSET Temporary
  /\ path \in Files
  /\ format \in Data \cup {"tencent_silk", NoFormat}
  /\ at \in {"materialize", "convert", "inhand", "over"} \cup Awaits
  /\ end \in {"none", "left", "path", "bytes", "nothing", "raised", "cancelled"}
  /\ stuck \in SUBSET Temporary

\* The temporary files to_path hands over: the one it returns, and the source
\* that it was converted from, of which the caller does not learn.
HandedOver ==
  IF end # "path" THEN {}
  ELSE IF format = "tencent_silk" THEN {"silk"} ELSE {"source", path}

(***************************************************************************)
(* media_utils.py:532, "Temporary paths are cleaned when using as_path()": *)
(* whatever failed on the way, once the call is over the temporary files   *)
(* it made are gone, but for those that could not be removed, those of     *)
(* to_path, and those of a call cancelled while it resolved.  The caller's *)
(* own file is never removed or written.                                   *)
(***************************************************************************)
NothingLeft ==
  /\ MediaTypeOK
  /\ at = "over" /\ end # "cancelled" =>
       {f \in Temporary : disk[f] # NoFile} \subseteq stuck \cup HandedOver
  /\ ask.ref = "path" => disk["source"] = ask.data

(***************************************************************************)
(* media_utils.py:563: while the caller has it, and after to_path, the     *)
(* file is there, unless the reference was a path to nothing; what was     *)
(* converted has the format it is said to have, and so has WAV, unless the *)
(* source was taken for it by its suffix, or is silk that nothing decodes. *)
(***************************************************************************)
AsPromised ==
  at = "inhand" \/ end = "path" =>
    /\ disk[path] = NoFile => path = "source" /\ ask.ref = "path"
    /\ path # "source" => disk[path] = IF format = "tencent_silk" THEN "silk" ELSE format
    /\ ask.media = "audio" /\ format = "wav" =>
         \/ disk[path] \in {"wav", NoFile}
         \/ path = "source" /\ (ask.suffix = "wav" \/ (disk[path] = "silk" /\ ~hook))
=============================================================================
