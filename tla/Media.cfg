\* WAV, MP3, silk and one more format: with every reference, target and use.
\* A call that is over stays so: no deadlock check.
SPECIFICATION MediaSpec
CONSTANTS
  Formats = {"wav", "mp3", "silk", "amr"}
  Junk = junk
  NoFile = nofile
  NoFormat = noformat
INVARIANTS NothingLeft AsPromised
CHECK_DEADLOCK FALSE
