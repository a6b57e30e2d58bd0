---------------------------- MODULE MCVideoPlayer ----------------------------
(***************************************************************************)
(* Small constants for VideoPlayer: a few frames, each in one of two       *)
(* memories and of either format, or of no size with a memory or without.  *)
(***************************************************************************)
EXTENDS VideoPlayer

BlankFrame == [number |-> 0, buffer |-> 0, format |-> "opaque", empty |-> TRUE]

FourFrames ==
  [number : 1 .. 4, buffer : {1, 2}, format : Formats, empty : {FALSE}]
    \cup [number : 1 .. 4, buffer : {0, 1}, format : {"opaque"}, empty : {TRUE}]
=============================================================================
