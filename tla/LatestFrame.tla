----------------------------- MODULE LatestFrame -----------------------------
(***************************************************************************)
(* What the producer of a video stream and its player are promised: an     *)
(* inbox for one frame.  A frame that is published replaces one that was   *)
(* not taken; the player takes each frame at most once, and what it has    *)
(* taken stays as it is until it takes another.                            *)
(***************************************************************************)
CONSTANTS Frames, NoFrame

VARIABLES
  inbox,  \* the frame published last, or NoFrame once it is taken
  taken   \* the frame the player has

latestVars == <<inbox, taken>>

LatestInit == inbox = NoFrame /\ taken = NoFrame

Publish ==
  /\ inbox' \in Frames
  /\ UNCHANGED taken

Take ==
  /\ inbox # NoFrame
  /\ taken' = inbox
  /\ inbox' = NoFrame

LatestNext == Publish \/ Take

LatestSpec == LatestInit /\ [][LatestNext]_latestVars
==============================================================================
