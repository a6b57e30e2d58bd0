------------------------------ MODULE VideoPlayer ------------------------------
(***************************************************************************)
(* The video player (src/media_blink/skypevideo_webmediaplayer.cc) and its *)
(* frame sink (frame_sink_client.cc) around the triple buffer.             *)
(*                                                                         *)
(* The compositor thread renders: it swaps buffers, maps the shared memory *)
(* the frame is in, wraps it in a video frame, and keeps the layer in step *)
(* with it.  The main thread creates the layer and is told what changes,   *)
(* by tasks.  A rendering that finds nothing new, and the sizes, positions *)
(* and counters that script is told of, change nothing the model keeps.    *)
(* Frames are in shared memory: texture handles are not modelled.          *)
(***************************************************************************)
EXTENDS TripleBuffer, Sequences, SequencesExt

CONSTANT
  AnyFormat   \* formats may change before there is a layer

Formats == {"opaque", "transparent"}

(* Buffer id 0 is no memory, and a frame's size may be empty.  Shared      *)
(* memory is zero at first.                                                *)
Frame == [number : Nat, buffer : Nat, format : Formats, empty : BOOLEAN]

ASSUME PlayerAssumption ==
  /\ Frames \subseteq Frame /\ NoFrame \in Frame
  /\ NoFrame.number = 0 /\ NoFrame.buffer = 0 /\ NoFrame.empty
  /\ AnyFormat \in BOOLEAN

VARIABLES
  buffers,      \* index -> buffer id of the memory mapped for it, 0 if none
  current,      \* current_frame_
  shown,        \* video_frame_: a frame and the index it wraps, or nothing
  render,       \* Render is "idle", or at: "check", "claim", "update", "change"
  layer,        \* video_layer_ is there
  opaque,       \* the layer's contents are opaque
  format,       \* transparent_: "transparent", "opaque", or "unset" at first
  pending,      \* create_video_layer_pending_
  tasks,        \* queued on the main thread
  main,         \* CreateVideoLayer is at: "assigned", "cleared", "change"; or "idle"
  creating,     \* the argument of that CreateVideoLayer, or "unset"
  received,     \* received_first_frame_
  ready         \* ready_state_ is kReadyStateHaveEnoughData

sinkVars == <<buffers, current, shown, received>>
layerVars == <<layer, opaque, format, pending, main, creating>>
playerVars == <<bufferVars, sinkVars, layerVars, render, tasks, ready>>

Nothing == [frame |-> NoFrame, index |-> 0]

CreateLayer(f) == [do |-> "CreateVideoLayer", format |-> f]
SetOpaque(f) == [do |-> "SetContentsOpaque", format |-> f]
FirstFrame == [do |-> "OnFirstFrameReceived", format |-> "unset"]

Queued(what) == {i \in 1 .. Len(tasks) : tasks[i].do = what}

(***************************************************************************)
(* The producer numbers its frames.  It may keep to one format until the   *)
(* player has its layer.                                                   *)
(***************************************************************************)
NextNumber == 1 + Max({frames[i].number : i \in Buffers})

HasLayer == layer /\ ~pending /\ main = "idle" /\ render # "claim"

Produce ==
  /\ \E frame \in Frames :
       /\ frame.number = NextNumber
       /\ AnyFormat \/ HasLayer \/ frame.format = "opaque"
       /\ FillFrame(frame)
  /\ UNCHANGED <<sinkVars, layerVars, render, tasks, ready>>

ProducerSwaps ==
  /\ SwapWrite
  /\ UNCHANGED <<sinkVars, layerVars, render, tasks, ready>>

(***************************************************************************)
(* The compositor thread.                                                  *)
(***************************************************************************)

(* Render begins with SwapRead of the frame sink, which begins with that   *)
(* of the triple buffer.                                                   *)
RenderSwaps ==
  /\ render = "idle" /\ SwapRead
  /\ UNCHANGED <<sinkVars, layerVars, render, tasks, ready>>

(* Mutation: memory that is mapped is not mapped again.                    *)
StaleIfUnmapped(index) == buffers[index] = 0 /\ frames[index].buffer # 0

(* The memory mapped for the index is not the frame's.                     *)
Stale(index) == buffers[index] # frames[index].buffer

(* SharedMemory::Open fails for memory that is there: SwapRead is false,   *)
(* so Render returns the frame it has, although the buffers are swapped.   *)
OpenFails ==
  /\ reader = "taken" /\ render = "idle"
  /\ LET index == Read(flags) IN
     /\ Stale(index) /\ frames[index].buffer # 0
     /\ buffers' = [buffers EXCEPT ![index] = 0]
  /\ reader' = "idle"
  /\ UNCHANGED <<flags, frames, writer, writerFlags, readerFlags, current, shown, received,
                 layerVars, render, tasks, ready>>

(* CreateVideoFrame, for a frame of a size: there may be none, and there   *)
(* is none without memory.                                                 *)
VideoFrames(frame, index, buffer) ==
  {Nothing} \cup IF buffer = 0 THEN {} ELSE {[frame |-> frame, index |-> index]}

(* The frame is taken: its memory is mapped, it becomes the current frame, *)
(* and the video frame unless its size is empty.                           *)
TakeFrame ==
  /\ reader = "taken" /\ render = "idle"
  /\ LET index == Read(flags)
         frame == frames[index]
         buffer == IF Stale(index) THEN frame.buffer ELSE buffers[index]
     IN
     /\ buffers' = [buffers EXCEPT ![index] = buffer]
     /\ current' = frame
     /\ shown' \in IF frame.empty THEN {shown} ELSE VideoFrames(frame, index, buffer)
  /\ received' = TRUE
  /\ tasks' = IF received THEN tasks ELSE Append(tasks, FirstFrame)
  /\ render' = "check"
  /\ UNCHANGED <<bufferVars, layerVars, ready>>

(* CheckAndInitVideoLayer looks for the layer, and asks for it.            *)
CheckLayer ==
  /\ render = "check"
  /\ render' = IF layer THEN "update" ELSE "claim"
  /\ UNCHANGED <<bufferVars, sinkVars, layerVars, tasks, ready>>

(* Mutation: the flag is set without a test.                               *)
ClaimAnyLayer ==
  /\ pending' = TRUE
  /\ tasks' = Append(tasks, CreateLayer(current.format))

(* Mutation: the test is inverted.                                         *)
ClaimClaimedLayer ==
  /\ pending' = TRUE
  /\ tasks' = IF pending THEN Append(tasks, CreateLayer(current.format)) ELSE tasks

(* test_and_set, and the task.                                             *)
ClaimLayer ==
  /\ pending' = TRUE
  /\ tasks' = IF pending THEN tasks ELSE Append(tasks, CreateLayer(current.format))

AskForLayer ==
  /\ render = "claim"
  /\ ClaimLayer
  /\ render' = "idle" /\ reader' = "idle"
  /\ UNCHANGED <<flags, frames, writer, writerFlags, readerFlags, sinkVars,
                 layer, opaque, format, main, creating, ready>>

(* UpdateTransparency on the compositor thread, whose test and assignment  *)
(* are two steps, as on the main thread; an empty frame then shows black.  *)
UpdateLayer ==
  /\ \/ render = "update" /\ format = current.format /\ UNCHANGED <<format, tasks>>
     \/ /\ render = "change"
        /\ format' = current.format
        /\ tasks' = Append(tasks, SetOpaque(current.format))
  /\ shown' = IF current.empty THEN Nothing ELSE shown
  /\ render' = "idle" /\ reader' = "idle"
  /\ UNCHANGED <<flags, frames, writer, writerFlags, readerFlags, buffers, current, received,
                 layer, opaque, pending, main, creating, ready>>

UpdateTransparency ==
  /\ render = "update" /\ format # current.format
  /\ render' = "change"
  /\ UNCHANGED <<bufferVars, sinkVars, layerVars, tasks, ready>>

(***************************************************************************)
(* The main thread.                                                        *)
(***************************************************************************)
(* Mutation: the flag is passed on as it is.                               *)
IsTransparent(f) == f = "transparent"

IsOpaque(f) == f = "opaque"

RunTask(what) ==
  /\ main = "idle" /\ tasks # <<>> /\ Head(tasks).do = what
  /\ tasks' = Tail(tasks)

(* CreateVideoLayer, as the compositor thread sees it: the layer is there, *)
(* the flag is cleared, and the transparency is that of the task.          *)
CreateVideoLayer ==
  /\ RunTask("CreateVideoLayer")
  /\ layer' = TRUE /\ opaque' = FALSE
  /\ main' = "assigned" /\ creating' = Head(tasks).format
  /\ UNCHANGED <<bufferVars, sinkVars, format, pending, render, ready>>

ClearPending ==
  /\ main = "assigned"
  /\ pending' = FALSE
  /\ main' = "cleared"
  /\ UNCHANGED <<bufferVars, sinkVars, layer, opaque, format, creating, render, tasks, ready>>

LayerCreated ==
  /\ \/ main = "cleared" /\ format = creating /\ UNCHANGED <<format, opaque>>
     \/ main = "change" /\ format' = creating /\ opaque' = IsOpaque(creating)
  /\ main' = "idle" /\ creating' = "unset"
  /\ UNCHANGED <<bufferVars, sinkVars, layer, pending, render, tasks, ready>>

InitTransparency ==
  /\ main = "cleared" /\ format # creating
  /\ main' = "change"
  /\ UNCHANGED <<bufferVars, sinkVars, layer, opaque, format, pending, creating,
                 render, tasks, ready>>

SetContentsOpaque ==
  /\ RunTask("SetContentsOpaque")
  /\ opaque' = IsOpaque(Head(tasks).format)
  /\ UNCHANGED <<bufferVars, sinkVars, layer, format, pending, main, creating, render, ready>>

OnFirstFrameReceived ==
  /\ RunTask("OnFirstFrameReceived")
  /\ ready' = TRUE
  /\ UNCHANGED <<bufferVars, sinkVars, layerVars, render>>

(***************************************************************************)
(* The system.                                                             *)
(***************************************************************************)
PlayerInit ==
  /\ BufferInit
  /\ buffers = [i \in Buffers |-> 0]
  /\ current = NoFrame /\ shown = Nothing /\ received = FALSE
  /\ layer = FALSE /\ opaque = FALSE /\ format = "unset"
  /\ pending = FALSE /\ main = "idle" /\ creating = "unset"
  /\ render = "idle" /\ tasks = <<>> /\ ready = FALSE

Render ==
  \/ RenderSwaps \/ TakeFrame \/ CheckLayer \/ AskForLayer
  \/ UpdateTransparency \/ UpdateLayer

Main ==
  \/ CreateVideoLayer \/ ClearPending \/ InitTransparency \/ LayerCreated
  \/ SetContentsOpaque \/ OnFirstFrameReceived

PlayerNext == Produce \/ ProducerSwaps \/ Render \/ OpenFails \/ Main

PlayerSpec == PlayerInit /\ [][PlayerNext]_playerVars

(* Rendering goes on and the main thread gets to its tasks.  Memory need   *)
(* never fail to open, and the producer need not produce.                  *)
PlayerLiveSpec ==
  PlayerSpec /\ WF_playerVars(Render) /\ WF_playerVars(Main)

(***************************************************************************)
(* Properties.                                                             *)
(***************************************************************************)
Shown == {[frame |-> f, index |-> i] : f \in Frames, i \in Buffers}

(* The variables have their types; the main thread is behind by at most    *)
(* one layer, one first frame and a change of format for each frame.       *)
PlayerTypeOK ==
  /\ BufferTypeOK /\ RolesAreApart
  /\ buffers \in [Buffers -> {0} \cup {frame.buffer : frame \in Frames}]
  /\ current \in Frames \cup {NoFrame} /\ shown \in Shown \cup {Nothing}
  /\ render \in {"idle", "check", "claim", "update", "change"}
  /\ format \in Formats \cup {"unset"} /\ creating \in Formats \cup {"unset"}
  /\ main \in {"idle", "assigned", "cleared", "change"}
  /\ \A i \in 1 .. Len(tasks) :
       \/ tasks[i] = FirstFrame
       \/ \E f \in Formats : tasks[i] \in {CreateLayer(f), SetOpaque(f)}
  /\ Len(tasks) <= 2 + current.number
  /\ {layer, opaque, pending, received, ready} \subseteq BOOLEAN

(* While Render works on a frame, the memory mapped for it is its own,     *)
(* although producers replace the memory of an index, and opening fails.   *)
MemoryIsTheFrames ==
  render # "idle" =>
    current = frames[Read(flags)] /\ buffers[Read(flags)] = current.buffer

(* What is on the screen is a frame that the player holds, so the producer *)
(* does not write into it, unless the frame read since is empty or could   *)
(* not be opened.                                                          *)
ShownFrameIsHeld ==
  shown # Nothing /\ reader # "taken" =>
    LET held == Read(flags) IN
    \/ shown.index = held /\ shown.frame = frames[held]
    \/ frames[held].empty \/ buffers[held] = 0

(* A frame older than one that was shown is not shown any more.            *)
FramesNeverGoBack ==
  [][shown # Nothing /\ shown' # Nothing =>
       shown'.frame.number >= shown.frame.number]_shown

(* At most one creation of a layer is under way, and the flag says so.     *)
OneCreationAtATime ==
  /\ Cardinality(Queued("CreateVideoLayer")) + (IF main = "assigned" THEN 1 ELSE 0) <= 1
  /\ pending <=> Queued("CreateVideoLayer") # {} \/ main = "assigned"

Settled ==
  /\ main = "idle" /\ render = "idle"
  /\ Queued("CreateVideoLayer") \cup Queued("SetContentsOpaque") = {}

(* When both threads have settled, the layer is not taken for opaque while *)
(* it shows transparent frames.                                            *)
OpaqueOnlyIfOpaque ==
  Settled /\ opaque => current.format = "opaque"

(* A player that got a frame gets a layer, and script hears that it is     *)
(* ready.                                                                  *)
FramesGetALayer ==
  received ~> layer /\ ready
==============================================================================
