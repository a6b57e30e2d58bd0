----------------------------- MODULE TripleBuffer -----------------------------
(***************************************************************************)
(* The triple buffer (src/media_blink/triple_buffer.cc): three frames in   *)
(* shared memory, and one atomic word that says which of them the producer *)
(* writes, which the player reads, and which is between the two, with a    *)
(* flag for one that was not read.  Both sides change the word by compare  *)
(* and exchange; the producer, another process, uses the same operations.  *)
(*                                                                         *)
(* A load and an exchange are a step each.  The weak exchange may also     *)
(* fail where it could succeed, which changes nothing.  What one side does *)
(* with its own frame is one step: that the other side keeps away from it  *)
(* is what LatestFrame says.                                               *)
(***************************************************************************)
EXTENDS Integers

CONSTANTS
  Frames,   \* what the producer may write
  NoFrame   \* a frame not written yet

ASSUME FramesAssumption == NoFrame \notin Frames

VARIABLES
  flags,       \* the word
  frames,      \* index -> what is in the buffer
  writer,      \* the producer: "fill", "filled", or in SwapWrite: "swap"
  writerFlags, \* flagsNow of SwapWrite, 0 outside of it
  reader,      \* the player: "idle", in SwapRead "swap", or "taken"
  readerFlags  \* flagsNow of SwapRead, 0 outside of it

bufferVars == <<flags, frames, writer, writerFlags, reader, readerFlags>>

(***************************************************************************)
(* The word: read, ready and write index, two bits each, and the flag.     *)
(***************************************************************************)
Buffers == 0 .. 2
Words == 0 .. 127

Read(word) == word % 4
Ready(word) == (word \div 4) % 4

(* Mutation: the mask includes the flag.                                   *)
WriteWithFlag(word) == (word \div 16) % 8

Write(word) == (word \div 16) % 4
IsNew(word) == (word \div 64) % 2 = 1

SwapReadWithReady(word) == 16 * Write(word) + 4 * Read(word) + Ready(word)

SetWriteAndSwapReadyWithWrite(word) ==
  64 + 16 * Ready(word) + 4 * Write(word) + Read(word)

(***************************************************************************)
(* The producer.                                                           *)
(***************************************************************************)
FillFrame(frame) ==
  /\ writer = "fill"
  /\ frames' = [frames EXCEPT ![Write(flags)] = frame]
  /\ writer' = "filled"
  /\ UNCHANGED <<flags, writerFlags, reader, readerFlags>>

SwapWriteLoad ==
  /\ writer = "filled"
  /\ writerFlags' = flags
  /\ writer' = "swap"
  /\ UNCHANGED <<flags, frames, reader, readerFlags>>

(* Mutation: a store in place of the exchange.                             *)
SwapWriteStore ==
  /\ writer = "swap"
  /\ flags' = SetWriteAndSwapReadyWithWrite(writerFlags)
  /\ writer' = "fill" /\ writerFlags' = 0
  /\ UNCHANGED <<frames, reader, readerFlags>>

SwapWriteExchange ==
  /\ writer = "swap"
  /\ \/ /\ flags = writerFlags
        /\ flags' = SetWriteAndSwapReadyWithWrite(writerFlags)
        /\ writer' = "fill" /\ writerFlags' = 0
     \/ /\ flags # writerFlags
        /\ writerFlags' = flags
        /\ UNCHANGED <<flags, writer>>
  /\ UNCHANGED <<frames, reader, readerFlags>>

SwapWrite == SwapWriteLoad \/ SwapWriteExchange

(***************************************************************************)
(* The player.                                                             *)
(***************************************************************************)

(* A read of the word that finds nothing new ends SwapRead.                *)
SwapReadLoad ==
  /\ reader = "idle" /\ IsNew(flags)
  /\ readerFlags' = flags
  /\ reader' = "swap"
  /\ UNCHANGED <<flags, frames, writer, writerFlags>>

SwapReadExchange ==
  /\ reader = "swap" /\ flags = readerFlags
  /\ flags' = SwapReadWithReady(readerFlags)
  /\ reader' = "taken" /\ readerFlags' = 0
  /\ UNCHANGED <<frames, writer, writerFlags>>

SwapReadRetry ==
  /\ reader = "swap" /\ flags # readerFlags
  /\ IF IsNew(flags) THEN reader' = "swap" /\ readerFlags' = flags
                     ELSE reader' = "idle" /\ readerFlags' = 0
  /\ UNCHANGED <<flags, frames, writer, writerFlags>>

SwapRead == SwapReadLoad \/ SwapReadExchange \/ SwapReadRetry

(* The player has used the frame it got.                                   *)
UseFrame ==
  /\ reader = "taken"
  /\ reader' = "idle"
  /\ UNCHANGED <<flags, frames, writer, writerFlags, readerFlags>>

(***************************************************************************)
(* The two together.                                                       *)
(***************************************************************************)

(* Create: Write = 0, Ready = 1 and Read = 2.                              *)
BufferInit ==
  /\ flags = 6
  /\ frames = [i \in Buffers |-> NoFrame]
  /\ writer = "fill" /\ writerFlags = 0
  /\ reader = "idle" /\ readerFlags = 0

BufferNext ==
  \/ \E frame \in Frames : FillFrame(frame)
  \/ SwapWrite \/ SwapRead \/ UseFrame

BufferSpec == BufferInit /\ [][BufferNext]_bufferVars

(***************************************************************************)
(* Properties.                                                             *)
(***************************************************************************)
BufferTypeOK ==
  /\ flags \in Words /\ writerFlags \in Words /\ readerFlags \in Words
  /\ frames \in [Buffers -> Frames \cup {NoFrame}]
  /\ writer \in {"fill", "filled", "swap"}
  /\ reader \in {"idle", "swap", "taken"}

(* Each index is one of the three buffers, and no two are the same.        *)
RolesAreApart ==
  {Read(flags), Ready(flags), Write(flags)} = Buffers

Inbox == IF IsNew(flags) THEN frames[Ready(flags)] ELSE NoFrame
Taken == frames[Read(flags)]

Latest == INSTANCE LatestFrame WITH inbox <- Inbox, taken <- Taken

(* Producer and player exchange frames as if by an inbox that holds the    *)
(* latest, whichever way their loads and exchanges interleave.             *)
LatestSpec == Latest!LatestSpec
==============================================================================
