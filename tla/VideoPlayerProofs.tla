--------------------------- MODULE VideoPlayerProofs ---------------------------
(***************************************************************************)
(* The triple buffer implements an inbox for the latest frame, whatever    *)
(* frames the producer writes and however the two sides interleave.  The   *)
(* video player uses the triple buffer as TripleBuffer has it: what it     *)
(* shows is what it holds, it does not go back to an older frame, and its  *)
(* layer is asked for once and as the frames are.                          *)
(***************************************************************************)
EXTENDS VideoPlayer, SequenceTheorems, FiniteSetTheorems, TLAPS

(***************************************************************************)
(* The triple buffer: its word.                                            *)
(***************************************************************************)

(* The flag, the write, the ready and the read index come out of a word as *)
(* they are put together in it.                                            *)
LEMMA WordParts ==
  ASSUME NEW new \in 0 .. 1, NEW w \in 0 .. 3, NEW r \in 0 .. 3, NEW y \in 0 .. 3,
         NEW word, word = 64 * new + 16 * w + 4 * r + y
  PROVE  /\ word \in Words
         /\ Read(word) = y /\ Ready(word) = r /\ Write(word) = w
         /\ IsNew(word) <=> new = 1
<1>1. word \in Words
  BY DEF Words
<1>2. word % 4 = y /\ word \div 4 = 16 * new + 4 * w + r
  OBVIOUS
<1>3. (word \div 4) % 4 = r
  BY <1>2
<1>4. word \div 16 = 4 * new + w /\ word \div 64 = new
  OBVIOUS
<1>5. (4 * new + w) % 4 = w /\ new % 2 = new
  OBVIOUS
<1>6. QED
  BY <1>1, <1>2, <1>3, <1>4, <1>5 DEF Read, Ready, Write, IsNew

(* The parts of a word are small, and it is their sum.                     *)
LEMMA PartsOfWord ==
  ASSUME NEW word \in Words
  PROVE  /\ Read(word) \in 0 .. 3 /\ Ready(word) \in 0 .. 3 /\ Write(word) \in 0 .. 3
         /\ Words \subseteq Nat
BY DEF Words, Read, Ready, Write

(* SwapReadWithReady: read and ready change places, and nothing is new.    *)
LEMMA SwapReadParts ==
  ASSUME NEW word \in Words, NEW swapped, swapped = SwapReadWithReady(word)
  PROVE  /\ swapped \in Words
         /\ Read(swapped) = Ready(word) /\ Ready(swapped) = Read(word)
         /\ Write(swapped) = Write(word) /\ ~IsNew(swapped)
<1>1. swapped = 64 * 0 + 16 * Write(word) + 4 * Read(word) + Ready(word)
  BY PartsOfWord DEF SwapReadWithReady
<1>2. QED
  BY <1>1, PartsOfWord, WordParts

(* SetWriteAndSwapReadyWithWrite: ready and write change places, and what  *)
(* is ready is new.                                                        *)
LEMMA SwapWriteParts ==
  ASSUME NEW word \in Words, NEW swapped,
         swapped = SetWriteAndSwapReadyWithWrite(word)
  PROVE  /\ swapped \in Words
         /\ Ready(swapped) = Write(word) /\ Write(swapped) = Ready(word)
         /\ Read(swapped) = Read(word) /\ IsNew(swapped)
<1>1. swapped = 64 * 1 + 16 * Ready(word) + 4 * Write(word) + Read(word)
  BY PartsOfWord DEF SetWriteAndSwapReadyWithWrite
<1>2. QED
  BY <1>1, PartsOfWord, WordParts

(***************************************************************************)
(* The triple buffer: the invariant.                                       *)
(***************************************************************************)

(* What is ready and new was written, and so is what the producer is about *)
(* to make ready.                                                          *)
PublishedIsWritten ==
  /\ IsNew(flags) => frames[Ready(flags)] \in Frames
  /\ writer # "fill" => frames[Write(flags)] \in Frames
  /\ reader = "swap" => IsNew(readerFlags)

BufferInv == BufferTypeOK /\ RolesAreApart /\ PublishedIsWritten

(* The three roles are three buffers, so no two are the same.              *)
LEMMA RolesDiffer ==
  ASSUME BufferTypeOK, RolesAreApart
  PROVE  /\ Read(flags) \in Buffers /\ Ready(flags) \in Buffers /\ Write(flags) \in Buffers
         /\ Read(flags) # Ready(flags) /\ Read(flags) # Write(flags)
         /\ Ready(flags) # Write(flags)
<1>1. {0, 1, 2} = {Read(flags), Ready(flags), Write(flags)}
  BY DEF RolesAreApart, Buffers
<1>2. QED
  BY <1>1 DEF Buffers

LEMMA BufferInitInv == BufferInit => BufferInv
<1> SUFFICES ASSUME BufferInit PROVE BufferInv
  OBVIOUS
<1>1. flags = 64 * 0 + 16 * 0 + 4 * 1 + 2
  BY DEF BufferInit
<1>2. Read(flags) = 2 /\ Ready(flags) = 1 /\ Write(flags) = 0 /\ ~IsNew(flags)
  BY <1>1, WordParts
<1>3. BufferTypeOK
  BY DEF BufferInit, BufferTypeOK, Words
<1>4. RolesAreApart
  BY <1>2 DEF RolesAreApart, Buffers
<1>5. PublishedIsWritten
  BY <1>2 DEF PublishedIsWritten, BufferInit
<1>6. QED
  BY <1>3, <1>4, <1>5 DEF BufferInv

LEMMA BufferStepInv == BufferInv /\ [BufferNext]_bufferVars => BufferInv'
<1> SUFFICES ASSUME BufferInv, [BufferNext]_bufferVars PROVE BufferInv'
  OBVIOUS
<1> USE DEF BufferInv
<1>1. ASSUME NEW frame \in Frames, FillFrame(frame) PROVE BufferInv'
  <2>1. BufferTypeOK'
    BY <1>1, RolesDiffer DEF FillFrame, BufferTypeOK
  <2>2. RolesAreApart'
    BY <1>1 DEF FillFrame, RolesAreApart
  <2>3. PublishedIsWritten'
    BY <1>1, RolesDiffer DEF FillFrame, BufferTypeOK, PublishedIsWritten
  <2>4. QED
    BY <2>1, <2>2, <2>3
<1>2. CASE SwapWriteLoad
  BY <1>2 DEF SwapWriteLoad, BufferTypeOK, RolesAreApart, PublishedIsWritten
<1>3. CASE SwapWriteExchange
  <2>1. CASE flags # writerFlags
    BY <1>3, <2>1 DEF SwapWriteExchange, BufferTypeOK, RolesAreApart, PublishedIsWritten
  <2>2. CASE flags = writerFlags
    <3>1. flags' = SetWriteAndSwapReadyWithWrite(flags) /\ writer' = "fill"
      BY <1>3, <2>2 DEF SwapWriteExchange
    <3>2. /\ flags' \in Words /\ Read(flags') = Read(flags)
          /\ Ready(flags') = Write(flags) /\ Write(flags') = Ready(flags)
      BY <3>1, SwapWriteParts DEF BufferTypeOK
    <3>3. BufferTypeOK'
      BY <1>3, <2>2, <3>2 DEF SwapWriteExchange, BufferTypeOK, Words
    <3>4. RolesAreApart'
      BY <3>2 DEF RolesAreApart
    <3>5. PublishedIsWritten'
      BY <1>3, <3>1, <3>2 DEF SwapWriteExchange, PublishedIsWritten
    <3>6. QED
      BY <3>3, <3>4, <3>5
  <2>3. QED
    BY <2>1, <2>2
<1>4. CASE SwapReadLoad
  BY <1>4 DEF SwapReadLoad, BufferTypeOK, RolesAreApart, PublishedIsWritten
<1>5. CASE SwapReadExchange
  <2>1. flags' = SwapReadWithReady(flags) /\ reader' = "taken"
    BY <1>5 DEF SwapReadExchange
  <2>2. /\ flags' \in Words /\ Write(flags') = Write(flags) /\ ~IsNew(flags')
        /\ Read(flags') = Ready(flags) /\ Ready(flags') = Read(flags)
    BY <2>1, SwapReadParts DEF BufferTypeOK
  <2>3. BufferTypeOK'
    BY <1>5, <2>2 DEF SwapReadExchange, BufferTypeOK, Words
  <2>4. RolesAreApart'
    BY <2>2 DEF RolesAreApart
  <2>5. PublishedIsWritten'
    BY <1>5, <2>1, <2>2 DEF SwapReadExchange, PublishedIsWritten
  <2>6. QED
    BY <2>3, <2>4, <2>5
<1>6. CASE SwapReadRetry
  BY <1>6 DEF SwapReadRetry, BufferTypeOK, RolesAreApart, PublishedIsWritten, Words
<1>7. CASE UseFrame
  BY <1>7 DEF UseFrame, BufferTypeOK, RolesAreApart, PublishedIsWritten
<1>8. CASE UNCHANGED bufferVars
  BY <1>8 DEF bufferVars, BufferTypeOK, RolesAreApart, PublishedIsWritten
<1>9. QED
  BY <1>1, <1>2, <1>3, <1>4, <1>5, <1>6, <1>7, <1>8 DEF BufferNext, SwapWrite, SwapRead

(***************************************************************************)
(* The triple buffer: the refinement.                                      *)
(***************************************************************************)

(* Nothing is new at first.                                                *)
LEMMA InitImplementsLatest == BufferInit => Latest!LatestInit
<1> SUFFICES ASSUME BufferInit PROVE Latest!LatestInit
  OBVIOUS
<1>1. flags = 64 * 0 + 16 * 0 + 4 * 1 + 2
  BY DEF BufferInit
<1>2. Read(flags) = 2 /\ ~IsNew(flags)
  BY <1>1, WordParts
<1>3. QED
  BY <1>2 DEF Latest!LatestInit, Inbox, Taken, BufferInit, Buffers

(* The exchange of SwapWrite publishes, that of SwapRead takes, and no     *)
(* other step is seen: what the producer fills is neither ready nor read.  *)
LEMMA StepImplementsLatest ==
  BufferInv /\ [BufferNext]_bufferVars => [Latest!LatestNext]_<<Inbox, Taken>>
<1> SUFFICES ASSUME BufferInv, [BufferNext]_bufferVars
             PROVE  [Latest!LatestNext]_<<Inbox, Taken>>
  OBVIOUS
<1> USE DEF BufferInv
<1>1. ASSUME UNCHANGED <<flags, frames>> PROVE UNCHANGED <<Inbox, Taken>>
  BY <1>1 DEF Inbox, Taken
<1>2. ASSUME NEW frame \in Frames, FillFrame(frame) PROVE UNCHANGED <<Inbox, Taken>>
  <2>1. /\ flags' = flags
        /\ frames'[Ready(flags)] = frames[Ready(flags)]
        /\ frames'[Read(flags)] = frames[Read(flags)]
    BY <1>2, RolesDiffer DEF FillFrame, BufferTypeOK
  <2>2. QED
    BY <2>1 DEF Inbox, Taken
<1>3. ASSUME SwapWriteExchange, flags = writerFlags PROVE Latest!Publish
  <2>1. /\ flags' = SetWriteAndSwapReadyWithWrite(flags)
        /\ frames' = frames /\ writer # "fill"
    BY <1>3 DEF SwapWriteExchange
  <2>2. Read(flags') = Read(flags) /\ Ready(flags') = Write(flags) /\ IsNew(flags')
    BY <2>1, SwapWriteParts DEF BufferTypeOK
  <2>3. Inbox' \in Frames /\ Taken' = Taken
    BY <2>1, <2>2 DEF Inbox, Taken, PublishedIsWritten
  <2>4. QED
    BY <2>3 DEF Latest!Publish
<1>4. ASSUME SwapReadExchange PROVE Latest!Take
  <2>1. flags' = SwapReadWithReady(flags) /\ frames' = frames /\ IsNew(flags)
    BY <1>4 DEF SwapReadExchange, PublishedIsWritten
  <2>2. Read(flags') = Ready(flags) /\ ~IsNew(flags')
    BY <2>1, SwapReadParts DEF BufferTypeOK
  <2>3. Inbox \in Frames /\ Taken' = Inbox /\ Inbox' = NoFrame
    BY <2>1, <2>2 DEF Inbox, Taken, PublishedIsWritten
  <2>4. QED
    BY <2>3, FramesAssumption DEF Latest!Take
<1>5. CASE SwapWriteExchange
  BY <1>1, <1>3, <1>5 DEF SwapWriteExchange, Latest!LatestNext
<1>6. CASE SwapWriteLoad \/ SwapReadLoad \/ SwapReadRetry \/ UseFrame \/ UNCHANGED bufferVars
  BY <1>1, <1>6 DEF SwapWriteLoad, SwapReadLoad, SwapReadRetry, UseFrame, bufferVars
<1>7. QED
  BY <1>2, <1>4, <1>5, <1>6 DEF BufferNext, SwapWrite, SwapRead, Latest!LatestNext

(***************************************************************************)
(* The triple buffer: the theorems.                                        *)
(***************************************************************************)

(* The word keeps to three indices that are apart, whatever exchanges fail *)
(* and are tried again: the producer, the player and the frame between     *)
(* them never share a buffer.                                              *)
THEOREM BufferRolesApart == BufferSpec => [](BufferTypeOK /\ RolesAreApart)
<1>1. BufferSpec => []BufferInv
  BY BufferInitInv, BufferStepInv, PTL DEF BufferSpec
<1>2. BufferInv => BufferTypeOK /\ RolesAreApart
  BY DEF BufferInv
<1>3. QED
  BY <1>1, <1>2, PTL

(* Producer and player exchange frames as if by an inbox for the latest:   *)
(* each is taken at most once, as it was written, and none is taken twice  *)
(* or touched while the player has it.                                     *)
THEOREM BufferImplementsLatest == BufferSpec => LatestSpec
<1>1. BufferSpec => []BufferInv
  BY BufferInitInv, BufferStepInv, PTL DEF BufferSpec
<1>2. BufferSpec => Latest!LatestInit /\ [][Latest!LatestNext]_<<Inbox, Taken>>
  BY <1>1, InitImplementsLatest, StepImplementsLatest, PTL DEF BufferSpec
<1>3. QED
  BY <1>2 DEF LatestSpec, Latest!LatestSpec, Latest!latestVars

(***************************************************************************)
(* The video player: the invariant.                                        *)
(***************************************************************************)
(* Until Render is done with it, a frame is held.                          *)
RenderHolds == render # "idle" => reader = "taken"

(* Each index has a memory, or 0.                                          *)
BuffersMapped == buffers \in [Buffers -> Nat]

(* ShownFrameIsHeld, from the moment that TakeFrame has made a video frame.*)
ShownIsHeld ==
  shown # Nothing /\ (reader # "taken" \/ render # "idle") =>
    \/ shown.index = Read(flags) /\ shown.frame = frames[Read(flags)]
    \/ frames[Read(flags)].empty
    \/ buffers[Read(flags)] = 0

(* A frame is newer the later in its way from the producer to the screen   *)
(* it is met.                                                              *)
FramesInOrder ==
  /\ shown # Nothing => /\ shown.frame.number \in Nat
                        /\ shown.frame.number <= frames[Read(flags)].number
  /\ IsNew(flags) => frames[Read(flags)].number < frames[Ready(flags)].number
  /\ writer # "fill" =>
       /\ frames[Read(flags)].number < frames[Write(flags)].number
       /\ frames[Ready(flags)].number < frames[Write(flags)].number

PlayerInv ==
  /\ BufferInv /\ RenderHolds /\ BuffersMapped
  /\ MemoryIsTheFrames /\ ShownIsHeld /\ FramesInOrder

(***************************************************************************)
(* The player drives the triple buffer.                                    *)
(***************************************************************************)

(* A frame that is held while Render works on it is used in the end,       *)
(* whichever way Render ends.                                              *)
LEMMA PlayerStepsBuffer ==
  RenderHolds /\ [PlayerNext]_playerVars => [BufferNext]_bufferVars
<1> SUFFICES ASSUME RenderHolds, [PlayerNext]_playerVars PROVE [BufferNext]_bufferVars
  OBVIOUS
<1> USE DEF bufferVars
<1>1. CASE Produce
  BY <1>1 DEF Produce, BufferNext
<1>2. CASE ProducerSwaps
  BY <1>2 DEF ProducerSwaps, BufferNext
<1>3. CASE RenderSwaps
  BY <1>3 DEF RenderSwaps, BufferNext
<1>4. CASE OpenFails
  BY <1>4 DEF OpenFails, BufferNext, UseFrame
<1>5. CASE TakeFrame \/ CheckLayer \/ UpdateTransparency
  BY <1>5 DEF TakeFrame, CheckLayer, UpdateTransparency
<1>6. CASE AskForLayer
  BY <1>6 DEF AskForLayer, BufferNext, UseFrame, RenderHolds
<1>7. CASE UpdateLayer
  BY <1>7 DEF UpdateLayer, BufferNext, UseFrame, RenderHolds
<1>8. CASE Main
  BY <1>8 DEF Main, CreateVideoLayer, ClearPending, InitTransparency, LayerCreated,
              SetContentsOpaque, OnFirstFrameReceived
<1>9. CASE UNCHANGED playerVars
  BY <1>9 DEF playerVars
<1>10. QED
  BY <1>1, <1>2, <1>3, <1>4, <1>5, <1>6, <1>7, <1>8, <1>9 DEF PlayerNext, Render

(* What is in the buffers are frames, and their numbers are numbers.       *)
LEMMA BuffersHoldFrames ==
  ASSUME BufferTypeOK
  PROVE  /\ \A i \in Buffers : frames[i] \in Frame /\ frames[i].number \in Nat
         /\ \A i \in Buffers : frames[i].buffer \in Nat
  BY PlayerAssumption DEF BufferTypeOK, Frame

(* The next number is larger than the numbers in the buffers.              *)
LEMMA NextIsLarger ==
  ASSUME BufferTypeOK
  PROVE  \A i \in Buffers : frames[i].number < NextNumber
<1> DEFINE S == {frames[i].number : i \in Buffers}
           a == frames[0].number
           b == frames[1].number
           c == frames[2].number
<1>1. S = {a, b, c} /\ a \in Nat /\ b \in Nat /\ c \in Nat
  BY BuffersHoldFrames DEF Buffers
<1>2. \E m \in S : \A n \in S : n <= m
  <2> HIDE DEF S, a, b, c
  <2>1. CASE a >= b /\ a >= c
    BY <1>1, <2>1
  <2>2. CASE b >= a /\ b >= c
    BY <1>1, <2>2
  <2>3. CASE c >= a /\ c >= b
    BY <1>1, <2>3
  <2>4. QED
    BY <1>1, <2>1, <2>2, <2>3
<1>3. Max(S) \in S /\ \A n \in S : n <= Max(S)
  <2> HIDE DEF S
  <2>1. Max(S) = CHOOSE m \in S : \A n \in S : m >= n
    BY DEF Max
  <2>2. \E m \in S : \A n \in S : m >= n
    BY <1>1, <1>2
  <2>3. Max(S) \in S /\ \A n \in S : Max(S) >= n
    BY <2>1, <2>2
  <2>4. QED
    BY <1>1, <2>3
<1>4. NextNumber = 1 + Max(S)
  BY DEF NextNumber
<1>5. ASSUME NEW i \in Buffers PROVE frames[i].number < NextNumber
  <2>1. frames[i].number \in S
    OBVIOUS
  <2> HIDE DEF S, a, b, c
  <2>2. frames[i].number <= Max(S) /\ Max(S) \in Nat
    BY <1>1, <1>3, <2>1
  <2>3. frames[i].number \in Nat
    BY <1>5, BuffersHoldFrames
  <2>4. QED
    BY <1>4, <2>2, <2>3
<1>6. QED
  BY <1>5

LEMMA PlayerInitInv == PlayerInit => PlayerInv
<1> SUFFICES ASSUME PlayerInit PROVE PlayerInv
  OBVIOUS
<1>1. BufferInit /\ BufferInv
  BY BufferInitInv DEF PlayerInit
<1>2. ~IsNew(flags) /\ writer = "fill"
  <2>1. flags = 64 * 0 + 16 * 0 + 4 * 1 + 2
    BY <1>1 DEF BufferInit
  <2>2. QED
    BY <1>1, <2>1, WordParts DEF BufferInit
<1>3. RenderHolds /\ BuffersMapped /\ MemoryIsTheFrames /\ ShownIsHeld
  BY DEF PlayerInit, RenderHolds, BuffersMapped, MemoryIsTheFrames, ShownIsHeld
<1>4. FramesInOrder
  BY <1>2 DEF PlayerInit, FramesInOrder
<1>5. QED
  BY <1>1, <1>3, <1>4 DEF PlayerInv

(***************************************************************************)
(* The steps, one lemma for those of each side.                            *)
(***************************************************************************)

(* The producer fills a buffer that is not held.                           *)
LEMMA ProduceKeeps == PlayerInv /\ Produce => PlayerInv'
<1> SUFFICES ASSUME PlayerInv, Produce PROVE PlayerInv'
  OBVIOUS
<1>1. PICK frame \in Frames : frame.number = NextNumber /\ FillFrame(frame)
  BY DEF Produce
<1>2. BufferInv'
  BY <1>1, BufferStepInv DEF PlayerInv, BufferNext
<1>3. /\ flags' = flags /\ reader' = reader /\ writer = "fill" /\ writer' = "filled"
      /\ frames'[Write(flags)] = frame
      /\ frames'[Read(flags)] = frames[Read(flags)]
      /\ frames'[Ready(flags)] = frames[Ready(flags)]
  BY <1>1, RolesDiffer DEF FillFrame, PlayerInv, BufferInv, BufferTypeOK
<1>4. UNCHANGED <<buffers, current, shown, render>>
  BY DEF Produce, sinkVars
<1>5. RenderHolds' /\ BuffersMapped' /\ MemoryIsTheFrames' /\ ShownIsHeld'
  BY <1>3, <1>4 DEF PlayerInv, RenderHolds, BuffersMapped, MemoryIsTheFrames, ShownIsHeld
<1>6. /\ frames[Read(flags)].number < frame.number
      /\ frames[Ready(flags)].number < frame.number
  BY <1>1, NextIsLarger, RolesDiffer DEF PlayerInv, BufferInv
<1>7. FramesInOrder'
  BY <1>3, <1>4, <1>6 DEF PlayerInv, FramesInOrder
<1>8. QED
  BY <1>2, <1>5, <1>7 DEF PlayerInv

(* The producer's exchange leaves the buffer that is read where it is.     *)
LEMMA ProducerSwapsKeeps == PlayerInv /\ ProducerSwaps => PlayerInv'
<1> SUFFICES ASSUME PlayerInv, ProducerSwaps PROVE PlayerInv'
  OBVIOUS
<1>1. UNCHANGED <<frames, reader, buffers, current, shown, render>>
  BY DEF ProducerSwaps, SwapWrite, SwapWriteLoad, SwapWriteExchange, sinkVars
<1>2. BufferInv'
  BY BufferStepInv DEF PlayerInv, BufferNext, ProducerSwaps
<1>3. \/ flags' = flags /\ writer # "fill" /\ writer' # "fill"
      \/ /\ flags' = SetWriteAndSwapReadyWithWrite(flags)
         /\ writer # "fill" /\ writer' = "fill"
  BY DEF ProducerSwaps, SwapWrite, SwapWriteLoad, SwapWriteExchange
<1>4. CASE flags' = flags /\ writer # "fill" /\ writer' # "fill"
  <2>1. RenderHolds' /\ BuffersMapped' /\ MemoryIsTheFrames' /\ ShownIsHeld'
    BY <1>1, <1>4 DEF PlayerInv, RenderHolds, BuffersMapped, MemoryIsTheFrames, ShownIsHeld
  <2>2. FramesInOrder'
    BY <1>1, <1>4 DEF PlayerInv, FramesInOrder
  <2>3. QED
    BY <1>2, <2>1, <2>2 DEF PlayerInv
<1>5. CASE /\ flags' = SetWriteAndSwapReadyWithWrite(flags)
           /\ writer # "fill" /\ writer' = "fill"
  <2>1. Read(flags') = Read(flags) /\ Ready(flags') = Write(flags)
    BY <1>5, SwapWriteParts DEF PlayerInv, BufferInv, BufferTypeOK
  <2>2. RenderHolds' /\ BuffersMapped' /\ MemoryIsTheFrames' /\ ShownIsHeld'
    BY <1>1, <2>1 DEF PlayerInv, RenderHolds, BuffersMapped, MemoryIsTheFrames, ShownIsHeld
  <2>3. FramesInOrder'
    BY <1>1, <1>5, <2>1 DEF PlayerInv, FramesInOrder
  <2>4. QED
    BY <1>2, <2>2, <2>3 DEF PlayerInv
<1>6. QED
  BY <1>3, <1>4, <1>5

(* Rendering swaps to a newer frame, and shows it only later.              *)
LEMMA RenderSwapsKeeps == PlayerInv /\ RenderSwaps => PlayerInv'
<1> SUFFICES ASSUME PlayerInv, RenderSwaps PROVE PlayerInv'
  OBVIOUS
<1>1. UNCHANGED <<frames, writer, buffers, current, shown, render>> /\ render = "idle"
  BY DEF RenderSwaps, SwapRead, SwapReadLoad, SwapReadExchange, SwapReadRetry, sinkVars
<1>2. BufferInv'
  BY BufferStepInv DEF PlayerInv, BufferNext, RenderSwaps
<1>3. \/ flags' = flags /\ reader # "taken" /\ reader' # "taken"
      \/ flags' = SwapReadWithReady(flags) /\ IsNew(flags) /\ reader' = "taken"
  BY DEF RenderSwaps, SwapRead, SwapReadLoad, SwapReadExchange, SwapReadRetry,
         PlayerInv, BufferInv, PublishedIsWritten
<1>4. RenderHolds' /\ BuffersMapped' /\ MemoryIsTheFrames'
  BY <1>1 DEF PlayerInv, RenderHolds, BuffersMapped, MemoryIsTheFrames
<1>5. CASE flags' = flags /\ reader # "taken" /\ reader' # "taken"
  BY <1>1, <1>2, <1>4, <1>5 DEF PlayerInv, ShownIsHeld, FramesInOrder
<1>6. CASE flags' = SwapReadWithReady(flags) /\ IsNew(flags) /\ reader' = "taken"
  <2>1. /\ Read(flags') = Ready(flags) /\ Ready(flags') = Read(flags)
        /\ Write(flags') = Write(flags) /\ ~IsNew(flags')
    BY <1>6, SwapReadParts DEF PlayerInv, BufferInv, BufferTypeOK
  <2>2. ShownIsHeld'
    BY <1>1, <1>6 DEF ShownIsHeld
  <2>3. /\ frames[Read(flags)].number \in Nat /\ frames[Ready(flags)].number \in Nat
    BY BuffersHoldFrames, RolesDiffer DEF PlayerInv, BufferInv
  <2>4. shown # Nothing => shown.frame.number <= frames[Ready(flags)].number
    BY <1>6, <2>3 DEF PlayerInv, FramesInOrder
  <2>5. FramesInOrder'
    BY <1>1, <1>6, <2>1, <2>4 DEF PlayerInv, FramesInOrder
  <2>6. QED
    BY <1>2, <1>4, <2>2, <2>5 DEF PlayerInv
<1>7. QED
  BY <1>3, <1>5, <1>6

(* Rendering ends without a new frame: the memory of the index is gone.    *)
LEMMA OpenFailsKeeps == PlayerInv /\ OpenFails => PlayerInv'
<1> SUFFICES ASSUME PlayerInv, OpenFails PROVE PlayerInv'
  OBVIOUS
<1>1. /\ UNCHANGED <<flags, frames, writer, current, shown, render>>
      /\ render = "idle" /\ reader' = "idle"
      /\ buffers' = [buffers EXCEPT ![Read(flags)] = 0]
  BY DEF OpenFails
<1>2. BufferInv'
  BY PlayerStepsBuffer, BufferStepInv DEF PlayerInv, PlayerNext
<1>3. Read(flags) \in Buffers
  BY RolesDiffer DEF PlayerInv, BufferInv
<1>4. BuffersMapped' /\ buffers'[Read(flags)] = 0
  BY <1>1, <1>3 DEF PlayerInv, BuffersMapped
<1>5. RenderHolds' /\ MemoryIsTheFrames' /\ ShownIsHeld'
  BY <1>1, <1>4 DEF RenderHolds, MemoryIsTheFrames, ShownIsHeld
<1>6. FramesInOrder'
  BY <1>1 DEF PlayerInv, FramesInOrder
<1>7. QED
  BY <1>2, <1>4, <1>5, <1>6 DEF PlayerInv

(* The frame that is taken is the one whose memory is mapped and, if it    *)
(* has a size, the only one that can come on the screen.                   *)
LEMMA TakeFrameKeeps == PlayerInv /\ TakeFrame => PlayerInv'
<1> SUFFICES ASSUME PlayerInv, TakeFrame PROVE PlayerInv'
  OBVIOUS
<1> DEFINE held == Read(flags)
           frame == frames[held]
           buffer == IF Stale(held) THEN frame.buffer ELSE buffers[held]
<1>1. /\ UNCHANGED bufferVars /\ reader = "taken"
      /\ buffers' = [buffers EXCEPT ![held] = buffer]
      /\ current' = frame
      /\ shown' \in IF frame.empty THEN {shown} ELSE VideoFrames(frame, held, buffer)
  BY DEF TakeFrame
<1>2. BufferInv'
  BY PlayerStepsBuffer, BufferStepInv DEF PlayerInv, PlayerNext, Render
<1>3. held \in Buffers /\ frame.number \in Nat /\ frame.buffer \in Nat
  BY RolesDiffer, BuffersHoldFrames DEF PlayerInv, BufferInv
<1>4. buffer = frame.buffer
  BY DEF Stale
<1>5. BuffersMapped' /\ buffers'[held] = frame.buffer
  BY <1>1, <1>3, <1>4 DEF PlayerInv, BuffersMapped
<1>6. flags' = flags /\ frames' = frames /\ reader' = "taken" /\ writer' = writer
  BY <1>1 DEF bufferVars
<1>7. \/ frame.empty /\ shown' = shown
      \/ shown' = Nothing
      \/ shown' = [frame |-> frame, index |-> held]
  BY <1>1 DEF VideoFrames
<1>8. RenderHolds' /\ MemoryIsTheFrames'
  BY <1>1, <1>5, <1>6 DEF RenderHolds, MemoryIsTheFrames
<1>9. ShownIsHeld'
  BY <1>6, <1>7 DEF ShownIsHeld
<1>10. FramesInOrder'
  BY <1>3, <1>6, <1>7 DEF PlayerInv, FramesInOrder
<1>11. QED
  BY <1>2, <1>5, <1>8, <1>9, <1>10 DEF PlayerInv

(* The rest of Render works on the frame it holds, and may blank it.       *)
LEMMA RenderRestKeeps ==
  PlayerInv /\ (CheckLayer \/ AskForLayer \/ UpdateTransparency \/ UpdateLayer) => PlayerInv'
<1> SUFFICES ASSUME PlayerInv, CheckLayer \/ AskForLayer \/ UpdateTransparency \/ UpdateLayer
             PROVE  PlayerInv'
  OBVIOUS
<1>1. /\ UNCHANGED <<flags, frames, writer, buffers, current>>
      /\ render # "idle" /\ (reader' = reader \/ render' = "idle")
      /\ shown' = shown \/ shown' = Nothing
  BY DEF CheckLayer, AskForLayer, UpdateTransparency, UpdateLayer, bufferVars, sinkVars
<1>2. BufferInv'
  BY PlayerStepsBuffer, BufferStepInv DEF PlayerInv, PlayerNext, Render
<1>3. RenderHolds' /\ BuffersMapped' /\ MemoryIsTheFrames' /\ ShownIsHeld'
  BY <1>1 DEF PlayerInv, RenderHolds, BuffersMapped, MemoryIsTheFrames, ShownIsHeld
<1>4. FramesInOrder'
  BY <1>1 DEF PlayerInv, FramesInOrder
<1>5. QED
  BY <1>2, <1>3, <1>4 DEF PlayerInv

(* The main thread touches neither frames nor memory.                      *)
LEMMA MainKeeps == PlayerInv /\ (Main \/ UNCHANGED playerVars) => PlayerInv'
<1> SUFFICES ASSUME PlayerInv, Main \/ UNCHANGED playerVars PROVE PlayerInv'
  OBVIOUS
<1>1. UNCHANGED <<flags, frames, writer, reader, buffers, current, shown, render>>
  BY DEF Main, CreateVideoLayer, ClearPending, InitTransparency, LayerCreated,
         SetContentsOpaque, OnFirstFrameReceived, playerVars, bufferVars, sinkVars
<1>2. BufferInv'
  BY PlayerStepsBuffer, BufferStepInv DEF PlayerInv, PlayerNext
<1>3. RenderHolds' /\ BuffersMapped' /\ MemoryIsTheFrames' /\ ShownIsHeld' /\ FramesInOrder'
  BY <1>1 DEF PlayerInv, RenderHolds, BuffersMapped, MemoryIsTheFrames, ShownIsHeld,
              FramesInOrder
<1>4. QED
  BY <1>2, <1>3 DEF PlayerInv

(* PlayerInv is an invariant of the player.                                *)
LEMMA PlayerInvariant == PlayerSpec => []PlayerInv
<1>1. PlayerInv /\ [PlayerNext]_playerVars => PlayerInv'
  BY ProduceKeeps, ProducerSwapsKeeps, RenderSwapsKeeps, OpenFailsKeeps, TakeFrameKeeps,
     RenderRestKeeps, MainKeeps DEF PlayerNext, Render
<1>2. QED
  BY <1>1, PlayerInitInv, PTL DEF PlayerSpec

(***************************************************************************)
(* The theorems.                                                           *)
(***************************************************************************)

(* The player gets frames as from an inbox for the latest.                 *)
THEOREM PlayerImplementsLatest == PlayerSpec => LatestSpec
<1>1. PlayerInit => BufferInit
  BY DEF PlayerInit
<1>2. PlayerInv /\ [PlayerNext]_playerVars => [BufferNext]_bufferVars
  BY PlayerStepsBuffer DEF PlayerInv
<1>3. PlayerSpec => BufferSpec
  BY <1>1, <1>2, PlayerInvariant, PTL DEF PlayerSpec, BufferSpec
<1>4. QED
  BY <1>3, BufferImplementsLatest

(* While Render works on a frame, the memory mapped for it is its own.     *)
THEOREM PlayerMapsTheFrame == PlayerSpec => []MemoryIsTheFrames
<1>1. PlayerInv => MemoryIsTheFrames
  BY DEF PlayerInv
<1>2. QED
  BY <1>1, PlayerInvariant, PTL

(* What is on the screen is a frame that the player holds, unless the      *)
(* frame read since is empty or could not be opened.                       *)
THEOREM PlayerShowsWhatItHolds == PlayerSpec => []ShownFrameIsHeld
<1>1. PlayerInv => ShownFrameIsHeld
  BY DEF PlayerInv, ShownIsHeld, ShownFrameIsHeld
<1>2. QED
  BY <1>1, PlayerInvariant, PTL

(* The screen does not go back to an older frame.                          *)
THEOREM PlayerNeverGoesBack == PlayerSpec => FramesNeverGoBack
<1>1. PlayerInv /\ [PlayerNext]_playerVars
        => [shown # Nothing /\ shown' # Nothing =>
              shown'.frame.number >= shown.frame.number]_shown
  <2> SUFFICES ASSUME PlayerInv, [PlayerNext]_playerVars,
                      shown # Nothing, shown' # Nothing, shown' # shown
               PROVE  shown'.frame.number >= shown.frame.number
    OBVIOUS
  <2>1. TakeFrame \/ UpdateLayer
    BY DEF PlayerNext, Render, Main, Produce, ProducerSwaps, RenderSwaps, CheckLayer, AskForLayer,
           UpdateTransparency, OpenFails, CreateVideoLayer, ClearPending, InitTransparency,
           LayerCreated, SetContentsOpaque, OnFirstFrameReceived, playerVars, sinkVars
  <2>2. TakeFrame /\ shown'.frame = frames[Read(flags)]
    BY <2>1 DEF TakeFrame, VideoFrames, UpdateLayer
  <2>3. /\ shown.frame.number \in Nat
        /\ shown.frame.number <= frames[Read(flags)].number
    BY DEF PlayerInv, FramesInOrder
  <2>4. frames[Read(flags)].number \in Nat
    BY RolesDiffer, BuffersHoldFrames DEF PlayerInv, BufferInv
  <2>5. QED
    BY <2>2, <2>3, <2>4
<1>2. QED
  BY <1>1, PlayerInvariant, PTL DEF PlayerSpec, FramesNeverGoBack

(***************************************************************************)
(* The layer.  Three kinds of task wait in the main thread's queue.        *)
(***************************************************************************)
Tasks == [do : {"CreateVideoLayer", "SetContentsOpaque", "OnFirstFrameReceived"},
          format : Formats \cup {"unset"}]

LayerTypes ==
  /\ tasks \in Seq(Tasks) /\ current \in Frame
  /\ main \in {"idle", "assigned", "cleared", "change"}
  /\ layer \in BOOLEAN /\ opaque \in BOOLEAN /\ pending \in BOOLEAN
  /\ format \in Formats \cup {"unset"} /\ creating \in Formats \cup {"unset"}

(* OneCreationAtATime, by the places of the queue.                         *)
OneCreation ==
  /\ \A i, j \in Queued("CreateVideoLayer") : i = j
  /\ main = "assigned" => Queued("CreateVideoLayer") = {}
  /\ pending <=> Queued("CreateVideoLayer") # {} \/ main = "assigned"

LayerInv == LayerTypes /\ OneCreation


LEMMA Enqueued ==
  ASSUME LayerTypes, NEW task \in Tasks, tasks' = Append(tasks, task)
  PROVE  /\ tasks' \in Seq(Tasks)
         /\ Len(tasks) \in Nat /\ Len(tasks') = Len(tasks) + 1
         /\ tasks'[Len(tasks) + 1] = task
         /\ \A i \in 1 .. Len(tasks) : tasks'[i] = tasks[i]
  BY AppendProperties DEF LayerTypes

LEMMA QueuedAtTheEnd ==
  ASSUME LayerTypes, NEW task \in Tasks, tasks' = Append(tasks, task), NEW what
  PROVE  Queued(what)' = IF task.do = what THEN Queued(what) \cup {Len(tasks) + 1} ELSE Queued(what)
  BY Enqueued DEF Queued

LEMMA Dequeued ==
  ASSUME LayerTypes, tasks # <<>>, tasks' = Tail(tasks)
  PROVE  /\ tasks' \in Seq(Tasks)
         /\ Len(tasks) \in Nat /\ Len(tasks) >= 1 /\ Len(tasks') = Len(tasks) - 1
         /\ \A i \in 1 .. Len(tasks') : tasks'[i] = tasks[i + 1]
         /\ Head(tasks) = tasks[1] /\ tasks[1] \in Tasks
  BY HeadTailProperties, LenProperties DEF LayerTypes

LEMMA QueuedMovesUp ==
  ASSUME LayerTypes, tasks # <<>>, tasks' = Tail(tasks), NEW what
  PROVE  /\ \A i \in Queued(what)' : i \in Nat /\ i >= 1 /\ i + 1 \in Queued(what)
         /\ \A i \in Queued(what) : i \in Nat /\ (i = 1 \/ i - 1 \in Queued(what)')
         /\ Head(tasks).do = what <=> 1 \in Queued(what)
  BY Dequeued DEF Queued

(***************************************************************************)
(* One creation at a time.                                                 *)
(***************************************************************************)
LEMMA LayerInitInv == PlayerInit => LayerInv
<1> SUFFICES ASSUME PlayerInit PROVE LayerInv
  OBVIOUS
<1>1. tasks = <<>> /\ main = "idle" /\ pending = FALSE
  BY DEF PlayerInit
<1>2. tasks \in Seq(Tasks) /\ Len(tasks) = 0
  BY <1>1, EmptySeq
<1>3. \A what : Queued(what) = {}
  BY <1>2 DEF Queued
<1>4. LayerTypes
  BY <1>2, PlayerAssumption DEF PlayerInit, LayerTypes
<1>5. OneCreation
  BY <1>1, <1>3 DEF OneCreation
<1>6. QED
  BY <1>4, <1>5 DEF LayerInv

(* What the steps do to the queue.                                         *)
LEMMA LayerStepTypes ==
  ASSUME PlayerInv, LayerTypes, [PlayerNext]_playerVars
  PROVE  LayerTypes'
<1>1. CASE TakeFrame
  <2>1. current' \in Frame
    BY <1>1, BuffersHoldFrames, RolesDiffer DEF TakeFrame, PlayerInv, BufferInv
  <2>2. tasks' \in Seq(Tasks)
    BY <1>1, AppendProperties DEF TakeFrame, LayerTypes, FirstFrame, Tasks
  <2>3. QED
    BY <1>1, <2>1, <2>2 DEF TakeFrame, LayerTypes, layerVars
<1>2. CASE AskForLayer
  <2>1. CreateLayer(current.format) \in Tasks
    BY DEF LayerTypes, Frame, CreateLayer, Tasks
  <2>2. QED
    BY <1>2, <2>1, AppendProperties DEF AskForLayer, ClaimLayer, LayerTypes, sinkVars
<1>3. CASE UpdateLayer
  <2>1. SetOpaque(current.format) \in Tasks /\ current.format \in Formats
    BY DEF LayerTypes, Frame, SetOpaque, Tasks
  <2>2. QED
    BY <1>3, <2>1, AppendProperties DEF UpdateLayer, LayerTypes
<1>4. CASE CreateVideoLayer \/ SetContentsOpaque \/ OnFirstFrameReceived
  <2>1. tasks' \in Seq(Tasks)
    BY <1>4, Dequeued DEF CreateVideoLayer, SetContentsOpaque, OnFirstFrameReceived, RunTask
  <2>2. Head(tasks).format \in Formats \cup {"unset"}
    BY <1>4, Dequeued DEF CreateVideoLayer, SetContentsOpaque, OnFirstFrameReceived, RunTask, Tasks
  <2>3. QED
    BY <1>4, <2>1, <2>2 DEF CreateVideoLayer, SetContentsOpaque, OnFirstFrameReceived, LayerTypes,
                            IsOpaque, sinkVars, layerVars
<1>5. CASE LayerCreated
  BY <1>5 DEF LayerCreated, LayerTypes, IsOpaque, sinkVars
<1>6. CASE ClearPending \/ InitTransparency
  BY <1>6 DEF ClearPending, InitTransparency, LayerTypes, sinkVars
<1>7. CASE Produce \/ ProducerSwaps \/ RenderSwaps \/ OpenFails \/ CheckLayer \/ UpdateTransparency
           \/ UNCHANGED playerVars
  BY <1>7 DEF Produce, ProducerSwaps, RenderSwaps, OpenFails, CheckLayer, UpdateTransparency,
              LayerTypes, sinkVars, layerVars, playerVars
<1>8. QED
  BY <1>1, <1>2, <1>3, <1>4, <1>5, <1>6, <1>7 DEF PlayerNext, Render, Main

LEMMA OneCreationStep ==
  ASSUME LayerInv, LayerTypes', [PlayerNext]_playerVars
  PROVE  OneCreation'
<1> USE DEF LayerInv
<1>1. CASE UNCHANGED <<tasks, main, pending>>
  BY <1>1 DEF OneCreation, Queued
<1>2. CASE TakeFrame /\ tasks' # tasks
  <2>1. FirstFrame \in Tasks /\ tasks' = Append(tasks, FirstFrame) /\ FirstFrame.do # "CreateVideoLayer"
    BY <1>2 DEF TakeFrame, FirstFrame, Tasks
  <2>2. Queued("CreateVideoLayer")' = Queued("CreateVideoLayer")
    BY <2>1, QueuedAtTheEnd
  <2>3. QED
    BY <1>2, <2>2 DEF TakeFrame, layerVars, OneCreation
<1>3. CASE AskForLayer /\ ~pending
  <2>1. /\ CreateLayer(current.format) \in Tasks
        /\ tasks' = Append(tasks, CreateLayer(current.format))
        /\ CreateLayer(current.format).do = "CreateVideoLayer"
    BY <1>3 DEF AskForLayer, ClaimLayer, LayerTypes, Frame, CreateLayer, Tasks
  <2>2. Queued("CreateVideoLayer")' = {Len(tasks) + 1}
    BY <1>3, <2>1, QueuedAtTheEnd DEF OneCreation
  <2>3. QED
    BY <1>3, <2>2 DEF AskForLayer, ClaimLayer, OneCreation
<1>4. CASE UpdateLayer /\ render = "change"
  <2>1. /\ SetOpaque(current.format) \in Tasks
        /\ tasks' = Append(tasks, SetOpaque(current.format))
        /\ SetOpaque(current.format).do # "CreateVideoLayer"
    BY <1>4 DEF UpdateLayer, LayerTypes, Frame, SetOpaque, Tasks
  <2>2. Queued("CreateVideoLayer")' = Queued("CreateVideoLayer")
    BY <2>1, QueuedAtTheEnd
  <2>3. QED
    BY <1>4, <2>2 DEF UpdateLayer, OneCreation
<1>5. CASE CreateVideoLayer
  <2>1. /\ \A i \in Queued("CreateVideoLayer")' : i >= 1 /\ i \in Nat /\ i + 1 \in Queued("CreateVideoLayer")
        /\ 1 \in Queued("CreateVideoLayer")
    BY <1>5, QueuedMovesUp DEF CreateVideoLayer, RunTask
  <2>2. Queued("CreateVideoLayer")' = {}
    BY <2>1 DEF OneCreation
  <2>3. pending /\ pending' = pending /\ main' = "assigned"
    BY <1>5, <2>1 DEF CreateVideoLayer, OneCreation
  <2>4. QED
    BY <2>2, <2>3 DEF OneCreation
<1>6. CASE SetContentsOpaque \/ OnFirstFrameReceived
  <2>1. /\ \A i \in Queued("CreateVideoLayer")' : i >= 1 /\ i \in Nat /\ i + 1 \in Queued("CreateVideoLayer")
        /\ \A i \in Queued("CreateVideoLayer") : i \in Nat /\ (i = 1 \/ i - 1 \in Queued("CreateVideoLayer")')
        /\ 1 \notin Queued("CreateVideoLayer")
    BY <1>6, QueuedMovesUp DEF SetContentsOpaque, OnFirstFrameReceived, RunTask
  <2>2. Queued("CreateVideoLayer")' = {} <=> Queued("CreateVideoLayer") = {}
    BY <2>1
  <2>3. \A i, j \in Queued("CreateVideoLayer")' : i = j
    BY <2>1 DEF OneCreation
  <2>4. UNCHANGED <<main, pending>>
    BY <1>6 DEF SetContentsOpaque, OnFirstFrameReceived, layerVars
  <2>5. QED
    BY <2>2, <2>3, <2>4 DEF OneCreation
<1>7. CASE ClearPending \/ InitTransparency \/ LayerCreated
  <2>1. Queued("CreateVideoLayer")' = Queued("CreateVideoLayer")
    BY <1>7 DEF ClearPending, InitTransparency, LayerCreated, Queued
  <2>2. QED
    BY <1>7, <2>1 DEF ClearPending, InitTransparency, LayerCreated, OneCreation
<1>8. CASE AskForLayer /\ pending
  BY <1>1, <1>8 DEF AskForLayer, ClaimLayer
<1>9. CASE TakeFrame /\ tasks' = tasks
  BY <1>1, <1>9 DEF TakeFrame, layerVars
<1>10. CASE UpdateLayer /\ render # "change"
  BY <1>1, <1>10 DEF UpdateLayer
<1>11. CASE Produce \/ ProducerSwaps \/ RenderSwaps \/ OpenFails \/ CheckLayer \/ UpdateTransparency
            \/ UNCHANGED playerVars
  BY <1>1, <1>11 DEF Produce, ProducerSwaps, RenderSwaps, OpenFails, CheckLayer, UpdateTransparency,
              layerVars, playerVars
<1>12. pending \in BOOLEAN
  BY DEF LayerTypes
<1>13. QED
  BY <1>2, <1>3, <1>4, <1>5, <1>6, <1>7, <1>8, <1>9, <1>10, <1>11, <1>12 DEF PlayerNext, Render, Main

LEMMA LayerInvariant == PlayerSpec => []LayerInv
<1>1. PlayerInv /\ LayerInv /\ [PlayerNext]_playerVars => LayerInv'
  BY LayerStepTypes, OneCreationStep DEF LayerInv
<1>2. QED
  BY <1>1, LayerInitInv, PlayerInvariant, PTL DEF PlayerSpec

(* Whatever the two threads do, at most one creation of a layer is under   *)
(* way, which is what the flag says.                                       *)
THEOREM LayersOneAtATime == PlayerSpec => []OneCreationAtATime
<1>1. LayerInv => OneCreationAtATime
  <2> SUFFICES ASSUME LayerInv PROVE OneCreationAtATime
    OBVIOUS
  <2> DEFINE Q == Queued("CreateVideoLayer")
  <2>1. Q = {} => Cardinality(Q) = 0
    BY FS_EmptySet
  <2>2. Q # {} => Cardinality(Q) = 1
    <3>1. Q # {} => \E x : Q = {x}
      BY DEF LayerInv, OneCreation
    <3>2. QED
      BY <3>1, FS_Singleton
  <2>3. QED
    BY <2>1, <2>2 DEF LayerInv, OneCreation, OneCreationAtATime
<1>2. QED
  BY <1>1, LayerInvariant, PTL

(***************************************************************************)
(* Transparency.                                                           *)
(***************************************************************************)
(* What comes after what: a layer after its first frame, and what is set   *)
(* on the layer after the layer.                                           *)
LayerComesFirst ==
  /\ render # "idle" \/ pending \/ layer => received
  /\ render \in {"update", "change"} => layer
  /\ main # "idle" => layer
  /\ opaque \/ Queued("SetContentsOpaque") # {} => layer
  /\ opaque \/ format = "opaque" \/ format = "transparent" => layer

(* A frame that is taken has been produced.                                *)
TakenIsProduced == reader = "taken" => frames[Read(flags)].number > 0

(* Until there is a layer, nothing is transparent.                         *)
AllOpaque ==
  /\ \A i \in Buffers : frames[i].number > 0 => frames[i].format = "opaque"
  /\ received => current.format = "opaque"
  /\ format # "transparent"
  /\ main # "idle" => creating = "opaque"
  /\ \A i \in 1 .. Len(tasks) : tasks[i].do # "OnFirstFrameReceived" => tasks[i].format = "opaque"

(* The layer is, or will be when the last of its changes is made, as the   *)
(* format of the player, which is that of its frame.                       *)
OpaqueFollows ==
  /\ \A i \in Queued("SetContentsOpaque") :
       (\A j \in Queued("SetContentsOpaque") : j <= i) => tasks[i].format = format
  /\ Queued("SetContentsOpaque") = {} /\ opaque => format = "opaque"
  /\ HasLayer /\ render = "idle" => format = current.format

OpaqueInv ==
  /\ LayerComesFirst
  /\ TakenIsProduced
  /\ HasLayer \/ AllOpaque
  /\ OpaqueFollows

LEMMA OpaqueInitInv == PlayerInit => OpaqueInv
<1> SUFFICES ASSUME PlayerInit PROVE OpaqueInv
  OBVIOUS
<1>1. Len(tasks) = 0 /\ \A what : Queued(what) = {}
  BY EmptySeq DEF PlayerInit, Queued
<1>2. LayerComesFirst
  BY <1>1 DEF PlayerInit, LayerComesFirst
<1>3. TakenIsProduced
  BY DEF PlayerInit, BufferInit, TakenIsProduced
<1>4. AllOpaque
  <2>1. \A i \in Buffers : frames[i].number = 0
    BY PlayerAssumption DEF PlayerInit, BufferInit
  <2>2. QED
    BY <1>1, <2>1 DEF PlayerInit, AllOpaque
<1>5. OpaqueFollows
  BY <1>1 DEF PlayerInit, OpaqueFollows, HasLayer
<1>6. QED
  BY <1>2, <1>3, <1>4, <1>5 DEF OpaqueInv

LEMMA LayerComesFirstStep ==
  ASSUME LayerInv, LayerComesFirst, [PlayerNext]_playerVars
  PROVE  LayerComesFirst'
<1> DEFINE Q == Queued("SetContentsOpaque")
<1> USE DEF LayerInv
<1>1. CASE UNCHANGED <<tasks, render, pending, layer, received, main, opaque, format>>
  BY <1>1 DEF LayerComesFirst, Queued
<1>2. CASE TakeFrame
  <2>1. Q' = Q
    <3>1. CASE tasks' = tasks
      BY <3>1 DEF Queued
    <3>2. CASE tasks' = Append(tasks, FirstFrame)
      <4>1. FirstFrame \in Tasks /\ FirstFrame.do # "SetContentsOpaque"
        BY DEF FirstFrame, Tasks
      <4>2. QED
        BY <3>2, <4>1, QueuedAtTheEnd
    <3>3. QED
      BY <1>2, <3>1, <3>2 DEF TakeFrame
  <2>2. QED
    BY <1>2, <2>1 DEF TakeFrame, layerVars, LayerComesFirst
<1>3. CASE CheckLayer \/ UpdateTransparency
  <2>1. Q' = Q
    BY <1>3 DEF CheckLayer, UpdateTransparency, Queued
  <2>2. QED
    BY <1>3, <2>1 DEF CheckLayer, UpdateTransparency, layerVars, sinkVars, LayerComesFirst
<1>4. CASE AskForLayer
  <2>1. Q' = Q
    <3>1. CASE pending
      BY <1>4, <3>1 DEF AskForLayer, ClaimLayer, Queued
    <3>2. CASE ~pending
      <4>1. /\ CreateLayer(current.format) \in Tasks
            /\ CreateLayer(current.format).do # "SetContentsOpaque"
            /\ tasks' = Append(tasks, CreateLayer(current.format))
        BY <1>4, <3>2 DEF AskForLayer, ClaimLayer, LayerTypes, Frame, CreateLayer, Tasks
      <4>2. QED
        BY <4>1, QueuedAtTheEnd
    <3>3. QED
      BY <3>1, <3>2
  <2>2. QED
    BY <1>4, <2>1 DEF AskForLayer, sinkVars, LayerComesFirst
<1>5. CASE UpdateLayer
  <2>1. layer /\ received
    BY <1>5 DEF UpdateLayer, LayerComesFirst
  <2>2. QED
    BY <1>5, <2>1 DEF UpdateLayer, LayerComesFirst
<1>6. CASE CreateVideoLayer
  <2>1. pending
    BY <1>6, QueuedMovesUp DEF CreateVideoLayer, RunTask, OneCreation
  <2>2. QED
    BY <1>6, <2>1 DEF CreateVideoLayer, sinkVars, LayerComesFirst
<1>7. CASE SetContentsOpaque \/ OnFirstFrameReceived
  <2>1. Q' # {} => Q # {}
    BY <1>7, QueuedMovesUp DEF SetContentsOpaque, OnFirstFrameReceived, RunTask
  <2>2. SetContentsOpaque => Q # {}
    BY QueuedMovesUp DEF SetContentsOpaque, RunTask
  <2>3. QED
    BY <1>7, <2>1, <2>2 DEF SetContentsOpaque, OnFirstFrameReceived, sinkVars, layerVars,
                            LayerComesFirst
<1>8. CASE ClearPending \/ InitTransparency \/ LayerCreated
  <2>1. layer /\ received
    BY <1>8 DEF ClearPending, InitTransparency, LayerCreated, LayerComesFirst
  <2>2. QED
    BY <1>8, <2>1 DEF ClearPending, InitTransparency, LayerCreated, sinkVars, LayerComesFirst
<1>9. CASE Produce \/ ProducerSwaps \/ RenderSwaps \/ OpenFails \/ UNCHANGED playerVars
  BY <1>1, <1>9 DEF Produce, ProducerSwaps, RenderSwaps, OpenFails, sinkVars, layerVars, playerVars
<1>10. QED
  BY <1>2, <1>3, <1>4, <1>5, <1>6, <1>7, <1>8, <1>9 DEF PlayerNext, Render, Main

(* The exchange takes what was ready and new, which was produced later     *)
(* than what is read.                                                      *)
LEMMA TakenIsProducedStep ==
  ASSUME PlayerInv, TakenIsProduced, [PlayerNext]_playerVars
  PROVE  TakenIsProduced'
<1> USE DEF PlayerInv, BufferInv
<1>1. CASE Produce
  <2>1. PICK frame \in Frames : FillFrame(frame)
    BY <1>1 DEF Produce
  <2>2. UNCHANGED <<flags, reader>> /\ frames'[Read(flags)] = frames[Read(flags)]
    BY <2>1, RolesDiffer DEF FillFrame, BufferTypeOK
  <2>3. QED
    BY <2>2 DEF TakenIsProduced
<1>2. CASE ProducerSwaps
  <2>1. UNCHANGED <<frames, reader>>
    BY <1>2 DEF ProducerSwaps, SwapWrite, SwapWriteLoad, SwapWriteExchange
  <2>2. Read(flags') = Read(flags)
    BY <1>2, SwapWriteParts DEF ProducerSwaps, SwapWrite, SwapWriteLoad, SwapWriteExchange, BufferTypeOK
  <2>3. QED
    BY <2>1, <2>2 DEF TakenIsProduced
<1>3. CASE RenderSwaps
  <2>1. \/ reader' # "taken"
        \/ flags' = SwapReadWithReady(flags) /\ IsNew(flags) /\ frames' = frames
    BY <1>3 DEF RenderSwaps, SwapRead, SwapReadLoad, SwapReadExchange, SwapReadRetry, PublishedIsWritten
  <2>2. CASE flags' = SwapReadWithReady(flags) /\ IsNew(flags) /\ frames' = frames
    <3>1. Read(flags') = Ready(flags)
      BY <2>2, SwapReadParts DEF BufferTypeOK
    <3>2. frames[Read(flags)].number < frames[Ready(flags)].number
      BY <2>2 DEF FramesInOrder
    <3>3. frames[Read(flags)].number \in Nat /\ frames[Ready(flags)].number \in Nat
      BY BuffersHoldFrames, RolesDiffer
    <3>4. QED
      BY <2>2, <3>1, <3>2, <3>3 DEF TakenIsProduced
  <2>3. QED
    BY <2>1, <2>2 DEF TakenIsProduced
<1>4. CASE \/ OpenFails \/ TakeFrame \/ CheckLayer \/ UpdateTransparency \/ AskForLayer \/ UpdateLayer
           \/ Main \/ UNCHANGED playerVars
  BY <1>4 DEF OpenFails, TakeFrame, CheckLayer, UpdateTransparency, AskForLayer, UpdateLayer, Main,
              CreateVideoLayer, ClearPending, InitTransparency, LayerCreated, SetContentsOpaque,
              OnFirstFrameReceived, bufferVars, playerVars, TakenIsProduced
<1>5. QED
  BY <1>1, <1>2, <1>3, <1>4 DEF PlayerNext, Render

(* A layer that is there stays: nothing is claimed again.                  *)
LEMMA LayerStays ==
  ASSUME LayerInv, HasLayer, [PlayerNext]_playerVars
  PROVE  HasLayer'
<1>1. ~CreateVideoLayer
  BY QueuedMovesUp DEF CreateVideoLayer, RunTask, LayerInv, OneCreation, HasLayer
<1>2. UNCHANGED <<layer, pending, main>> /\ render' # "claim"
  <2>1. layer = TRUE /\ pending = FALSE /\ main = "idle" /\ render # "claim"
    BY DEF HasLayer, LayerInv, LayerTypes
  <2>2. CASE Render
    BY <2>1, <2>2 DEF Render, RenderSwaps, TakeFrame, CheckLayer, AskForLayer, UpdateTransparency,
                      UpdateLayer, layerVars
  <2>3. CASE Main
    BY <1>1, <2>1, <2>3 DEF Main, ClearPending, InitTransparency, LayerCreated, SetContentsOpaque,
                            OnFirstFrameReceived, layerVars
  <2>4. CASE Produce \/ ProducerSwaps \/ OpenFails \/ UNCHANGED playerVars
    BY <2>1, <2>4 DEF Produce, ProducerSwaps, OpenFails, layerVars, playerVars
  <2>5. QED
    BY <2>2, <2>3, <2>4 DEF PlayerNext
<1>3. QED
  BY <1>2 DEF HasLayer

(* Without a layer, the producer adds nothing transparent.                 *)
LEMMA StaysOpaque ==
  ASSUME ~AnyFormat, PlayerInv, LayerInv, LayerComesFirst, TakenIsProduced, AllOpaque, ~HasLayer,
         [PlayerNext]_playerVars
  PROVE  AllOpaque'
<1> USE DEF LayerInv
<1>1. CASE Produce
  <2>1. PICK frame \in Frames : frame.format = "opaque" /\ FillFrame(frame)
    BY <1>1 DEF Produce
  <2>2. \A i \in Buffers : frames'[i] = frames[i] \/ frames'[i] = frame
    BY <2>1 DEF FillFrame, PlayerInv, BufferInv, BufferTypeOK
  <2>3. UNCHANGED <<received, current, format, main, creating, tasks>>
    BY <1>1 DEF Produce, sinkVars, layerVars
  <2>4. QED
    BY <2>1, <2>2, <2>3 DEF AllOpaque
<1>2. CASE ProducerSwaps \/ RenderSwaps \/ OpenFails \/ CheckLayer \/ UpdateTransparency
           \/ UNCHANGED playerVars
  BY <1>2 DEF ProducerSwaps, SwapWrite, SwapWriteLoad, SwapWriteExchange, RenderSwaps, SwapRead,
              SwapReadLoad, SwapReadExchange, SwapReadRetry, OpenFails, CheckLayer, UpdateTransparency,
              sinkVars, layerVars, bufferVars, playerVars, AllOpaque
<1>3. CASE TakeFrame
  <2>1. current'.format = "opaque"
    BY <1>3, RolesDiffer DEF TakeFrame, TakenIsProduced, AllOpaque, PlayerInv, BufferInv
  <2>2. \A i \in 1 .. Len(tasks') :
          tasks'[i].do # "OnFirstFrameReceived" => tasks'[i].format = "opaque"
    <3>1. CASE tasks' = tasks
      BY <3>1 DEF AllOpaque
    <3>2. CASE tasks' = Append(tasks, FirstFrame)
      <4>1. FirstFrame \in Tasks /\ FirstFrame.do = "OnFirstFrameReceived"
        BY DEF FirstFrame, Tasks
      <4>2. QED
        BY <3>2, <4>1, Enqueued DEF AllOpaque
    <3>3. QED
      BY <1>3, <3>1, <3>2 DEF TakeFrame
  <2>3. QED
    BY <1>3, <2>1, <2>2 DEF TakeFrame, bufferVars, layerVars, AllOpaque
<1>4. CASE AskForLayer
  <2>1. current.format = "opaque"
    BY <1>4 DEF AskForLayer, LayerComesFirst, AllOpaque
  <2>2. CreateLayer(current.format) \in Tasks /\ CreateLayer(current.format).format = "opaque"
    BY <2>1 DEF CreateLayer, Tasks, Formats
  <2>3. tasks' = tasks \/ tasks' = Append(tasks, CreateLayer(current.format))
    BY <1>4 DEF AskForLayer, ClaimLayer
  <2>4. \A i \in 1 .. Len(tasks') :
          tasks'[i].do # "OnFirstFrameReceived" => tasks'[i].format = "opaque"
    BY <2>2, <2>3, Enqueued DEF AllOpaque
  <2>5. QED
    BY <1>4, <2>4 DEF AskForLayer, sinkVars, AllOpaque
<1>5. CASE UpdateLayer
  <2>1. current.format = "opaque"
    BY <1>5 DEF UpdateLayer, LayerComesFirst, AllOpaque
  <2>2. SetOpaque(current.format) \in Tasks /\ SetOpaque(current.format).format = "opaque"
    BY <2>1 DEF SetOpaque, Tasks, Formats
  <2>3. tasks' = tasks \/ tasks' = Append(tasks, SetOpaque(current.format))
    BY <1>5 DEF UpdateLayer
  <2>4. \A i \in 1 .. Len(tasks') :
          tasks'[i].do # "OnFirstFrameReceived" => tasks'[i].format = "opaque"
    BY <2>2, <2>3, Enqueued DEF AllOpaque
  <2>5. QED
    BY <1>5, <2>1, <2>4 DEF UpdateLayer, AllOpaque
<1>6. CASE CreateVideoLayer \/ SetContentsOpaque \/ OnFirstFrameReceived
  <2>1. tasks # <<>> /\ tasks' = Tail(tasks)
    BY <1>6 DEF CreateVideoLayer, SetContentsOpaque, OnFirstFrameReceived, RunTask
  <2>2. \A i \in 1 .. Len(tasks') :
          tasks'[i].do # "OnFirstFrameReceived" => tasks'[i].format = "opaque"
    BY <2>1, Dequeued DEF AllOpaque
  <2>3. CreateVideoLayer => creating' = "opaque"
    BY <2>1, Dequeued DEF CreateVideoLayer, RunTask, AllOpaque
  <2>4. QED
    BY <1>6, <2>2, <2>3 DEF CreateVideoLayer, SetContentsOpaque, OnFirstFrameReceived, RunTask,
                            bufferVars, sinkVars, layerVars, AllOpaque
<1>7. CASE ClearPending \/ InitTransparency \/ LayerCreated
  BY <1>7 DEF ClearPending, InitTransparency, LayerCreated, bufferVars, sinkVars, AllOpaque
<1>8. QED
  BY <1>1, <1>2, <1>3, <1>4, <1>5, <1>6, <1>7 DEF PlayerNext, Render, Main

(* The changes of the layer arrive in the order in which the format        *)
(* changes, so that the last of them leaves it as the format is.           *)
LEMMA OpaqueFollowsStep ==
  ASSUME PlayerInv, LayerInv, LayerComesFirst, HasLayer \/ AllOpaque, OpaqueFollows,
         [PlayerNext]_playerVars
  PROVE  OpaqueFollows'
<1> DEFINE Q == Queued("SetContentsOpaque")
<1> USE DEF LayerInv
<1>1. CASE UNCHANGED <<tasks, format, opaque, layer, pending, main, render, current>>
  BY <1>1 DEF OpaqueFollows, HasLayer, Queued
<1>2. CASE TakeFrame \/ CheckLayer \/ UpdateTransparency
  <2>1. /\ render' # "idle" /\ UNCHANGED <<format, opaque>>
        /\ tasks' = tasks \/ tasks' = Append(tasks, FirstFrame)
    BY <1>2 DEF TakeFrame, CheckLayer, UpdateTransparency, layerVars
  <2>2. CASE tasks' = tasks
    BY <2>1, <2>2 DEF OpaqueFollows, Queued
  <2>3. CASE tasks' = Append(tasks, FirstFrame)
    <3>1. FirstFrame \in Tasks /\ FirstFrame.do # "SetContentsOpaque"
      BY DEF FirstFrame, Tasks
    <3>2. Q' = Q /\ \A i \in Q : tasks'[i] = tasks[i]
      BY <2>3, <3>1, QueuedAtTheEnd, Enqueued DEF Queued
    <3>3. QED
      BY <2>1, <3>2 DEF OpaqueFollows
  <2>4. QED
    BY <2>1, <2>2, <2>3
<1>3. CASE AskForLayer
  <2>1. /\ pending' /\ UNCHANGED <<format, opaque>>
        /\ tasks' = tasks \/ tasks' = Append(tasks, CreateLayer(current.format))
    BY <1>3 DEF AskForLayer, ClaimLayer
  <2>2. CASE tasks' = tasks
    BY <2>1, <2>2 DEF OpaqueFollows, HasLayer, Queued
  <2>3. CASE tasks' = Append(tasks, CreateLayer(current.format))
    <3>1. CreateLayer(current.format) \in Tasks /\ CreateLayer(current.format).do # "SetContentsOpaque"
      BY DEF LayerTypes, Frame, CreateLayer, Tasks
    <3>2. Q' = Q /\ \A i \in Q : tasks'[i] = tasks[i]
      BY <2>3, <3>1, QueuedAtTheEnd, Enqueued DEF Queued
    <3>3. QED
      BY <2>1, <3>2 DEF OpaqueFollows, HasLayer
  <2>4. QED
    BY <2>1, <2>2, <2>3
<1>4. CASE UpdateLayer /\ render = "update"
  BY <1>4 DEF UpdateLayer, OpaqueFollows, HasLayer, Queued
<1>5. CASE UpdateLayer /\ render = "change"
  <2>1. /\ SetOpaque(current.format) \in Tasks
        /\ SetOpaque(current.format).do = "SetContentsOpaque"
        /\ SetOpaque(current.format).format = current.format
        /\ tasks' = Append(tasks, SetOpaque(current.format))
        /\ format' = current.format /\ current' = current
    BY <1>5 DEF UpdateLayer, LayerTypes, Frame, SetOpaque, Tasks
  <2>2. Q' = Q \cup {Len(tasks) + 1}
    BY <2>1, QueuedAtTheEnd
  <2>3. /\ Len(tasks) \in Nat /\ tasks'[Len(tasks) + 1].format = current.format
        /\ \A i \in Q : i \in Nat /\ i < Len(tasks) + 1
    BY <2>1, Enqueued DEF Queued
  <2>4. ASSUME NEW i \in Q', \A j \in Q' : j <= i PROVE i = Len(tasks) + 1
    <3>1. Len(tasks) + 1 <= i
      BY <2>2, <2>4
    <3>2. i \notin Q
      BY <2>3, <3>1
    <3>3. QED
      BY <2>2, <2>4, <3>2
  <2>5. QED
    BY <2>1, <2>2, <2>3, <2>4 DEF OpaqueFollows
<1>6. CASE CreateVideoLayer \/ OnFirstFrameReceived
  <2>1. /\ \A i \in Q' : i \in Nat /\ i >= 1 /\ i + 1 \in Q /\ tasks'[i] = tasks[i + 1]
        /\ \A i \in Q : i \in Nat /\ i - 1 \in Q'
    BY <1>6, QueuedMovesUp, Dequeued DEF CreateVideoLayer, OnFirstFrameReceived, RunTask, Queued
  <2>2. \A i \in Q' : (\A j \in Q' : j <= i) => (\A j \in Q : j <= i + 1)
    BY <2>1
  <2>3. UNCHANGED format
    BY <1>6 DEF CreateVideoLayer, OnFirstFrameReceived, layerVars
  <2>4. \A i \in Q' : (\A j \in Q' : j <= i) => tasks'[i].format = format'
    BY <2>1, <2>2, <2>3 DEF OpaqueFollows
  <2>5. Q' = {} /\ opaque' => format' = "opaque"
    BY <1>6, <2>1, <2>3 DEF CreateVideoLayer, OnFirstFrameReceived, layerVars, OpaqueFollows
  <2>6. HasLayer' /\ render' = "idle" => format' = current'.format
    BY <1>6 DEF CreateVideoLayer, OnFirstFrameReceived, layerVars, sinkVars, HasLayer, OpaqueFollows
  <2>7. QED
    BY <2>4, <2>5, <2>6 DEF OpaqueFollows
<1>7. CASE SetContentsOpaque
  <2>1. /\ \A i \in Q' : i \in Nat /\ i >= 1 /\ i + 1 \in Q /\ tasks'[i] = tasks[i + 1]
        /\ \A i \in Q : i \in Nat /\ (i = 1 \/ i - 1 \in Q')
        /\ 1 \in Q /\ Head(tasks) = tasks[1]
    BY <1>7, QueuedMovesUp, Dequeued DEF SetContentsOpaque, RunTask, Queued
  <2>2. UNCHANGED <<format, layer, pending, main, render, current>> /\ opaque' = IsOpaque(tasks[1].format)
    BY <1>7, <2>1 DEF SetContentsOpaque, sinkVars
  <2>3. \A i \in Q' : (\A j \in Q' : j <= i) => tasks'[i].format = format'
    <3>1. \A i \in Q' : (\A j \in Q' : j <= i) => (\A j \in Q : j <= i + 1)
      BY <2>1
    <3>2. QED
      BY <2>1, <2>2, <3>1 DEF OpaqueFollows
  <2>4. Q' = {} /\ opaque' => format' = "opaque"
    <3>1. Q' = {} => tasks[1].format = format
      BY <2>1 DEF OpaqueFollows
    <3>2. QED
      BY <2>2, <3>1 DEF IsOpaque
  <2>5. QED
    BY <2>2, <2>3, <2>4 DEF OpaqueFollows, HasLayer
<1>8. CASE ClearPending \/ InitTransparency
  BY <1>8 DEF ClearPending, InitTransparency, OpaqueFollows, HasLayer, Queued
<1>9. CASE LayerCreated
  <2>1. AllOpaque /\ received
    BY <1>9 DEF LayerCreated, HasLayer, LayerComesFirst
  <2>2. /\ format' = "opaque" /\ current'.format = "opaque" /\ tasks' = tasks
    BY <1>9, <2>1 DEF LayerCreated, AllOpaque, sinkVars
  <2>3. \A i \in Q : tasks[i].format = "opaque"
    BY <2>1 DEF AllOpaque, Queued
  <2>4. Q' = Q
    BY <2>2 DEF Queued
  <2>5. QED
    BY <2>2, <2>3, <2>4 DEF OpaqueFollows
<1>10. CASE Produce \/ ProducerSwaps \/ RenderSwaps \/ OpenFails \/ UNCHANGED playerVars
  BY <1>1, <1>10 DEF Produce, ProducerSwaps, RenderSwaps, OpenFails, sinkVars, layerVars, playerVars
<1>11. UpdateLayer => render \in {"update", "change"}
  BY DEF UpdateLayer
<1>12. QED
  BY <1>2, <1>3, <1>4, <1>5, <1>6, <1>7, <1>8, <1>9, <1>10, <1>11 DEF PlayerNext, Render, Main

(* A layer that shows transparent frames is not taken for opaque once both *)
(* threads have settled, if formats do not change before it is there.      *)
THEOREM LayerIsAsItsFrame ==
  ASSUME ~AnyFormat
  PROVE  PlayerSpec => []OpaqueOnlyIfOpaque
<1>1. PlayerInv /\ LayerInv /\ OpaqueInv /\ [PlayerNext]_playerVars => OpaqueInv'
  BY LayerComesFirstStep, TakenIsProducedStep, LayerStays, StaysOpaque, OpaqueFollowsStep DEF OpaqueInv
<1>2. LayerInv /\ OpaqueInv => OpaqueOnlyIfOpaque
  <2> SUFFICES ASSUME LayerInv, OpaqueInv, Settled, opaque PROVE current.format = "opaque"
    BY DEF OpaqueOnlyIfOpaque
  <2>1. HasLayer
    BY DEF OpaqueInv, LayerComesFirst, Settled, HasLayer, LayerInv, OneCreation
  <2>2. format = "opaque" /\ format = current.format
    BY <2>1 DEF OpaqueInv, OpaqueFollows, Settled
  <2>3. QED
    BY <2>2
<1>3. QED
  BY <1>1, <1>2, OpaqueInitInv, PlayerInvariant, LayerInvariant, PTL DEF PlayerSpec
===============================================================================
