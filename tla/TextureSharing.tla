---------------------------- MODULE TextureSharing ----------------------------
(***************************************************************************)
(* Video frames on their way to the GPU: the updaters of a compositor send *)
(* commands through one command buffer, in whose decoder                   *)
(* TextureManagerService and BufferManagerService keep what they opened    *)
(* (gpu/command_buffer/service, skype_video/shared_memory.cc, and the      *)
(* callers in patches/customization/chromium/src/skype_video_*.patch).     *)
(*                                                                         *)
(* A frame is a texture of a stream, known by its handle, or memory, known *)
(* by its name.  Commands are executed later, in order.                    *)
(***************************************************************************)
EXTENDS Naturals, Sequences, SequencesExt, FiniteSetsExt

CONSTANTS
  Updaters,            \* VideoResourceUpdaters that share the command buffer
  Streams, NoStream,   \* names of streams; the empty name
  Handles,             \* of the textures that the producers share
  Names,               \* of the memory that the producers share
  TargetSurfaceCount,  \* textures that are kept for a stream: 10 in the code
  MaxCommands          \* bound: commands on their way when another frame is drawn

ASSUME SharingAssumption ==
  /\ NoStream \notin Streams
  /\ TargetSurfaceCount \in Nat \ {0} /\ MaxCommands \in Nat

VARIABLES
  streamName,  \* for each updater, the stream of its last texture
  bufferMap,   \* for each, the memory it has sent frames of
  dead,        \* updaters that are gone
  frames,      \* names of memory that frames of the page still hold
  commands,    \* the command buffer
  state,       \* of its decoder: up, failed or destroyed
  streams,     \* streams_: for each stream there is, use_ and texture_map_
  buffers,     \* buffer_map_
  recent       \* all handles of a stream, the latest last: for the properties

clientVars == <<streamName, bufferMap, dead, frames>>
serviceVars == <<streams, buffers, recent>>
sharingVars == <<clientVars, commands, state, serviceVars>>

Command(op, stream, handle, name) ==
  [op |-> op, stream |-> stream, handle |-> handle, name |-> name]
None == "none"
CopyTexture(s, h) == Command("CopyTexture", s, h, None)
ReleaseTextureStream(s) ==
  IF s = NoStream THEN <<>> ELSE <<Command("ReleaseTextureStream", s, None, None)>>
UpdateTexture(n) == Command("UpdateTexture", NoStream, None, n)
ReleaseBuffers(names) ==
  SetToSeq({Command("ReleaseBuffer", NoStream, None, n) : n \in names})

(***************************************************************************)
(* The updaters.                                                           *)
(***************************************************************************)
CanDraw(u) == u \notin dead /\ Len(commands) < MaxCommands

(* Memory that no frame holds any more is given back before each frame.    *)
Expired(u) == bufferMap[u] \ frames

(* Mutation: stream_name_ is set first, so the new stream is given back.   *)
ReleaseRenamed(u, s) == IF s # streamName[u] THEN ReleaseTextureStream(s) ELSE <<>>
(* The frame's texture is copied; then the stream that was shown before is *)
(* given back, which is read from stream_name_, so before that changes.    *)
ReleaseShown(u, s) ==
  IF s # streamName[u] THEN ReleaseTextureStream(streamName[u]) ELSE <<>>

DrawTexture(u, s, h) ==
  /\ CanDraw(u)
  /\ commands' = commands \o ReleaseBuffers(Expired(u)) \o <<CopyTexture(s, h)>>
                          \o ReleaseShown(u, s)
  /\ bufferMap' = [bufferMap EXCEPT ![u] = @ \ Expired(u)]
  /\ streamName' = [streamName EXCEPT ![u] = s]
  /\ UNCHANGED <<dead, frames, state, serviceVars>>

DrawMemory(u, n) ==
  /\ CanDraw(u)
  /\ frames' = frames \cup {n}
  /\ commands' = commands \o ReleaseBuffers(Expired(u)) \o <<UpdateTexture(n)>>
  /\ bufferMap' = [bufferMap EXCEPT ![u] = (@ \ Expired(u)) \cup {n}]
  /\ UNCHANGED <<streamName, dead, state, serviceVars>>

(* The last frame that holds the memory goes.                              *)
FrameGone(n) ==
  /\ n \in frames
  /\ frames' = frames \ {n}
  /\ UNCHANGED <<streamName, bufferMap, dead, commands, state, serviceVars>>

(* ~VideoResourceUpdater.                                                  *)
DestroyUpdater(u) ==
  /\ CanDraw(u)
  /\ dead' = dead \cup {u}
  /\ commands' = commands \o ReleaseTextureStream(streamName[u]) \o ReleaseBuffers(bufferMap[u])
  /\ UNCHANGED <<streamName, bufferMap, frames, state, serviceVars>>

(***************************************************************************)
(* The service.                                                            *)
(***************************************************************************)
Pool(use, textures) == [use |-> use, textures |-> textures]
NewPool == Pool(<<>>, {})
StreamOf(s) == IF s \in DOMAIN streams THEN streams[s] ELSE NewPool

(* Mutation: the end of use_ is taken.                                     *)
EvictLatest(pool) ==
  Pool(SubSeq(pool.use, 1, Len(pool.use) - 1), pool.textures \ {pool.use[Len(pool.use)]})
(* The texture that has been unused for longest goes.                      *)
RemoveOldestUsed(pool) ==
  IF pool.use = <<>> THEN pool
  ELSE Pool(Tail(pool.use), pool.textures \ {Head(pool.use)})

MakeRoom(pool) ==
  IF Cardinality(pool.textures) >= TargetSurfaceCount THEN RemoveOldestUsed(pool) ELSE pool

(* The handle moves to the end of use_.                                    *)
Use(use, h) == Append(RemoveFirst(use, h), h)

(* Bind makes a surface for the handle, which fails when the producer has  *)
(* withdrawn the texture, and attaches it to a texture.                    *)
Bind == BOOLEAN

(* What a stream's pool may be after GetTexture, and whether it returns a  *)
(* texture.  What was evicted for one that does not bind is gone.          *)
GetTexture(pool, h) ==
  IF h \in pool.textures
  THEN {[pool |-> Pool(Use(pool.use, h), pool.textures), ok |-> TRUE]}
  ELSE LET room == MakeRoom(pool) IN
       {[pool |-> IF bound THEN Pool(Use(room.use, h), room.textures \cup {h}) ELSE room,
         ok |-> bound] : bound \in Bind}

(* The command at hand; one that fails is the last, as the context is lost.*)
Executing(op) == state = "up" /\ commands # <<>> /\ Head(commands).op = op
After(ok) ==
  /\ commands' = Tail(commands)
  /\ state' = IF ok THEN "up" ELSE "failed"
  /\ UNCHANGED clientVars

Keep(s, pool) == [t \in DOMAIN streams \cup {s} |-> IF t = s THEN pool ELSE streams[t]]
Drop(s) == [t \in DOMAIN streams \ {s} |-> streams[t]]

(* A texture of the updater's, into which the frame is copied.             *)
DestinationFound == BOOLEAN

HandleCopyTexture ==
  /\ Executing("CopyTexture")
  /\ LET s == Head(commands).stream
         h == Head(commands).handle
     IN \E got \in GetTexture(StreamOf(s), h), found \in DestinationFound :
          /\ streams' = Keep(s, got.pool)
          /\ recent' = [recent EXCEPT ![s] = Use(@, h)]
          /\ After(got.ok /\ found)
  /\ UNCHANGED buffers

HandleReleaseTextureStream ==
  /\ Executing("ReleaseTextureStream")
  /\ streams' = Drop(Head(commands).stream)
  /\ recent' = [recent EXCEPT ![Head(commands).stream] = <<>>]
  /\ After(TRUE)
  /\ UNCHANGED buffers

(* Memory is opened by its name, on POSIX under one of two, and mapped,    *)
(* which fails when its producer has withdrawn it.                         *)
OpenMemory == BOOLEAN
GetBuffer(n) ==
  IF n \in buffers THEN {buffers}
  ELSE {IF opened THEN buffers \cup {n} ELSE buffers : opened \in OpenMemory}

(* The largest alignment of rows that needs no padding, or none: the size  *)
(* of the image overflows.                                                 *)
AlignmentFound == BOOLEAN

HandleUpdateTexture ==
  /\ Executing("UpdateTexture")
  /\ LET n == Head(commands).name IN
     /\ buffers' \in GetBuffer(n)
     /\ \E found \in AlignmentFound : After(n \in buffers' /\ found)
  /\ UNCHANGED <<streams, recent>>

HandleReleaseBuffer ==
  /\ Executing("ReleaseBuffer")
  /\ buffers' = buffers \ {Head(commands).name}
  /\ After(TRUE)
  /\ UNCHANGED <<streams, recent>>

(***************************************************************************)
(* The end of the decoder: after a failed command, a reset of the GPU, or  *)
(* when nobody uses it.  Both managers go with it.                         *)
(***************************************************************************)
DestroyDecoder ==
  /\ state \in {"up", "failed"}
  /\ state' = "destroyed"
  /\ streams' = <<>> /\ buffers' = {} /\ commands' = <<>>
  /\ recent' = [s \in Streams |-> <<>>]
  /\ UNCHANGED clientVars

SharingInit ==
  /\ streamName = [u \in Updaters |-> NoStream]
  /\ bufferMap = [u \in Updaters |-> {}]
  /\ dead = {} /\ frames = {} /\ commands = <<>>
  /\ state = "up"
  /\ streams = <<>> /\ buffers = {} /\ recent = [s \in Streams |-> <<>>]

ClientNext ==
  \/ \E u \in Updaters :
       \/ \E s \in Streams, h \in Handles : DrawTexture(u, s, h)
       \/ \E n \in Names : DrawMemory(u, n)
       \/ DestroyUpdater(u)
  \/ \E n \in Names : FrameGone(n)
ServiceNext ==
  \/ HandleCopyTexture \/ HandleReleaseTextureStream
  \/ HandleUpdateTexture \/ HandleReleaseBuffer
  \/ DestroyDecoder

SharingNext == ClientNext \/ ServiceNext
SharingSpec == SharingInit /\ [][SharingNext]_sharingVars

(***************************************************************************)
(* Properties.                                                             *)
(***************************************************************************)
Commands ==
  [op : {"CopyTexture"}, stream : Streams, handle : Handles, name : {None}]
    \cup [op : {"ReleaseTextureStream"}, stream : Streams, handle : {None}, name : {None}]
    \cup [op : {"UpdateTexture", "ReleaseBuffer"}, stream : {NoStream}, handle : {None},
          name : Names]
Pools == [use : Seq(Handles), textures : SUBSET Handles]

SharingTypeOK ==
  /\ streamName \in [Updaters -> Streams \cup {NoStream}]
  /\ bufferMap \in [Updaters -> SUBSET Names]
  /\ dead \in SUBSET Updaters /\ frames \in SUBSET Names
  /\ commands \in Seq(Commands)
  /\ state \in {"up", "failed", "destroyed"}
  /\ DOMAIN streams \subseteq Streams /\ \A s \in DOMAIN streams : streams[s] \in Pools
  /\ buffers \in SUBSET Names /\ recent \in [Streams -> Seq(Handles)]

InCommands(op) == {i \in 1 .. Len(commands) : commands[i].op = op}
Viewers(s) == {u \in Updaters \ dead : streamName[u] = s}
Users(n) == {u \in Updaters \ dead : n \in bufferMap[u]}

(* What the service keeps for a client is used: a stream is shown by an    *)
(* updater and memory is in the map of one, or the command that gives it   *)
(* back is on its way.  With two updaters of one stream, a command of one  *)
(* takes it from the other, whose next frame makes it again.               *)
KeptForAUser ==
  /\ \A s \in DOMAIN streams :
       \/ Viewers(s) # {}
       \/ \E i \in InCommands("ReleaseTextureStream") : commands[i].stream = s
  /\ \A n \in buffers :
       \/ Users(n) # {}
       \/ \E i \in InCommands("ReleaseBuffer") : commands[i].name = n

(* The textures that are kept for a stream are the ones it used last, each *)
(* once: the one that is evicted is the one unused for longest.            *)
Latest(seq, n) == Range(SubSeq(seq, Len(seq) - Min({n, Len(seq)}) + 1, Len(seq)))
PoolHoldsTheLatest ==
  state = "up" =>
    \A s \in DOMAIN streams :
      /\ streams[s].textures = Latest(recent[s], TargetSurfaceCount)
      /\ Range(streams[s].use) = streams[s].textures
      /\ Len(streams[s].use) = Cardinality(streams[s].textures)
==============================================================================
