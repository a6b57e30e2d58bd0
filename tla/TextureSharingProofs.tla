------------------------- MODULE TextureSharingProofs -------------------------
(***************************************************************************)
(* The decoder keeps textures and memory for users only, and of each       *)
(* stream the textures used last, for any number of updaters, streams and  *)
(* handles and any length of the command buffer.                           *)
(***************************************************************************)
EXTENDS TextureSharing, FiniteSetTheorems, TLAPS

(***************************************************************************)
(* A sequence of handles, each once: what becomes of it when one is used.  *)
(***************************************************************************)
Distinct(seq) == \A i, j \in 1 .. Len(seq) : seq[i] = seq[j] => i = j

LEMMA RemoveFirstOf ==
  ASSUME NEW S, NEW seq \in Seq(S), Distinct(seq), NEW k \in 1 .. Len(seq)
  PROVE  /\ RemoveFirst(seq, seq[k]) \in Seq(S)
         /\ Len(RemoveFirst(seq, seq[k])) = Len(seq) - 1
         /\ \A i \in 1 .. Len(seq) - 1 :
              RemoveFirst(seq, seq[k])[i] = IF i < k THEN seq[i] ELSE seq[i + 1]
<1> DEFINE places == {i \in 1 .. Len(seq) : seq[i] = seq[k]}
<1>1. places = {k} /\ k \in Nat /\ Len(seq) \in Nat
  BY DEF Distinct
<1>2. Min({k}) = k
  BY <1>1 DEF Min
<1>3. SelectInSeq(seq, LAMBDA v : v = seq[k]) = k
  BY <1>1, <1>2 DEF SelectInSeq
<1> DEFINE before == SubSeq(seq, 1, k - 1)
           after == SubSeq(seq, k + 1, Len(seq))
<1>4. RemoveFirst(seq, seq[k]) = before \o after
  BY <1>3 DEF RemoveFirst, RemoveAt
<1>5. /\ before \in Seq(S) /\ Len(before) = k - 1
      /\ \A i \in 1 .. k - 1 : before[i] = seq[i]
  BY <1>1
<1>6. /\ after \in Seq(S) /\ Len(after) = Len(seq) - k
      /\ \A i \in 1 .. Len(seq) - k : after[i] = seq[i + k]
  BY <1>1
<1> HIDE DEF before, after, places
<1>7. /\ before \o after \in Seq(S) /\ Len(before \o after) = Len(seq) - 1
      /\ \A i \in 1 .. k - 1 : (before \o after)[i] = before[i]
      /\ \A i \in k .. Len(seq) - 1 : (before \o after)[i] = after[i - (k - 1)]
  BY <1>1, <1>5, <1>6
<1>8. ASSUME NEW i \in 1 .. Len(seq) - 1
      PROVE  (before \o after)[i] = IF i < k THEN seq[i] ELSE seq[i + 1]
  BY <1>1, <1>5, <1>6, <1>7
<1> QED BY <1>4, <1>7, <1>8

LEMMA UseOfNew ==
  ASSUME NEW S, NEW use \in Seq(S), NEW h \in S, h \notin Range(use)
  PROVE  Use(use, h) = Append(use, h)
<1>1. ~ \E i \in 1 .. Len(use) : use[i] = h
  BY DEF Range
<1> QED BY <1>1 DEF Use, RemoveFirst

(* All but h keep their order, and h is the last.                          *)
LEMMA UseOfOld ==
  ASSUME NEW S, NEW use \in Seq(S), Distinct(use), NEW k \in 1 .. Len(use)
  PROVE  /\ Use(use, use[k]) \in Seq(S)
         /\ Len(Use(use, use[k])) = Len(use)
         /\ \A i \in 1 .. Len(use) : Use(use, use[k])[i] =
              IF i < k THEN use[i] ELSE IF i < Len(use) THEN use[i + 1] ELSE use[k]
<1> DEFINE rest == RemoveFirst(use, use[k])
<1>1. /\ rest \in Seq(S) /\ Len(rest) = Len(use) - 1
      /\ \A i \in 1 .. Len(use) - 1 : rest[i] = IF i < k THEN use[i] ELSE use[i + 1]
  BY RemoveFirstOf
<1>2. Use(use, use[k]) = Append(rest, use[k]) /\ use[k] \in S /\ Len(use) \in Nat
  BY DEF Use
<1> HIDE DEF rest
<1> QED BY <1>1, <1>2

LEMMA UseKeeps ==
  ASSUME NEW S, NEW use \in Seq(S), Distinct(use), NEW h \in S
  PROVE  /\ Use(use, h) \in Seq(S) /\ Distinct(Use(use, h))
         /\ Range(Use(use, h)) = Range(use) \cup {h}
<1>1. CASE h \notin Range(use)
  <2>1. Use(use, h) = Append(use, h)
    BY <1>1, UseOfNew
  <2>2. Range(Append(use, h)) = Range(use) \cup {h}
    BY DEF Range
  <2>3. Distinct(Append(use, h))
    BY <1>1 DEF Distinct, Range
  <2> QED BY <2>1, <2>2, <2>3
<1>2. CASE h \in Range(use)
  <2>1. PICK k \in 1 .. Len(use) : use[k] = h
    BY <1>2 DEF Range
  <2> DEFINE used == Use(use, h)
  <2>2. /\ used \in Seq(S) /\ Len(used) = Len(use) /\ Len(use) \in Nat
        /\ \A i \in 1 .. Len(use) : used[i] =
             IF i < k THEN use[i] ELSE IF i < Len(use) THEN use[i + 1] ELSE h
    BY <2>1, UseOfOld
  <2> HIDE DEF used
  <2>3. Distinct(used)
    BY <2>1, <2>2 DEF Distinct
  <2>4. ASSUME NEW i \in 1 .. Len(used) PROVE used[i] \in Range(use)
    BY <2>1, <2>2 DEF Range
  <2>5. ASSUME NEW i \in 1 .. Len(use) PROVE \E j \in 1 .. Len(used) : used[j] = use[i]
    <3>1. CASE i < k
      BY <2>2, <3>1
    <3>2. CASE i = k
      BY <2>1, <2>2, <3>2
    <3>3. CASE i > k
      <4>1. i - 1 \in 1 .. Len(use) /\ ~(i - 1 < k) /\ i - 1 < Len(use) /\ i - 1 + 1 = i
        BY <2>2, <3>3
      <4> QED BY <2>2, <4>1
    <3> QED BY <2>2, <3>1, <3>2, <3>3
  <2>6. DOMAIN used = 1 .. Len(used) /\ DOMAIN use = 1 .. Len(use)
    BY <2>2
  <2>7. Range(used) \subseteq Range(use)
    BY <2>4, <2>6 DEF Range
  <2>8. Range(use) \subseteq Range(used)
    BY <2>5, <2>6 DEF Range
  <2> QED BY <1>2, <2>2, <2>3, <2>7, <2>8 DEF used
<1> QED BY <1>1, <1>2

(***************************************************************************)
(* The types, and that an updater has a finite number of memories.         *)
(***************************************************************************)
TypeInv == SharingTypeOK /\ \A u \in Updaters : IsFiniteSet(bufferMap[u])

ReleaseOf(n) == Command("ReleaseBuffer", NoStream, None, n)

LEMMA SequenceOfFinite ==
  ASSUME NEW S, IsFiniteSet(S)
  PROVE  SetToSeq(S) \in Seq(S) /\ Range(SetToSeq(S)) = S
<1> DEFINE card == Cardinality(S)
<1>1. card \in Nat /\ ExistsBijection(1 .. card, S)
  BY FS_CardinalityType
<1>2. PICK b \in Bijection(1 .. card, S) : TRUE
  BY <1>1 DEF ExistsBijection
<1>3. b \in [1 .. card -> S] /\ IsInjective(b)
  BY <1>2 DEF Bijection, Injection, IsInjective
<1>4. SetToSeq(S) \in [1 .. card -> S] /\ IsInjective(SetToSeq(S))
  BY <1>3 DEF SetToSeq
<1>5. SetToSeq(S) \in Injection(1 .. card, S)
  BY <1>4 DEF Injection, IsInjective
<1>6. IsFiniteSet(1 .. card) /\ Cardinality(1 .. card) = card
  BY <1>1, FS_Interval
<1>7. SetToSeq(S) \in Surjection(1 .. card, S)
  BY <1>5, <1>6, FS_Injection
<1>8. \A e \in S : \E i \in 1 .. card : SetToSeq(S)[i] = e
  BY <1>7 DEF Surjection
<1>9. Range(SetToSeq(S)) = S
  BY <1>4, <1>8 DEF Range
<1> QED BY <1>1, <1>4, <1>9

LEMMA ReleasesOfAll ==
  ASSUME NEW names \in SUBSET Names, IsFiniteSet(names)
  PROVE  /\ ReleaseBuffers(names) \in Seq(Commands)
         /\ Range(ReleaseBuffers(names)) = {ReleaseOf(n) : n \in names}
<1> DEFINE releases == {ReleaseOf(n) : n \in names}
           give == [n \in names |-> ReleaseOf(n)]
<1>1. give \in Surjection(names, releases)
  BY DEF Surjection
<1>2. IsFiniteSet(releases)
  BY <1>1, FS_Surjection
<1>3. SetToSeq(releases) \in Seq(releases) /\ Range(SetToSeq(releases)) = releases
  BY <1>2, SequenceOfFinite
<1>4. releases \subseteq Commands
  BY DEF ReleaseOf, Command, Commands
<1>5. SetToSeq(releases) \in Seq(Commands)
  BY <1>3, <1>4
<1>6. ReleaseBuffers(names) = SetToSeq(releases)
  BY DEF ReleaseBuffers, ReleaseOf
<1> QED BY <1>3, <1>5, <1>6

LEMMA ReleaseOfStream ==
  ASSUME NEW s \in Streams \cup {NoStream}
  PROVE  /\ ReleaseTextureStream(s) \in Seq(Commands)
         /\ Range(ReleaseTextureStream(s)) =
              IF s = NoStream THEN {} ELSE {Command("ReleaseTextureStream", s, None, None)}
<1>1. CASE s = NoStream
  BY <1>1 DEF ReleaseTextureStream, Range
<1>2. CASE s # NoStream
  <2>1. Command("ReleaseTextureStream", s, None, None) \in Commands
    BY <1>2 DEF Command, Commands
  <2>2. ReleaseTextureStream(s) = <<Command("ReleaseTextureStream", s, None, None)>>
    BY <1>2 DEF ReleaseTextureStream
  <2> QED BY <1>2, <2>1, <2>2 DEF Range
<1> QED BY <1>1, <1>2

LEMMA RangeOfConcat ==
  ASSUME NEW S, NEW a \in Seq(S), NEW b \in Seq(S)
  PROVE  a \o b \in Seq(S) /\ Range(a \o b) = Range(a) \cup Range(b)
<1>1. /\ a \o b \in Seq(S) /\ Len(a) \in Nat /\ Len(b) \in Nat
      /\ Len(a \o b) = Len(a) + Len(b)
      /\ DOMAIN a = 1 .. Len(a) /\ DOMAIN b = 1 .. Len(b) /\ DOMAIN (a \o b) = 1 .. Len(a \o b)
      /\ \A i \in 1 .. Len(a) : (a \o b)[i] = a[i]
      /\ \A i \in Len(a) + 1 .. Len(a) + Len(b) : (a \o b)[i] = b[i - Len(a)]
  OBVIOUS
<1> DEFINE c == a \o b
<1> HIDE DEF c
<1>2. ASSUME NEW i \in DOMAIN c PROVE c[i] \in Range(a) \cup Range(b)
  <2>1. CASE i \in 1 .. Len(a)
    BY <1>1, <2>1 DEF Range, c
  <2>2. CASE i \in Len(a) + 1 .. Len(a) + Len(b)
    <3>1. i - Len(a) \in 1 .. Len(b)
      BY <1>1, <2>2
    <3> QED BY <1>1, <2>2, <3>1 DEF Range, c
  <2> QED BY <1>1, <1>2, <2>1, <2>2 DEF c
<1>3. ASSUME NEW i \in DOMAIN a PROVE a[i] \in Range(c)
  <2>1. i \in DOMAIN c /\ c[i] = a[i]
    BY <1>1 DEF c
  <2> QED BY <2>1 DEF Range
<1>4. ASSUME NEW i \in DOMAIN b PROVE b[i] \in Range(c)
  <2>1. Len(a) + i \in DOMAIN c /\ c[Len(a) + i] = b[i]
    <3>1. Len(a) + i \in Len(a) + 1 .. Len(a) + Len(b) /\ Len(a) + i - Len(a) = i
      BY <1>1
    <3> QED BY <1>1, <3>1 DEF c
  <2> QED BY <2>1 DEF Range
<1>5. Range(c) \subseteq Range(a) \cup Range(b)
  BY <1>2 DEF Range
<1>6. Range(a) \cup Range(b) \subseteq Range(c)
  BY <1>3, <1>4 DEF Range
<1> QED BY <1>1, <1>5, <1>6 DEF c

(* What each action of an updater sends.                                   *)
TextureCommands(u, s, h) ==
  ReleaseBuffers(Expired(u)) \o <<CopyTexture(s, h)>> \o ReleaseShown(u, s)
MemoryCommands(u, n) == ReleaseBuffers(Expired(u)) \o <<UpdateTexture(n)>>
LastCommands(u) == ReleaseTextureStream(streamName[u]) \o ReleaseBuffers(bufferMap[u])

LEMMA TextureCommandsAre ==
  ASSUME TypeInv, NEW u \in Updaters, NEW s \in Streams, NEW h \in Handles
  PROVE  /\ TextureCommands(u, s, h) \in Seq(Commands)
         /\ Range(TextureCommands(u, s, h)) =
              {ReleaseOf(n) : n \in Expired(u)} \cup {CopyTexture(s, h)} \cup Range(ReleaseShown(u, s))
         /\ Range(ReleaseShown(u, s)) =
              IF streamName[u] \in {s, NoStream} THEN {}
              ELSE {Command("ReleaseTextureStream", streamName[u], None, None)}
<1>1. Expired(u) \in SUBSET Names /\ IsFiniteSet(Expired(u))
  <2>1. bufferMap[u] \in SUBSET Names /\ Expired(u) \in SUBSET bufferMap[u]
    BY DEF TypeInv, SharingTypeOK, Expired
  <2> QED BY <2>1, FS_Subset DEF TypeInv
<1>2. /\ ReleaseBuffers(Expired(u)) \in Seq(Commands)
      /\ Range(ReleaseBuffers(Expired(u))) = {ReleaseOf(n) : n \in Expired(u)}
  BY <1>1, ReleasesOfAll
<1>3. <<CopyTexture(s, h)>> \in Seq(Commands) /\ Range(<<CopyTexture(s, h)>>) = {CopyTexture(s, h)}
  <2>1. CopyTexture(s, h) \in Commands
    BY DEF CopyTexture, Command, Commands
  <2> QED BY <2>1 DEF Range
<1>4. streamName[u] \in Streams \cup {NoStream}
  BY DEF TypeInv, SharingTypeOK
<1>5. /\ ReleaseShown(u, s) \in Seq(Commands)
      /\ Range(ReleaseShown(u, s)) =
           IF streamName[u] \in {s, NoStream} THEN {}
           ELSE {Command("ReleaseTextureStream", streamName[u], None, None)}
  <2>1. CASE s = streamName[u]
    BY <2>1 DEF ReleaseShown, Range
  <2>2. CASE s # streamName[u]
    BY <1>4, <2>2, ReleaseOfStream DEF ReleaseShown
  <2> QED BY <2>1, <2>2
<1> DEFINE given == ReleaseBuffers(Expired(u))
           copy == <<CopyTexture(s, h)>>
           shown == ReleaseShown(u, s)
<1>6. TextureCommands(u, s, h) = given \o copy \o shown
  BY DEF TextureCommands
<1>7. given \in Seq(Commands) /\ copy \in Seq(Commands) /\ shown \in Seq(Commands)
  BY <1>2, <1>3, <1>5
<1> HIDE DEF given, copy, shown
<1> DEFINE both == given \o copy
<1>8. both \in Seq(Commands) /\ Range(both) = Range(given) \cup Range(copy)
  BY <1>7, RangeOfConcat
<1>9. TextureCommands(u, s, h) = both \o shown
  BY <1>6
<1> HIDE DEF both
<1>10. both \o shown \in Seq(Commands) /\ Range(both \o shown) = Range(both) \cup Range(shown)
  BY <1>7, <1>8, RangeOfConcat
<1> QED BY <1>2, <1>3, <1>5, <1>8, <1>9, <1>10 DEF given, copy, shown

LEMMA MemoryCommandsAre ==
  ASSUME TypeInv, NEW u \in Updaters, NEW n \in Names
  PROVE  /\ MemoryCommands(u, n) \in Seq(Commands)
         /\ Range(MemoryCommands(u, n)) = {ReleaseOf(m) : m \in Expired(u)} \cup {UpdateTexture(n)}
<1>1. Expired(u) \in SUBSET Names /\ IsFiniteSet(Expired(u))
  <2>1. bufferMap[u] \in SUBSET Names /\ Expired(u) \in SUBSET bufferMap[u]
    BY DEF TypeInv, SharingTypeOK, Expired
  <2> QED BY <2>1, FS_Subset DEF TypeInv
<1>2. /\ ReleaseBuffers(Expired(u)) \in Seq(Commands)
      /\ Range(ReleaseBuffers(Expired(u))) = {ReleaseOf(m) : m \in Expired(u)}
  BY <1>1, ReleasesOfAll
<1>3. <<UpdateTexture(n)>> \in Seq(Commands) /\ Range(<<UpdateTexture(n)>>) = {UpdateTexture(n)}
  <2>1. UpdateTexture(n) \in Commands
    BY DEF UpdateTexture, Command, Commands
  <2> QED BY <2>1 DEF Range
<1> DEFINE given == ReleaseBuffers(Expired(u))
           update == <<UpdateTexture(n)>>
<1>4. MemoryCommands(u, n) = given \o update
  BY DEF MemoryCommands
<1>5. given \in Seq(Commands) /\ update \in Seq(Commands)
  BY <1>2, <1>3
<1> HIDE DEF given, update
<1>6. given \o update \in Seq(Commands) /\ Range(given \o update) = Range(given) \cup Range(update)
  BY <1>5, RangeOfConcat
<1> QED BY <1>2, <1>3, <1>4, <1>6 DEF given, update

LEMMA LastCommandsAre ==
  ASSUME TypeInv, NEW u \in Updaters
  PROVE  /\ LastCommands(u) \in Seq(Commands)
         /\ Range(LastCommands(u)) = {ReleaseOf(n) : n \in bufferMap[u]} \cup
              (IF streamName[u] = NoStream THEN {}
               ELSE {Command("ReleaseTextureStream", streamName[u], None, None)})
<1>1. /\ bufferMap[u] \in SUBSET Names /\ IsFiniteSet(bufferMap[u])
      /\ streamName[u] \in Streams \cup {NoStream}
  BY DEF TypeInv, SharingTypeOK
<1>2. /\ ReleaseBuffers(bufferMap[u]) \in Seq(Commands)
      /\ Range(ReleaseBuffers(bufferMap[u])) = {ReleaseOf(n) : n \in bufferMap[u]}
  BY <1>1, ReleasesOfAll
<1>3. /\ ReleaseTextureStream(streamName[u]) \in Seq(Commands)
      /\ Range(ReleaseTextureStream(streamName[u])) =
           IF streamName[u] = NoStream THEN {}
           ELSE {Command("ReleaseTextureStream", streamName[u], None, None)}
  BY <1>1, ReleaseOfStream
<1> QED BY <1>2, <1>3, RangeOfConcat DEF LastCommands

LEMMA ConcatTwice ==
  ASSUME NEW S, NEW a \in Seq(S), NEW b \in Seq(S), NEW c \in Seq(S)
  PROVE  a \o b \o c = a \o (b \o c) /\ a \o (b \o c) \in Seq(S)
OBVIOUS

LEMMA ConcatThrice ==
  ASSUME NEW S, NEW a \in Seq(S), NEW b \in Seq(S), NEW c \in Seq(S), NEW d \in Seq(S)
  PROVE  a \o b \o c \o d = a \o (b \o c \o d) /\ a \o (b \o c \o d) \in Seq(S)
<1> DEFINE bc == b \o c
<1>1. bc \in Seq(S) /\ (a \o b) \o c = a \o bc
  OBVIOUS
<1> HIDE DEF bc
<1>2. (a \o bc) \o d = a \o (bc \o d) /\ a \o (bc \o d) \in Seq(S)
  BY <1>1
<1> QED BY <1>1, <1>2 DEF bc

Sends(more) == commands' = commands \o more /\ commands' \in Seq(Commands)

LEMMA DrawAppends ==
  ASSUME TypeInv, NEW u \in Updaters
  PROVE  /\ \A s \in Streams, h \in Handles :
              DrawTexture(u, s, h) => Sends(TextureCommands(u, s, h))
         /\ \A n \in Names : DrawMemory(u, n) => Sends(MemoryCommands(u, n))
         /\ DestroyUpdater(u) => Sends(LastCommands(u))
<1>1. commands \in Seq(Commands)
  BY DEF TypeInv, SharingTypeOK
<1>2. Expired(u) \in SUBSET Names /\ IsFiniteSet(Expired(u))
  <2>1. bufferMap[u] \in SUBSET Names /\ Expired(u) \in SUBSET bufferMap[u]
    BY DEF TypeInv, SharingTypeOK, Expired
  <2> QED BY <2>1, FS_Subset DEF TypeInv
<1>3. ReleaseBuffers(Expired(u)) \in Seq(Commands)
  BY <1>2, ReleasesOfAll
<1>4. bufferMap[u] \in SUBSET Names /\ IsFiniteSet(bufferMap[u]) /\ streamName[u] \in Streams \cup {NoStream}
  BY DEF TypeInv, SharingTypeOK
<1>5. ReleaseBuffers(bufferMap[u]) \in Seq(Commands) /\ ReleaseTextureStream(streamName[u]) \in Seq(Commands)
  BY <1>4, ReleasesOfAll, ReleaseOfStream
<1>6. ASSUME NEW s \in Streams, NEW h \in Handles, DrawTexture(u, s, h)
      PROVE  Sends(TextureCommands(u, s, h))
  <2> DEFINE copy == <<CopyTexture(s, h)>>
             shown == ReleaseShown(u, s)
             given == ReleaseBuffers(Expired(u))
  <2>1. copy \in Seq(Commands) /\ shown \in Seq(Commands)
    BY <1>4, ReleaseOfStream DEF ReleaseShown, CopyTexture, Command, Commands
  <2>2. commands' = commands \o given \o copy \o shown
    BY <1>6 DEF DrawTexture
  <2>3. TextureCommands(u, s, h) = given \o copy \o shown
    BY DEF TextureCommands
  <2>4. given \in Seq(Commands)
    BY <1>3
  <2> HIDE DEF given, copy, shown
  <2>5. /\ commands \o given \o copy \o shown = commands \o (given \o copy \o shown)
        /\ commands \o (given \o copy \o shown) \in Seq(Commands)
    BY <1>1, <2>1, <2>4, ConcatThrice
  <2> QED BY <2>2, <2>3, <2>5 DEF Sends
<1>7. ASSUME NEW n \in Names, DrawMemory(u, n)
      PROVE  Sends(MemoryCommands(u, n))
  <2> DEFINE update == <<UpdateTexture(n)>>
             given == ReleaseBuffers(Expired(u))
  <2>1. update \in Seq(Commands) /\ given \in Seq(Commands)
    BY <1>3 DEF UpdateTexture, Command, Commands
  <2>2. commands' = commands \o given \o update /\ MemoryCommands(u, n) = given \o update
    BY <1>7 DEF DrawMemory, MemoryCommands
  <2> HIDE DEF given, update
  <2>3. /\ commands \o given \o update = commands \o (given \o update)
        /\ commands \o (given \o update) \in Seq(Commands)
    BY <1>1, <2>1, ConcatTwice
  <2> QED BY <2>2, <2>3 DEF Sends
<1>8. ASSUME DestroyUpdater(u)
      PROVE  Sends(LastCommands(u))
  <2> DEFINE stream == ReleaseTextureStream(streamName[u])
             memory == ReleaseBuffers(bufferMap[u])
  <2>1. commands' = commands \o stream \o memory /\ LastCommands(u) = stream \o memory
    BY <1>8 DEF DestroyUpdater, LastCommands
  <2>2. stream \in Seq(Commands) /\ memory \in Seq(Commands)
    BY <1>5
  <2> HIDE DEF stream, memory
  <2>3. /\ commands \o stream \o memory = commands \o (stream \o memory)
        /\ commands \o (stream \o memory) \in Seq(Commands)
    BY <1>1, <2>2, ConcatTwice
  <2> QED BY <2>1, <2>3 DEF Sends
<1> QED BY <1>6, <1>7, <1>8

(***************************************************************************)
(* The last part of a sequence, and what a use makes of both.  The places  *)
(* are computed first, without the sequences.                              *)
(***************************************************************************)
Ends(use, m, seq, n) == \A i \in 1 .. m : use[i] = seq[n - m + i]
IsEnd(use, seq) == Len(use) <= Len(seq) /\ Ends(use, Len(use), seq, Len(seq))

(* The k-th of the n elements has moved to the end.                        *)
Moved(used, use, n, k, h) ==
  \A i \in 1 .. n : used[i] = IF i < k THEN use[i] ELSE IF i < n THEN use[i + 1] ELSE h

LEMMA PlacesOfOld ==
  ASSUME NEW n \in Nat, NEW m \in 0 .. n, NEW k \in 1 .. m, NEW h,
         NEW use, NEW seq, NEW used, NEW seen,
         Ends(use, m, seq, n), Moved(used, use, m, k, h), Moved(seen, seq, n, n - m + k, h)
  PROVE  Ends(used, m, seen, n)
<1> SUFFICES ASSUME NEW i \in 1 .. m PROVE used[i] = seen[n - m + i]
  BY DEF Ends
<1> USE DEF Ends, Moved
<1>1. n - m + i \in 1 .. n
  OBVIOUS
<1>2. CASE i < k
  <2>1. n - m + i < n - m + k
    BY <1>2
  <2> QED BY <1>1, <1>2, <2>1
<1>3. CASE ~(i < k) /\ i < m
  <2>1. ~(n - m + i < n - m + k) /\ n - m + i < n /\ i + 1 \in 1 .. m
    BY <1>3
  <2>2. use[i + 1] = seq[n - m + (i + 1)] /\ n - m + (i + 1) = n - m + i + 1
    BY <2>1
  <2>3. used[i] = use[i + 1] /\ seen[n - m + i] = seq[n - m + i + 1]
    BY <1>1, <1>3, <2>1
  <2> QED BY <2>2, <2>3
<1>4. CASE ~(i < k) /\ ~(i < m)
  <2>1. ~(n - m + i < n - m + k) /\ ~(n - m + i < n)
    BY <1>4
  <2> QED BY <1>1, <1>4, <2>1
<1> QED BY <1>2, <1>3, <1>4

(* The element used was further from the end, at k, or not there (k = 0).  *)
LEMMA PlacesOfNew ==
  ASSUME NEW n \in Nat, NEW m \in 1 .. n, NEW k \in 0 .. n - m, NEW h,
         NEW use, NEW seq, NEW used, NEW seen,
         Ends(use, m, seq, n), Moved(used, use, m, 1, h),
         k = 0 => Moved(seen, seq, n + 1, n + 1, h),
         k # 0 => Moved(seen, seq, n, k, h)
  PROVE  Ends(used, m, seen, IF k = 0 THEN n + 1 ELSE n)
<1> SUFFICES ASSUME NEW i \in 1 .. m
             PROVE  /\ k = 0 => used[i] = seen[n + 1 - m + i]
                    /\ k # 0 => used[i] = seen[n - m + i]
  BY DEF Ends
<1> USE DEF Ends, Moved
<1>1. CASE k = 0 /\ i < m
  <2>1. i + 1 \in 1 .. m /\ n - m + (i + 1) \in 1 .. n /\ n + 1 - m + i = n - m + (i + 1)
    BY <1>1
  <2>2. used[i] = use[i + 1] /\ use[i + 1] = seq[n - m + (i + 1)]
    BY <1>1, <2>1
  <2>3. seen[n - m + (i + 1)] = seq[n - m + (i + 1)]
    BY <1>1, <2>1
  <2> QED BY <1>1, <2>1, <2>2, <2>3
<1>2. CASE k = 0 /\ ~(i < m)
  <2>1. n + 1 - m + i = n + 1
    BY <1>2
  <2> QED BY <1>2, <2>1
<1>3. CASE k # 0 /\ i < m
  <2>1. i + 1 \in 1 .. m /\ n - m + i \in 1 .. n /\ ~(n - m + i < k) /\ n - m + i < n
    BY <1>3
  <2>2. used[i] = use[i + 1] /\ use[i + 1] = seq[n - m + (i + 1)] /\ n - m + (i + 1) = n - m + i + 1
    BY <1>3, <2>1
  <2>3. seen[n - m + i] = seq[n - m + i + 1]
    BY <1>3, <2>1
  <2> QED BY <1>3, <2>2, <2>3
<1>4. CASE k # 0 /\ ~(i < m)
  <2>1. n - m + i = n /\ n \in 1 .. n /\ ~(n < k)
    BY <1>4
  <2> QED BY <1>4, <2>1
<1> QED BY <1>1, <1>2, <1>3, <1>4

LEMMA EndIsDistinct ==
  ASSUME NEW S, NEW use \in Seq(S), NEW seq \in Seq(S), Distinct(seq), IsEnd(use, seq)
  PROVE  Distinct(use)
<1> DEFINE n == Len(seq)
           m == Len(use)
<1>1. n \in Nat /\ m \in 0 .. n
  BY DEF IsEnd
<1> SUFFICES ASSUME NEW i \in 1 .. m, NEW j \in 1 .. m, use[i] = use[j]
             PROVE  i = j
  BY DEF Distinct
<1>2. seq[n - m + i] = seq[n - m + j]
  BY DEF IsEnd, Ends
<1>3. n - m + i \in 1 .. n /\ n - m + j \in 1 .. n
  BY <1>1
<1>4. n - m + i = n - m + j
  BY <1>2, <1>3 DEF Distinct
<1> QED BY <1>1, <1>4

LEMMA EndOfOld ==
  ASSUME NEW S, NEW use \in Seq(S), NEW seq \in Seq(S), Distinct(seq), IsEnd(use, seq),
         NEW h \in Range(use)
  PROVE  /\ IsEnd(Use(use, h), Use(seq, h))
         /\ Len(Use(use, h)) = Len(use) /\ Len(Use(seq, h)) = Len(seq)
<1> DEFINE n == Len(seq)
           m == Len(use)
<1>1. n \in Nat /\ m \in 0 .. n /\ Distinct(use) /\ DOMAIN use = 1 .. m
  BY EndIsDistinct DEF IsEnd
<1>2. PICK k \in 1 .. m : use[k] = h
  BY <1>1 DEF Range
<1>3. n - m + k \in 1 .. n /\ seq[n - m + k] = h
  BY <1>1, <1>2 DEF IsEnd, Ends
<1>4. /\ Len(Use(use, h)) = m
      /\ \A i \in 1 .. m : Use(use, h)[i] =
           IF i < k THEN use[i] ELSE IF i < m THEN use[i + 1] ELSE h
  BY <1>1, <1>2, UseOfOld
<1>5. /\ Len(Use(seq, h)) = n
      /\ \A i \in 1 .. n : Use(seq, h)[i] =
           IF i < n - m + k THEN seq[i] ELSE IF i < n THEN seq[i + 1] ELSE h
  BY <1>1, <1>3, UseOfOld
<1> DEFINE used == Use(use, h)
           seen == Use(seq, h)
<1>6. Moved(used, use, m, k, h) /\ Moved(seen, seq, n, n - m + k, h) /\ Ends(use, m, seq, n)
  BY <1>4, <1>5 DEF Moved, IsEnd
<1>7. Len(used) = m /\ Len(seen) = n /\ m <= n
  BY <1>1, <1>4, <1>5
<1> HIDE DEF n, m, used, seen
<1>8. Ends(used, m, seen, n)
  BY <1>1, <1>2, <1>6, PlacesOfOld
<1>9. IsEnd(used, seen)
  BY <1>7, <1>8 DEF IsEnd
<1> QED BY <1>7, <1>9 DEF n, m, used, seen

LEMMA TailRange ==
  ASSUME NEW S, NEW use \in Seq(S), use # <<>>, Distinct(use)
  PROVE  /\ Tail(use) \in Seq(S) /\ Len(Tail(use)) = Len(use) - 1
         /\ \A i \in 1 .. Len(use) - 1 : Tail(use)[i] = use[i + 1]
         /\ Range(Tail(use)) = Range(use) \ {Head(use)}
<1> DEFINE rest == Tail(use)
           m == Len(use)
<1>1. /\ m \in Nat \ {0} /\ rest \in Seq(S) /\ Len(rest) = m - 1
      /\ \A i \in 1 .. m - 1 : rest[i] = use[i + 1]
      /\ Head(use) = use[1] /\ DOMAIN use = 1 .. m /\ DOMAIN rest = 1 .. m - 1
  OBVIOUS
<1> HIDE DEF rest, m
<1>2. ASSUME NEW i \in 1 .. m - 1 PROVE rest[i] \in Range(use) /\ rest[i] # use[1]
  <2>1. i + 1 \in 1 .. m /\ i + 1 # 1 /\ 1 \in 1 .. m
    BY <1>1
  <2>2. use[i + 1] # use[1]
    BY <2>1 DEF Distinct, m
  <2> QED BY <1>1, <2>1, <2>2 DEF Range
<1>3. ASSUME NEW i \in 1 .. m, i # 1 PROVE use[i] \in Range(rest)
  <2>1. i - 1 \in 1 .. m - 1 /\ i - 1 + 1 = i
    BY <1>1, <1>3
  <2>2. rest[i - 1] = use[i]
    BY <1>1, <2>1
  <2> QED BY <1>1, <2>1, <2>2 DEF Range
<1>4. Range(rest) \subseteq Range(use) \ {use[1]}
  BY <1>1, <1>2 DEF Range
<1>5. Range(use) \ {use[1]} \subseteq Range(rest)
  BY <1>1, <1>3 DEF Range
<1> QED BY <1>1, <1>4, <1>5 DEF rest, m

LEMMA EndOfNew ==
  ASSUME NEW S, NEW use \in Seq(S), NEW seq \in Seq(S), Distinct(seq), IsEnd(use, seq),
         use # <<>>, NEW h \in S, h \notin Range(use)
  PROVE  /\ Use(Tail(use), h) = Append(Tail(use), h)
         /\ IsEnd(Append(Tail(use), h), Use(seq, h))
         /\ Len(Append(Tail(use), h)) = Len(use) /\ Len(Use(seq, h)) >= Len(seq)
<1> DEFINE n == Len(seq)
           m == Len(use)
           used == Append(Tail(use), h)
           seen == Use(seq, h)
<1>1. n \in Nat /\ m \in 1 .. n /\ DOMAIN seq = 1 .. n /\ DOMAIN use = 1 .. m /\ Distinct(use)
  BY EndIsDistinct DEF IsEnd
<1>2. /\ Tail(use) \in Seq(S) /\ Len(Tail(use)) = m - 1
      /\ \A i \in 1 .. m - 1 : Tail(use)[i] = use[i + 1]
      /\ h \notin Range(Tail(use))
  BY <1>1, TailRange
<1>3. Use(Tail(use), h) = used
  BY <1>2, UseOfNew
<1>4. Len(used) = m /\ Moved(used, use, m, 1, h)
  <2>1. /\ Len(used) = m /\ used[m] = h /\ m \in Nat
        /\ \A i \in 1 .. m - 1 : used[i] = Tail(use)[i]
    BY <1>1, <1>2
  <2> HIDE DEF used, m
  <2>2. ASSUME NEW i \in 1 .. m PROVE used[i] = IF i < m THEN use[i + 1] ELSE h
    BY <1>2, <2>1
  <2>3. ASSUME NEW i \in 1 .. m PROVE ~(i < 1)
    BY <2>1
  <2> QED BY <2>1, <2>2, <2>3 DEF Moved
<1>5. Ends(use, m, seq, n) /\ Distinct(seq)
  BY DEF IsEnd
<1>6. CASE h \notin Range(seq)
  <2>1. seen = Append(seq, h)
    BY <1>6, UseOfNew
  <2>2. /\ Len(seen) = n + 1 /\ seen[n + 1] = h /\ \A i \in 1 .. n : seen[i] = seq[i]
    BY <2>1
  <2> HIDE DEF n, m, used, seen
  <2>3. 0 \in 0 .. n - m /\ m <= n + 1 /\ n + 1 >= n
    BY <1>1
  <2>4. Moved(seen, seq, n + 1, n + 1, h)
    BY <1>1, <2>2 DEF Moved
  <2>5. Ends(used, m, seen, n + 1)
    BY <1>1, <1>4, <1>5, <2>3, <2>4, PlacesOfNew
  <2>6. IsEnd(used, seen)
    BY <1>4, <2>2, <2>3, <2>5 DEF IsEnd
  <2> QED BY <1>3, <1>4, <2>2, <2>3, <2>6 DEF n, m, used, seen
<1>7. CASE h \in Range(seq)
  <2>1. PICK k \in 1 .. n : seq[k] = h
    BY <1>1, <1>7 DEF Range
  <2>2. Len(seen) = n /\ Moved(seen, seq, n, k, h)
    BY <2>1, UseOfOld DEF Moved
  <2>3. k \in 0 .. n - m /\ k # 0
    <3>1. SUFFICES ASSUME k > n - m PROVE FALSE
      BY <1>1
    <3>2. k - (n - m) \in 1 .. m /\ n - m + (k - (n - m)) = k
      BY <1>1, <3>1
    <3>3. use[k - (n - m)] = h
      BY <1>5, <2>1, <3>2 DEF Ends
    <3> QED BY <1>1, <3>2, <3>3 DEF Range
  <2> HIDE DEF n, m, used, seen
  <2>4. Ends(used, m, seen, n)
    BY <1>1, <1>4, <1>5, <2>2, <2>3, PlacesOfNew
  <2>5. m <= n /\ n >= n
    BY <1>1
  <2>6. IsEnd(used, seen)
    BY <1>4, <2>2, <2>4, <2>5 DEF IsEnd
  <2> QED BY <1>3, <1>4, <2>2, <2>5, <2>6 DEF n, m, used, seen
<1> QED BY <1>6, <1>7

(***************************************************************************)
(* A stream's pool, and all handles of the stream, each once: use_ is the  *)
(* last part of them, and texture_map_ has the same handles.               *)
(***************************************************************************)
PoolIs(pool, seq) ==
  /\ pool.textures = Range(pool.use)
  /\ IsEnd(pool.use, seq)
  /\ Len(pool.use) = IF Len(seq) < TargetSurfaceCount THEN Len(seq) ELSE TargetSurfaceCount

LEMMA CardinalityOfDistinct ==
  ASSUME NEW S, NEW use \in Seq(S), Distinct(use)
  PROVE  IsFiniteSet(Range(use)) /\ Cardinality(Range(use)) = Len(use)
<1>1. Len(use) \in Nat /\ DOMAIN use = 1 .. Len(use)
  OBVIOUS
<1>2. use \in [1 .. Len(use) -> Range(use)]
  BY <1>1 DEF Range
<1>3. IsInjective(use)
  BY <1>1 DEF IsInjective, Distinct
<1>4. use \in Surjection(1 .. Len(use), Range(use))
  BY <1>1, <1>2 DEF Surjection, Range
<1>5. use \in Bijection(1 .. Len(use), Range(use))
  BY <1>2, <1>3, <1>4 DEF Bijection, Injection
<1> QED BY <1>1, <1>5, FS_CountingElements, FS_NatBijection DEF ExistsBijection

LEMMA WholeIsEnd ==
  ASSUME NEW S, NEW use \in Seq(S), NEW seq \in Seq(S), IsEnd(use, seq)
  PROVE  Len(use) = Len(seq) => use = seq
<1> SUFFICES ASSUME Len(use) = Len(seq) PROVE use = seq
  OBVIOUS
<1>1. Len(seq) \in Nat /\ DOMAIN use = 1 .. Len(seq) /\ DOMAIN seq = 1 .. Len(seq)
  OBVIOUS
<1>2. ASSUME NEW i \in 1 .. Len(seq) PROVE use[i] = seq[i]
  <2>1. Len(seq) - Len(seq) + i = i
    BY <1>1
  <2> QED BY <2>1 DEF IsEnd, Ends
<1> QED BY <1>1, <1>2

LEMMA IsItsOwnEnd ==
  ASSUME NEW S, NEW seq \in Seq(S)
  PROVE  IsEnd(seq, seq)
<1>1. Len(seq) \in Nat /\ \A i \in 1 .. Len(seq) : Len(seq) - Len(seq) + i = i
  OBVIOUS
<1> QED BY <1>1 DEF IsEnd, Ends

(* A texture of the stream moves to the end.                               *)
LEMMA PoolUsesOld ==
  ASSUME NEW pool \in Pools, NEW seq \in Seq(Handles), Distinct(seq), PoolIs(pool, seq),
         NEW h \in pool.textures
  PROVE  /\ Pool(Use(pool.use, h), pool.textures) \in Pools
         /\ PoolIs(Pool(Use(pool.use, h), pool.textures), Use(seq, h))
<1>1. pool.use \in Seq(Handles) /\ pool.textures \in SUBSET Handles /\ h \in Handles
  BY DEF Pools
<1>2. h \in Range(pool.use) /\ IsEnd(pool.use, seq)
  BY DEF PoolIs
<1>3. Distinct(pool.use)
  BY <1>1, <1>2, EndIsDistinct
<1>4. /\ Use(pool.use, h) \in Seq(Handles)
      /\ Range(Use(pool.use, h)) = pool.textures
  <2>1. /\ Use(pool.use, h) \in Seq(Handles)
        /\ Range(Use(pool.use, h)) = Range(pool.use) \cup {h}
    BY <1>1, <1>3, UseKeeps
  <2> QED BY <1>2, <2>1 DEF PoolIs
<1>5. /\ IsEnd(Use(pool.use, h), Use(seq, h))
      /\ Len(Use(pool.use, h)) = Len(pool.use) /\ Len(Use(seq, h)) = Len(seq)
  BY <1>1, <1>2, EndOfOld
<1> QED BY <1>1, <1>4, <1>5 DEF PoolIs, Pool, Pools

(* One that is new is added: for the oldest, when there is no room.        *)
LEMMA PoolUsesNew ==
  ASSUME NEW pool \in Pools, NEW seq \in Seq(Handles), Distinct(seq), PoolIs(pool, seq),
         NEW h \in Handles, h \notin pool.textures
  PROVE  LET room == MakeRoom(pool)
             used == Pool(Use(room.use, h), room.textures \cup {h})
         IN  room \in Pools /\ used \in Pools /\ PoolIs(used, Use(seq, h))
<1> DEFINE use == pool.use
           n == Len(seq)
           m == Len(use)
           room == MakeRoom(pool)
           used == Pool(Use(room.use, h), room.textures \cup {h})
<1>1. /\ use \in Seq(Handles) /\ pool.textures \in SUBSET Handles /\ h \notin Range(use)
      /\ IsEnd(use, seq) /\ pool.textures = Range(use)
      /\ n \in Nat /\ m \in Nat /\ TargetSurfaceCount \in Nat \ {0}
      /\ m = IF n < TargetSurfaceCount THEN n ELSE TargetSurfaceCount
  BY SharingAssumption DEF Pools, PoolIs
<1>2. Distinct(use)
  BY <1>1, EndIsDistinct
<1>3. Cardinality(pool.textures) = m
  BY <1>1, <1>2, CardinalityOfDistinct
<1>4. CASE m < TargetSurfaceCount
  <2>1. room = pool /\ m = n
    BY <1>1, <1>3, <1>4 DEF MakeRoom
  <2>2. use = seq
    BY <1>1, <2>1, WholeIsEnd
  <2>3. /\ Use(use, h) \in Seq(Handles) /\ Range(Use(use, h)) = Range(use) \cup {h}
    BY <1>1, <1>2, UseKeeps
  <2>4. Len(Use(use, h)) = m + 1
    BY <1>1, UseOfNew
  <2>5. IsEnd(Use(use, h), Use(use, h))
    BY <2>3, IsItsOwnEnd
  <2>6. used = Pool(Use(use, h), pool.textures \cup {h})
    BY <2>1
  <2>7. used.use = Use(use, h) /\ used.textures = pool.textures \cup {h} /\ used \in Pools
    BY <1>1, <2>3, <2>6 DEF Pool, Pools
  <2>8. m + 1 = IF m + 1 < TargetSurfaceCount THEN m + 1 ELSE TargetSurfaceCount
    BY <1>1, <1>4
  <2> HIDE DEF used, m, use, n
  <2>9. PoolIs(used, Use(seq, h))
    BY <1>1, <2>2, <2>3, <2>4, <2>5, <2>7, <2>8 DEF PoolIs
  <2> QED BY <2>1, <2>7, <2>9 DEF used
<1>5. CASE ~(m < TargetSurfaceCount)
  <2>1. m = TargetSurfaceCount /\ use # <<>> /\ n >= TargetSurfaceCount
    BY <1>1, <1>5
  <2>2. room = Pool(Tail(use), pool.textures \ {Head(use)})
    BY <1>1, <1>3, <2>1 DEF MakeRoom, RemoveOldestUsed
  <2>3. Tail(use) \in Seq(Handles) /\ Range(Tail(use)) = Range(use) \ {Head(use)}
    BY <1>1, <1>2, <2>1, TailRange
  <2>4. /\ Use(Tail(use), h) = Append(Tail(use), h)
        /\ IsEnd(Append(Tail(use), h), Use(seq, h))
        /\ Len(Append(Tail(use), h)) = m /\ Len(Use(seq, h)) >= n
    BY <1>1, <2>1, EndOfNew
  <2>5. Append(Tail(use), h) \in Seq(Handles)
    BY <2>3
  <2>6. Range(Append(Tail(use), h)) = Range(Tail(use)) \cup {h}
    BY <2>3 DEF Range
  <2>7. Use(seq, h) \in Seq(Handles) /\ Len(Use(seq, h)) \in Nat
    BY UseKeeps
  <2>8. room.use = Tail(use) /\ room.textures = pool.textures \ {Head(use)} /\ room \in Pools
    BY <1>1, <2>2, <2>3 DEF Pool, Pools
  <2>9. /\ used.use = Append(Tail(use), h)
        /\ used.textures = (pool.textures \ {Head(use)}) \cup {h} /\ used \in Pools
    BY <1>1, <2>4, <2>5, <2>8 DEF Pool, Pools
  <2>10. m = IF Len(Use(seq, h)) < TargetSurfaceCount THEN Len(Use(seq, h)) ELSE TargetSurfaceCount
    BY <1>1, <2>1, <2>4, <2>7
  <2> HIDE DEF used, m, use, n, room
  <2>11. PoolIs(used, Use(seq, h))
    BY <1>1, <2>3, <2>4, <2>6, <2>9, <2>10 DEF PoolIs
  <2> QED BY <2>8, <2>9, <2>11 DEF used, room
<1> QED BY <1>1, <1>4, <1>5

(* Whatever GetTexture does is a pool, and the pool of what was used last  *)
(* when it returns a texture.                                              *)
LEMMA GetTextureHolds ==
  ASSUME NEW pool \in Pools, NEW seq \in Seq(Handles), Distinct(seq), PoolIs(pool, seq),
         NEW h \in Handles, NEW got \in GetTexture(pool, h)
  PROVE  got.pool \in Pools /\ got.ok \in BOOLEAN /\ (got.ok => PoolIs(got.pool, Use(seq, h)))
<1>1. CASE h \in pool.textures
  <2>1. got.pool = Pool(Use(pool.use, h), pool.textures) /\ got.ok = TRUE
    BY <1>1 DEF GetTexture
  <2> QED BY <1>1, <2>1, PoolUsesOld
<1>2. CASE h \notin pool.textures
  <2> DEFINE room == MakeRoom(pool)
             used == Pool(Use(room.use, h), room.textures \cup {h})
  <2>1. PICK bound \in BOOLEAN : got = [pool |-> IF bound THEN used ELSE room, ok |-> bound]
    BY <1>2 DEF GetTexture, Bind
  <2>2. room \in Pools /\ used \in Pools /\ PoolIs(used, Use(seq, h))
    BY <1>2, PoolUsesNew
  <2> HIDE DEF room, used
  <2> QED BY <2>1, <2>2
<1> QED BY <1>1, <1>2

(* While the decoder is up; a failed command is the last.                  *)
PoolInv ==
  state = "up" => \A s \in Streams : Distinct(recent[s]) /\ PoolIs(StreamOf(s), recent[s])

LEMMA HeadOfCommands ==
  ASSUME TypeInv, commands # <<>>
  PROVE  /\ Head(commands) \in Commands /\ Tail(commands) \in Seq(Commands)
         /\ Head(commands).op \in {"CopyTexture", "ReleaseTextureStream"} =>
              Head(commands).stream \in Streams
         /\ Head(commands).op = "CopyTexture" => Head(commands).handle \in Handles
         /\ Head(commands).op \in {"UpdateTexture", "ReleaseBuffer"} => Head(commands).name \in Names
<1>1. Head(commands) \in Commands /\ Tail(commands) \in Seq(Commands)
  BY DEF TypeInv, SharingTypeOK
<1> QED BY <1>1 DEF Commands

LEMMA StreamIsPool ==
  ASSUME TypeInv, NEW s \in Streams
  PROVE  StreamOf(s) \in Pools
BY DEF TypeInv, SharingTypeOK, StreamOf, NewPool, Pool, Pools

(* What CopyTexture does to the stream it is for.                          *)
LEMMA CopyIs ==
  ASSUME TypeInv, PoolInv, HandleCopyTexture
  PROVE  \E s \in Streams, h \in Handles, pool \in Pools, ok \in BOOLEAN :
           /\ s = Head(commands).stream /\ h = Head(commands).handle
           /\ streams' = Keep(s, pool) /\ recent' = [recent EXCEPT ![s] = Use(recent[s], h)]
           /\ Use(recent[s], h) \in Seq(Handles) /\ Distinct(Use(recent[s], h))
           /\ ok => PoolIs(pool, Use(recent[s], h))
           /\ commands # <<>> /\ state = "up" /\ After(ok)
<1> DEFINE s == Head(commands).stream
           h == Head(commands).handle
<1>1. state = "up" /\ commands # <<>> /\ Head(commands).op = "CopyTexture"
  BY DEF HandleCopyTexture, Executing
<1>2. s \in Streams /\ h \in Handles
  BY <1>1, HeadOfCommands
<1>3. PICK got \in GetTexture(StreamOf(s), h), found \in BOOLEAN :
        /\ streams' = Keep(s, got.pool) /\ recent' = [recent EXCEPT ![s] = Use(@, h)]
        /\ After(got.ok /\ found)
  BY DEF HandleCopyTexture, DestinationFound
<1> HIDE DEF s, h
<1>4. Distinct(recent[s]) /\ PoolIs(StreamOf(s), recent[s]) /\ recent[s] \in Seq(Handles)
  BY <1>1, <1>2 DEF PoolInv, TypeInv, SharingTypeOK
<1>5. StreamOf(s) \in Pools
  BY <1>2, StreamIsPool
<1>6. got.pool \in Pools /\ got.ok \in BOOLEAN /\ (got.ok => PoolIs(got.pool, Use(recent[s], h)))
  BY <1>2, <1>4, <1>5, GetTextureHolds
<1>7. Use(recent[s], h) \in Seq(Handles) /\ Distinct(Use(recent[s], h))
  BY <1>2, <1>4, UseKeeps
<1>8. recent' = [recent EXCEPT ![s] = Use(recent[s], h)]
  BY <1>3
<1>9. PICK ok \in BOOLEAN : ok = (got.ok /\ found)
  OBVIOUS
<1>10. After(ok) /\ (ok => PoolIs(got.pool, Use(recent[s], h)))
  BY <1>3, <1>6, <1>9
<1> QED BY <1>1, <1>2, <1>3, <1>6, <1>7, <1>8, <1>10 DEF s, h

LEMMA TypeInvKept ==
  ASSUME TypeInv, PoolInv, [SharingNext]_sharingVars
  PROVE  TypeInv'
<1>0. commands \in Seq(Commands)
  BY DEF TypeInv, SharingTypeOK
<1>1. ASSUME NEW u \in Updaters, NEW s \in Streams, NEW h \in Handles, DrawTexture(u, s, h)
      PROVE  TypeInv'
  <2>1. commands' \in Seq(Commands)
    BY <1>1, DrawAppends DEF Sends
  <2>2. bufferMap' = [bufferMap EXCEPT ![u] = @ \ Expired(u)]
    BY <1>1 DEF DrawTexture
  <2>3. \A v \in Updaters : bufferMap'[v] \in SUBSET bufferMap[v] /\ bufferMap[v] \in SUBSET Names
    BY <2>2 DEF TypeInv, SharingTypeOK
  <2>4. \A v \in Updaters : IsFiniteSet(bufferMap'[v])
    BY <2>3, FS_Subset DEF TypeInv
  <2> QED BY <1>1, <2>1, <2>2, <2>3, <2>4 DEF TypeInv, SharingTypeOK, DrawTexture, serviceVars
<1>2. ASSUME NEW u \in Updaters, NEW n \in Names, DrawMemory(u, n)
      PROVE  TypeInv'
  <2>1. commands' \in Seq(Commands)
    BY <1>2, DrawAppends DEF Sends
  <2>2. bufferMap' = [bufferMap EXCEPT ![u] = (@ \ Expired(u)) \cup {n}]
    BY <1>2 DEF DrawMemory
  <2>3. \A v \in Updaters : bufferMap'[v] \in SUBSET (bufferMap[v] \cup {n}) /\ bufferMap[v] \in SUBSET Names
    BY <2>2 DEF TypeInv, SharingTypeOK
  <2>4. \A v \in Updaters : IsFiniteSet(bufferMap[v] \cup {n})
    BY FS_AddElement DEF TypeInv
  <2>5. \A v \in Updaters : IsFiniteSet(bufferMap'[v])
    BY <2>3, <2>4, FS_Subset
  <2> QED BY <1>2, <2>1, <2>2, <2>3, <2>5 DEF TypeInv, SharingTypeOK, DrawMemory, serviceVars
<1>3. ASSUME NEW u \in Updaters, DestroyUpdater(u)
      PROVE  TypeInv'
  <2>1. commands' \in Seq(Commands)
    BY <1>3, DrawAppends DEF Sends
  <2> QED BY <1>3, <2>1 DEF TypeInv, SharingTypeOK, DestroyUpdater, serviceVars
<1>4. ASSUME NEW n \in Names, FrameGone(n)
      PROVE  TypeInv'
  BY <1>4 DEF TypeInv, SharingTypeOK, FrameGone, serviceVars
<1>5. ASSUME HandleCopyTexture
      PROVE  TypeInv'
  <2>1. PICK s \in Streams, h \in Handles, pool \in Pools, ok \in BOOLEAN :
          /\ streams' = Keep(s, pool) /\ recent' = [recent EXCEPT ![s] = Use(recent[s], h)]
          /\ Use(recent[s], h) \in Seq(Handles)
          /\ commands # <<>> /\ After(ok)
    BY <1>5, CopyIs
  <2>2. commands' \in Seq(Commands) /\ state' \in {"up", "failed", "destroyed"}
    BY <2>1, HeadOfCommands DEF After
  <2>3. DOMAIN streams' \subseteq Streams /\ \A t \in DOMAIN streams' : streams'[t] \in Pools
    BY <2>1 DEF Keep, TypeInv, SharingTypeOK
  <2>4. recent' \in [Streams -> Seq(Handles)]
    BY <2>1 DEF TypeInv, SharingTypeOK
  <2>5. buffers' = buffers /\ UNCHANGED <<clientVars>>
    BY <1>5, <2>1 DEF HandleCopyTexture, After
  <2> QED BY <2>2, <2>3, <2>4, <2>5 DEF TypeInv, SharingTypeOK, clientVars
<1>6. ASSUME HandleReleaseTextureStream
      PROVE  TypeInv'
  <2>1. commands # <<>> /\ Head(commands).stream \in Streams
    BY <1>6, HeadOfCommands DEF HandleReleaseTextureStream, Executing
  <2>2. commands' \in Seq(Commands) /\ state' = "up"
    BY <1>6, <2>1, HeadOfCommands DEF HandleReleaseTextureStream, After
  <2>3. DOMAIN streams' \subseteq Streams /\ \A t \in DOMAIN streams' : streams'[t] \in Pools
    BY <1>6 DEF HandleReleaseTextureStream, Drop, TypeInv, SharingTypeOK
  <2>4. recent' \in [Streams -> Seq(Handles)]
    BY <1>6, <2>1 DEF HandleReleaseTextureStream, TypeInv, SharingTypeOK
  <2>5. buffers' = buffers /\ UNCHANGED <<clientVars>>
    BY <1>6 DEF HandleReleaseTextureStream, After
  <2> QED BY <2>2, <2>3, <2>4, <2>5 DEF TypeInv, SharingTypeOK, clientVars
<1>7. ASSUME HandleUpdateTexture
      PROVE  TypeInv'
  <2>1. commands # <<>> /\ Head(commands).name \in Names
    BY <1>7, HeadOfCommands DEF HandleUpdateTexture, Executing
  <2>2. commands' \in Seq(Commands) /\ state' \in {"up", "failed", "destroyed"}
    BY <1>7, <2>1, HeadOfCommands DEF HandleUpdateTexture, After
  <2>3. buffers' \in SUBSET Names
    BY <1>7, <2>1 DEF HandleUpdateTexture, GetBuffer, TypeInv, SharingTypeOK
  <2>4. UNCHANGED <<streams, recent, clientVars>>
    BY <1>7 DEF HandleUpdateTexture, After
  <2> QED BY <2>2, <2>3, <2>4 DEF TypeInv, SharingTypeOK, clientVars
<1>8. ASSUME HandleReleaseBuffer
      PROVE  TypeInv'
  <2>1. commands' \in Seq(Commands) /\ state' = "up"
    BY <1>8, HeadOfCommands DEF HandleReleaseBuffer, Executing, After
  <2>2. buffers' \in SUBSET Names /\ UNCHANGED <<streams, recent, clientVars>>
    BY <1>8 DEF HandleReleaseBuffer, After, TypeInv, SharingTypeOK
  <2> QED BY <2>1, <2>2 DEF TypeInv, SharingTypeOK, clientVars
<1>9. ASSUME DestroyDecoder
      PROVE  TypeInv'
  <2>1. commands' \in Seq(Commands) /\ recent' \in [Streams -> Seq(Handles)] /\ DOMAIN streams' = {}
    BY <1>9 DEF DestroyDecoder
  <2>2. state' = "destroyed" /\ buffers' = {} /\ UNCHANGED clientVars
    BY <1>9 DEF DestroyDecoder
  <2> QED BY <2>1, <2>2 DEF TypeInv, SharingTypeOK, clientVars
<1>10. CASE UNCHANGED sharingVars
  BY <1>10 DEF TypeInv, SharingTypeOK, sharingVars, clientVars, serviceVars
<1> QED BY <1>1, <1>2, <1>3, <1>4, <1>5, <1>6, <1>7, <1>8, <1>9, <1>10
        DEF SharingNext, ClientNext, ServiceNext

LEMMA PoolInvKept ==
  ASSUME TypeInv, PoolInv, [SharingNext]_sharingVars
  PROVE  PoolInv'
<1>1. CASE UNCHANGED <<state, streams, recent>>
  BY <1>1 DEF PoolInv, StreamOf
<1>2. ASSUME HandleCopyTexture
      PROVE  PoolInv'
  <2>1. PICK s \in Streams, h \in Handles, pool \in Pools, ok \in BOOLEAN :
          /\ streams' = Keep(s, pool) /\ recent' = [recent EXCEPT ![s] = Use(recent[s], h)]
          /\ Distinct(Use(recent[s], h))
          /\ ok => PoolIs(pool, Use(recent[s], h))
          /\ state = "up" /\ After(ok)
    BY <1>2, CopyIs
  <2> SUFFICES ASSUME state' = "up", NEW t \in Streams
               PROVE  Distinct(recent'[t]) /\ PoolIs(StreamOf(t)', recent'[t])
    BY DEF PoolInv
  <2>2. ok
    BY <2>1 DEF After
  <2>3. recent'[t] = IF t = s THEN Use(recent[s], h) ELSE recent[t]
    BY <2>1 DEF TypeInv, SharingTypeOK
  <2>4. StreamOf(t)' = IF t = s THEN pool ELSE StreamOf(t)
    BY <2>1 DEF StreamOf, Keep
  <2>5. CASE t = s
    BY <2>1, <2>2, <2>3, <2>4, <2>5
  <2>6. CASE t # s
    BY <2>1, <2>3, <2>4, <2>6 DEF PoolInv
  <2> QED BY <2>5, <2>6
<1>3. ASSUME HandleReleaseTextureStream
      PROVE  PoolInv'
  <2> DEFINE s == Head(commands).stream
  <2>1. /\ s \in Streams /\ state = "up"
        /\ streams' = Drop(s) /\ recent' = [recent EXCEPT ![s] = <<>>]
    BY <1>3, HeadOfCommands DEF HandleReleaseTextureStream, Executing
  <2> HIDE DEF s
  <2> SUFFICES ASSUME NEW t \in Streams
               PROVE  Distinct(recent'[t]) /\ PoolIs(StreamOf(t)', recent'[t])
    BY DEF PoolInv
  <2>2. recent'[t] = IF t = s THEN <<>> ELSE recent[t]
    BY <2>1 DEF TypeInv, SharingTypeOK
  <2>3. StreamOf(t)' = IF t = s THEN NewPool ELSE StreamOf(t)
    BY <2>1 DEF StreamOf, Drop
  <2>4. Distinct(<<>>) /\ PoolIs(NewPool, <<>>)
    BY SharingAssumption DEF Distinct, PoolIs, NewPool, Pool, IsEnd, Ends, Range
  <2>5. t # s => Distinct(recent[t]) /\ PoolIs(StreamOf(t), recent[t])
    BY <2>1 DEF PoolInv
  <2> QED BY <2>2, <2>3, <2>4, <2>5
<1>4. ASSUME DestroyDecoder
      PROVE  PoolInv'
  BY <1>4 DEF DestroyDecoder, PoolInv
<1>5. ASSUME HandleUpdateTexture \/ HandleReleaseBuffer
      PROVE  PoolInv'
  <2>1. state = "up" /\ UNCHANGED <<streams, recent>>
    BY <1>5 DEF HandleUpdateTexture, HandleReleaseBuffer, Executing
  <2> QED BY <2>1 DEF PoolInv, StreamOf
<1>6. CASE ClientNext
  BY <1>1, <1>6 DEF ClientNext, DrawTexture, DrawMemory, DestroyUpdater, FrameGone, serviceVars
<1>7. CASE UNCHANGED sharingVars
  BY <1>1, <1>7 DEF sharingVars, serviceVars
<1> QED BY <1>2, <1>3, <1>4, <1>5, <1>6, <1>7 DEF SharingNext, ServiceNext

(***************************************************************************)
(* Who has a claim on what the decoder keeps: an updater that is not gone, *)
(* or else the command that gives it back is still to come.  A command     *)
(* that makes the decoder keep something is on its way with such a claim   *)
(* behind it, which is what KeptForAUser needs when it is executed.        *)
(***************************************************************************)
StreamRelease(s) == Command("ReleaseTextureStream", s, None, None)
ReleasedAfter(p, c) == \E j \in 1 .. Len(commands) : j > p /\ commands[j] = c
StreamClaimed(s, p) == Viewers(s) # {} \/ ReleasedAfter(p, StreamRelease(s))
NameClaimed(n, p) == Users(n) # {} \/ ReleasedAfter(p, ReleaseOf(n))

ClaimsInv ==
  /\ \A s \in DOMAIN streams : StreamClaimed(s, 0)
  /\ \A n \in buffers : NameClaimed(n, 0)
  /\ \A i \in 1 .. Len(commands) :
       /\ commands[i].op = "CopyTexture" => StreamClaimed(commands[i].stream, i)
       /\ commands[i].op = "UpdateTexture" => NameClaimed(commands[i].name, i)

(* What was to come is still to come after more is sent, and what is sent. *)
LEMMA ReleasesSent ==
  ASSUME commands \in Seq(Commands), NEW more \in Seq(Commands), Sends(more),
         NEW p \in Nat, p <= Len(commands), NEW c
  PROVE  ReleasedAfter(p, c) \/ c \in Range(more) => ReleasedAfter(p, c)'
<1> DEFINE n == Len(commands)
           m == Len(more)
<1>1. /\ n \in Nat /\ m \in Nat /\ Len(commands') = n + m /\ DOMAIN more = 1 .. m
      /\ \A i \in 1 .. n : commands'[i] = commands[i]
      /\ \A i \in 1 .. m : commands'[n + i] = more[i]
  BY DEF Sends
<1> HIDE DEF n, m
<1>2. ASSUME ReleasedAfter(p, c) PROVE ReleasedAfter(p, c)'
  <2>1. PICK j \in 1 .. n : j > p /\ commands[j] = c
    BY <1>2 DEF ReleasedAfter, n
  <2>2. j \in 1 .. Len(commands') /\ commands'[j] = c
    BY <1>1, <2>1
  <2> QED BY <2>1, <2>2 DEF ReleasedAfter
<1>3. ASSUME c \in Range(more) PROVE ReleasedAfter(p, c)'
  <2>1. PICK i \in 1 .. m : more[i] = c
    BY <1>1, <1>3 DEF Range
  <2>2. n + i \in 1 .. Len(commands') /\ n + i > p /\ commands'[n + i] = c
    BY <1>1, <2>1 DEF n
  <2> QED BY <2>2 DEF ReleasedAfter
<1> QED BY <1>2, <1>3

(* The first command is executed: another one is still to come.            *)
LEMMA ReleasesExecuted ==
  ASSUME commands \in Seq(Commands), commands # <<>>, commands' = Tail(commands),
         NEW p \in Nat, NEW c, ReleasedAfter(p, c), p # 0 \/ Head(commands) # c
  PROVE  ReleasedAfter(IF p = 0 THEN 0 ELSE p - 1, c)'
<1> DEFINE n == Len(commands)
<1>1. /\ n \in Nat \ {0} /\ Len(commands') = n - 1 /\ Head(commands) = commands[1]
      /\ \A i \in 1 .. n - 1 : commands'[i] = commands[i + 1]
  OBVIOUS
<1>2. PICK j \in 1 .. n : j > p /\ commands[j] = c
  BY DEF ReleasedAfter
<1>3. j > 1
  BY <1>1, <1>2
<1>4. j - 1 \in 1 .. n - 1 /\ j - 1 + 1 = j /\ j - 1 > (IF p = 0 THEN 0 ELSE p - 1)
  BY <1>1, <1>2, <1>3
<1>5. commands'[j - 1] = c
  BY <1>1, <1>2, <1>4
<1> QED BY <1>1, <1>4, <1>5 DEF ReleasedAfter

(* An updater that sends commands may drop claims it gives back with them, *)
(* and has claims on what they make the decoder keep.                      *)
LEMMA ClaimsWhenSent ==
  ASSUME TypeInv, ClaimsInv, NEW more \in Seq(Commands), Sends(more), UNCHANGED <<streams, buffers>>,
         \A s \in Streams : Viewers(s) # {} => Viewers(s)' # {} \/ StreamRelease(s) \in Range(more),
         \A n \in Names : Users(n) # {} => Users(n)' # {} \/ ReleaseOf(n) \in Range(more),
         \A c \in Range(more) :
           /\ c.op = "CopyTexture" => Viewers(c.stream)' # {}
           /\ c.op = "UpdateTexture" => Users(c.name)' # {}
  PROVE  ClaimsInv'
<1>1. commands \in Seq(Commands) /\ Len(commands) \in Nat
  BY DEF TypeInv, SharingTypeOK
<1>2. ASSUME NEW s \in Streams, NEW p \in Nat, p <= Len(commands), StreamClaimed(s, p)
      PROVE  StreamClaimed(s, p)'
  <2>1. ReleasedAfter(p, StreamRelease(s)) \/ StreamRelease(s) \in Range(more)
          => ReleasedAfter(p, StreamRelease(s))'
    BY <1>1, <1>2, ReleasesSent
  <2> QED BY <1>2, <2>1 DEF StreamClaimed, StreamRelease
<1>3. ASSUME NEW n \in Names, NEW p \in Nat, p <= Len(commands), NameClaimed(n, p)
      PROVE  NameClaimed(n, p)'
  <2>1. ReleasedAfter(p, ReleaseOf(n)) \/ ReleaseOf(n) \in Range(more)
          => ReleasedAfter(p, ReleaseOf(n))'
    BY <1>1, <1>3, ReleasesSent
  <2> QED BY <1>3, <2>1 DEF NameClaimed, ReleaseOf
<1>4. ASSUME NEW s \in DOMAIN streams' PROVE StreamClaimed(s, 0)'
  <2>1. s \in Streams /\ StreamClaimed(s, 0) /\ 0 \in Nat /\ 0 <= Len(commands)
    BY <1>1 DEF TypeInv, SharingTypeOK, ClaimsInv
  <2> QED BY <1>2, <2>1
<1>5. ASSUME NEW n \in buffers' PROVE NameClaimed(n, 0)'
  <2>1. n \in Names /\ NameClaimed(n, 0) /\ 0 \in Nat /\ 0 <= Len(commands)
    BY <1>1 DEF TypeInv, SharingTypeOK, ClaimsInv
  <2> QED BY <1>3, <2>1
<1>6. ASSUME NEW i \in 1 .. Len(commands')
      PROVE  \/ i \in 1 .. Len(commands) /\ commands'[i] = commands[i] /\ commands[i] \in Commands
             \/ commands'[i] \in Range(more)
  <2>1. /\ Len(more) \in Nat /\ Len(commands') = Len(commands) + Len(more) /\ DOMAIN more = 1 .. Len(more)
        /\ \A k \in 1 .. Len(commands) : commands'[k] = commands[k] /\ commands[k] \in Commands
        /\ \A k \in Len(commands) + 1 .. Len(commands) + Len(more) :
             commands'[k] = more[k - Len(commands)]
    BY <1>1 DEF Sends
  <2>2. CASE i \in 1 .. Len(commands)
    BY <2>1, <2>2
  <2>3. CASE i \in Len(commands) + 1 .. Len(commands) + Len(more)
    <3>1. i - Len(commands) \in DOMAIN more
      BY <1>1, <2>1, <2>3
    <3> QED BY <2>1, <2>3, <3>1 DEF Range
  <2> QED BY <1>1, <2>1, <2>2, <2>3
<1>7. ASSUME NEW i \in 1 .. Len(commands'), commands'[i].op = "CopyTexture",
             NEW s, s = commands'[i].stream
      PROVE  StreamClaimed(s, i)'
  <2>1. CASE commands'[i] \in Range(more)
    <3>1. Viewers(s)' # {}
      BY <1>7, <2>1
    <3> QED BY <3>1 DEF StreamClaimed
  <2>2. CASE i \in 1 .. Len(commands) /\ commands'[i] = commands[i] /\ commands[i] \in Commands
    <3>1. s \in Streams /\ StreamClaimed(s, i)
      BY <1>7, <2>2 DEF ClaimsInv, Commands
    <3>2. i \in Nat /\ i <= Len(commands)
      BY <1>1, <2>2
    <3> QED BY <1>2, <3>1, <3>2
  <2> QED BY <1>6, <2>1, <2>2
<1>8. ASSUME NEW i \in 1 .. Len(commands'), commands'[i].op = "UpdateTexture",
             NEW n, n = commands'[i].name
      PROVE  NameClaimed(n, i)'
  <2>1. CASE commands'[i] \in Range(more)
    <3>1. Users(n)' # {}
      BY <1>8, <2>1
    <3> QED BY <3>1 DEF NameClaimed
  <2>2. CASE i \in 1 .. Len(commands) /\ commands'[i] = commands[i] /\ commands[i] \in Commands
    <3>1. n \in Names /\ NameClaimed(n, i)
      BY <1>8, <2>2 DEF ClaimsInv, Commands
    <3>2. i \in Nat /\ i <= Len(commands)
      BY <1>1, <2>2
    <3> QED BY <1>3, <3>1, <3>2
  <2> QED BY <1>6, <2>1, <2>2
<1> QED BY <1>4, <1>5, <1>7, <1>8 DEF ClaimsInv

(* The service takes the first command: what it gives back is dropped, and *)
(* what it makes the decoder keep was claimed from its place on.           *)
LEMMA ClaimsWhenExecuted ==
  ASSUME TypeInv, ClaimsInv, commands # <<>>, commands' = Tail(commands), UNCHANGED clientVars,
         \A s \in DOMAIN streams' :
           \/ s \in DOMAIN streams /\ Head(commands) # StreamRelease(s)
           \/ Head(commands).op = "CopyTexture" /\ Head(commands).stream = s,
         \A n \in buffers' :
           \/ n \in buffers /\ Head(commands) # ReleaseOf(n)
           \/ Head(commands).op = "UpdateTexture" /\ Head(commands).name = n
  PROVE  ClaimsInv'
<1>1. /\ commands \in Seq(Commands) /\ Len(commands) \in Nat \ {0}
      /\ Len(commands') = Len(commands) - 1 /\ Head(commands) = commands[1]
      /\ \A i \in 1 .. Len(commands) - 1 : commands'[i] = commands[i + 1]
  BY DEF TypeInv, SharingTypeOK
<1>2. ASSUME NEW s, NEW p \in Nat, StreamClaimed(s, p), p # 0 \/ Head(commands) # StreamRelease(s)
      PROVE  StreamClaimed(s, IF p = 0 THEN 0 ELSE p - 1)'
  <2>1. CASE Viewers(s) # {}
    BY <2>1 DEF StreamClaimed, Viewers, clientVars
  <2>2. CASE ReleasedAfter(p, StreamRelease(s))
    <3> DEFINE c == StreamRelease(s)
    <3>1. c = StreamRelease(s)' /\ ReleasedAfter(p, c) /\ (p # 0 \/ Head(commands) # c)
      BY <1>2, <2>2 DEF StreamRelease, Command
    <3> HIDE DEF c
    <3>2. ReleasedAfter(IF p = 0 THEN 0 ELSE p - 1, c)'
      BY <1>1, <1>2, <3>1, ReleasesExecuted
    <3> QED BY <3>1, <3>2 DEF StreamClaimed
  <2> QED BY <1>2, <2>1, <2>2 DEF StreamClaimed
<1>3. ASSUME NEW n, NEW p \in Nat, NameClaimed(n, p), p # 0 \/ Head(commands) # ReleaseOf(n)
      PROVE  NameClaimed(n, IF p = 0 THEN 0 ELSE p - 1)'
  <2>1. CASE Users(n) # {}
    BY <2>1 DEF NameClaimed, Users, clientVars
  <2>2. CASE ReleasedAfter(p, ReleaseOf(n))
    <3> DEFINE c == ReleaseOf(n)
    <3>1. c = ReleaseOf(n)' /\ ReleasedAfter(p, c) /\ (p # 0 \/ Head(commands) # c)
      BY <1>3, <2>2 DEF ReleaseOf, Command
    <3> HIDE DEF c
    <3>2. ReleasedAfter(IF p = 0 THEN 0 ELSE p - 1, c)'
      BY <1>1, <1>3, <3>1, ReleasesExecuted
    <3> QED BY <3>1, <3>2 DEF NameClaimed
  <2> QED BY <1>3, <2>1, <2>2 DEF NameClaimed
<1>4. ASSUME NEW s \in DOMAIN streams' PROVE StreamClaimed(s, 0)'
  <2>1. CASE s \in DOMAIN streams /\ Head(commands) # StreamRelease(s)
    <3>1. StreamClaimed(s, 0) /\ 0 \in Nat
      BY <2>1 DEF ClaimsInv
    <3> QED BY <1>2, <2>1, <3>1
  <2>2. CASE Head(commands).op = "CopyTexture" /\ Head(commands).stream = s
    <3>1. StreamClaimed(s, 1) /\ 1 \in Nat /\ 1 # 0 /\ 1 - 1 = 0
      BY <1>1, <2>2 DEF ClaimsInv
    <3> QED BY <1>2, <3>1
  <2> QED BY <2>1, <2>2
<1>5. ASSUME NEW n \in buffers' PROVE NameClaimed(n, 0)'
  <2>1. CASE n \in buffers /\ Head(commands) # ReleaseOf(n)
    <3>1. NameClaimed(n, 0) /\ 0 \in Nat
      BY <2>1 DEF ClaimsInv
    <3> QED BY <1>3, <2>1, <3>1
  <2>2. CASE Head(commands).op = "UpdateTexture" /\ Head(commands).name = n
    <3>1. NameClaimed(n, 1) /\ 1 \in Nat /\ 1 # 0 /\ 1 - 1 = 0
      BY <1>1, <2>2 DEF ClaimsInv
    <3> QED BY <1>3, <3>1
  <2> QED BY <2>1, <2>2
<1>6. ASSUME NEW i \in 1 .. Len(commands')
      PROVE  /\ i + 1 \in 1 .. Len(commands) /\ commands'[i] = commands[i + 1]
             /\ i + 1 \in Nat /\ i + 1 # 0 /\ i + 1 - 1 = i
  BY <1>1
<1>7. ASSUME NEW i \in 1 .. Len(commands'), commands'[i].op = "CopyTexture",
             NEW s, s = commands'[i].stream
      PROVE  StreamClaimed(s, i)'
  <2>1. StreamClaimed(s, i + 1)
    BY <1>6, <1>7 DEF ClaimsInv
  <2> QED BY <1>2, <1>6, <2>1
<1>8. ASSUME NEW i \in 1 .. Len(commands'), commands'[i].op = "UpdateTexture",
             NEW n, n = commands'[i].name
      PROVE  NameClaimed(n, i)'
  <2>1. NameClaimed(n, i + 1)
    BY <1>6, <1>8 DEF ClaimsInv
  <2> QED BY <1>3, <1>6, <2>1
<1> QED BY <1>4, <1>5, <1>7, <1>8 DEF ClaimsInv

LEMMA ClaimsInvKept ==
  ASSUME TypeInv, PoolInv, ClaimsInv, [SharingNext]_sharingVars
  PROVE  ClaimsInv'
<1>0. streamName \in [Updaters -> Streams \cup {NoStream}] /\ bufferMap \in [Updaters -> SUBSET Names]
  BY DEF TypeInv, SharingTypeOK
<1>1. ASSUME NEW u \in Updaters, NEW s \in Streams, NEW h \in Handles, DrawTexture(u, s, h)
      PROVE  ClaimsInv'
  <2> DEFINE more == TextureCommands(u, s, h)
  <2>1. /\ more \in Seq(Commands) /\ Sends(more)
        /\ Range(more) = {ReleaseOf(n) : n \in Expired(u)} \cup {CopyTexture(s, h)} \cup Range(ReleaseShown(u, s))
        /\ Range(ReleaseShown(u, s)) =
              IF streamName[u] \in {s, NoStream} THEN {} ELSE {StreamRelease(streamName[u])}
    BY <1>1, TextureCommandsAre, DrawAppends DEF StreamRelease
  <2> HIDE DEF more
  <2>2. /\ UNCHANGED <<streams, buffers, dead>> /\ u \notin dead
        /\ streamName' = [streamName EXCEPT ![u] = s]
        /\ bufferMap' = [bufferMap EXCEPT ![u] = @ \ Expired(u)]
    BY <1>1 DEF DrawTexture, CanDraw, serviceVars
  <2>3. \A t \in Streams : Viewers(t) # {} => Viewers(t)' # {} \/ StreamRelease(t) \in Range(more)
    <3> SUFFICES ASSUME NEW t \in Streams, NEW v \in Viewers(t), StreamRelease(t) \notin Range(more)
                 PROVE  v \in Viewers(t)'
      OBVIOUS
    <3>1. v = u => t = s
      BY <2>1, SharingAssumption DEF Viewers
    <3> QED BY <1>0, <2>2, <3>1 DEF Viewers
  <2>4. \A n \in Names : Users(n) # {} => Users(n)' # {} \/ ReleaseOf(n) \in Range(more)
    <3> SUFFICES ASSUME NEW n \in Names, NEW v \in Users(n), ReleaseOf(n) \notin Range(more)
                 PROVE  v \in Users(n)'
      OBVIOUS
    <3>1. v = u => n \notin Expired(u)
      BY <2>1
    <3> QED BY <1>0, <2>2, <3>1 DEF Users
  <2>5. u \in Viewers(s)'
    BY <1>0, <2>2 DEF Viewers
  <2>6. ASSUME NEW c \in Range(more)
        PROVE  /\ c.op = "CopyTexture" => Viewers(c.stream)' # {}
               /\ c.op = "UpdateTexture" => Users(c.name)' # {}
    <3>1. c = CopyTexture(s, h) \/ c.op \in {"ReleaseBuffer", "ReleaseTextureStream"}
      BY <2>1 DEF ReleaseOf, StreamRelease, Command
    <3>2. c = CopyTexture(s, h) => c.op = "CopyTexture" /\ c.stream = s
      BY DEF CopyTexture, Command
    <3> QED BY <2>5, <3>1, <3>2
  <2> QED BY <2>1, <2>2, <2>3, <2>4, <2>6, ClaimsWhenSent
<1>2. ASSUME NEW u \in Updaters, NEW m \in Names, DrawMemory(u, m)
      PROVE  ClaimsInv'
  <2> DEFINE more == MemoryCommands(u, m)
  <2>1. /\ more \in Seq(Commands) /\ Sends(more)
        /\ Range(more) = {ReleaseOf(n) : n \in Expired(u)} \cup {UpdateTexture(m)}
    BY <1>2, MemoryCommandsAre, DrawAppends
  <2> HIDE DEF more
  <2>2. /\ UNCHANGED <<streams, buffers, dead, streamName>> /\ u \notin dead
        /\ bufferMap' = [bufferMap EXCEPT ![u] = (@ \ Expired(u)) \cup {m}]
    BY <1>2 DEF DrawMemory, CanDraw, serviceVars
  <2>3. \A t \in Streams : Viewers(t) # {} => Viewers(t)' # {} \/ StreamRelease(t) \in Range(more)
    BY <2>2 DEF Viewers
  <2>4. \A n \in Names : Users(n) # {} => Users(n)' # {} \/ ReleaseOf(n) \in Range(more)
    <3> SUFFICES ASSUME NEW n \in Names, NEW v \in Users(n), ReleaseOf(n) \notin Range(more)
                 PROVE  v \in Users(n)'
      OBVIOUS
    <3>1. v = u => n \notin Expired(u)
      BY <2>1
    <3> QED BY <1>0, <2>2, <3>1 DEF Users
  <2>5. u \in Users(m)'
    BY <1>0, <2>2 DEF Users
  <2>6. ASSUME NEW c \in Range(more)
        PROVE  /\ c.op = "CopyTexture" => Viewers(c.stream)' # {}
               /\ c.op = "UpdateTexture" => Users(c.name)' # {}
    <3>1. c = UpdateTexture(m) \/ c.op = "ReleaseBuffer"
      BY <2>1 DEF ReleaseOf, Command
    <3>2. c = UpdateTexture(m) => c.op = "UpdateTexture" /\ c.name = m
      BY DEF UpdateTexture, Command
    <3> QED BY <2>5, <3>1, <3>2
  <2> QED BY <2>1, <2>2, <2>3, <2>4, <2>6, ClaimsWhenSent
<1>3. ASSUME NEW u \in Updaters, DestroyUpdater(u)
      PROVE  ClaimsInv'
  <2> DEFINE more == LastCommands(u)
  <2>1. /\ more \in Seq(Commands) /\ Sends(more)
        /\ Range(more) = {ReleaseOf(n) : n \in bufferMap[u]} \cup
              (IF streamName[u] = NoStream THEN {} ELSE {StreamRelease(streamName[u])})
    BY <1>3, LastCommandsAre, DrawAppends DEF StreamRelease
  <2> HIDE DEF more
  <2>2. UNCHANGED <<streams, buffers, streamName, bufferMap>> /\ dead' = dead \cup {u}
    BY <1>3 DEF DestroyUpdater, serviceVars
  <2>3. \A t \in Streams : Viewers(t) # {} => Viewers(t)' # {} \/ StreamRelease(t) \in Range(more)
    <3> SUFFICES ASSUME NEW t \in Streams, NEW v \in Viewers(t), StreamRelease(t) \notin Range(more)
                 PROVE  v \in Viewers(t)'
      OBVIOUS
    <3>1. v # u
      BY <2>1, SharingAssumption DEF Viewers
    <3> QED BY <2>2, <3>1 DEF Viewers
  <2>4. \A n \in Names : Users(n) # {} => Users(n)' # {} \/ ReleaseOf(n) \in Range(more)
    <3> SUFFICES ASSUME NEW n \in Names, NEW v \in Users(n), ReleaseOf(n) \notin Range(more)
                 PROVE  v \in Users(n)'
      OBVIOUS
    <3>1. v # u
      BY <2>1 DEF Users
    <3> QED BY <2>2, <3>1 DEF Users
  <2>5. ASSUME NEW c \in Range(more)
        PROVE  c.op \in {"ReleaseBuffer", "ReleaseTextureStream"}
    BY <2>1 DEF ReleaseOf, StreamRelease, Command
  <2> QED BY <2>1, <2>2, <2>3, <2>4, <2>5, ClaimsWhenSent
<1>4. CASE UNCHANGED <<commands, streams, buffers, streamName, bufferMap, dead>>
  BY <1>4 DEF ClaimsInv, StreamClaimed, NameClaimed, ReleasedAfter, Viewers, Users
<1>5. ASSUME HandleCopyTexture
      PROVE  ClaimsInv'
  <2>1. PICK s \in Streams, h \in Handles, pool \in Pools, ok \in BOOLEAN :
          /\ s = Head(commands).stream /\ streams' = Keep(s, pool)
          /\ commands # <<>> /\ After(ok)
    BY <1>5, CopyIs
  <2>2. /\ Head(commands).op = "CopyTexture" /\ buffers' = buffers
        /\ commands' = Tail(commands) /\ UNCHANGED clientVars
    BY <1>5, <2>1 DEF HandleCopyTexture, Executing, After
  <2>3. DOMAIN streams' = DOMAIN streams \cup {s}
    BY <2>1 DEF Keep
  <2>4. \A t : Head(commands) # StreamRelease(t) /\ Head(commands) # ReleaseOf(t)
    BY <2>2 DEF StreamRelease, ReleaseOf, Command
  <2> QED BY <2>1, <2>2, <2>3, <2>4, ClaimsWhenExecuted
<1>6. ASSUME HandleReleaseTextureStream
      PROVE  ClaimsInv'
  <2>1. /\ Head(commands).op = "ReleaseTextureStream" /\ buffers' = buffers /\ commands # <<>>
        /\ commands' = Tail(commands) /\ UNCHANGED clientVars
        /\ DOMAIN streams' = DOMAIN streams \ {Head(commands).stream}
    BY <1>6 DEF HandleReleaseTextureStream, Executing, After, Drop
  <2>2. \A t \in DOMAIN streams' : Head(commands) # StreamRelease(t)
    BY <2>1 DEF StreamRelease, Command
  <2>3. \A n : Head(commands) # ReleaseOf(n)
    BY <2>1 DEF ReleaseOf, Command
  <2> QED BY <2>1, <2>2, <2>3, ClaimsWhenExecuted
<1>7. ASSUME HandleUpdateTexture
      PROVE  ClaimsInv'
  <2>1. /\ Head(commands).op = "UpdateTexture" /\ streams' = streams /\ commands # <<>>
        /\ commands' = Tail(commands) /\ UNCHANGED clientVars
        /\ buffers' \in SUBSET (buffers \cup {Head(commands).name})
    BY <1>7 DEF HandleUpdateTexture, Executing, After, GetBuffer
  <2>2. \A t : Head(commands) # StreamRelease(t) /\ Head(commands) # ReleaseOf(t)
    BY <2>1 DEF StreamRelease, ReleaseOf, Command
  <2> QED BY <2>1, <2>2, ClaimsWhenExecuted
<1>8. ASSUME HandleReleaseBuffer
      PROVE  ClaimsInv'
  <2>1. /\ Head(commands).op = "ReleaseBuffer" /\ streams' = streams /\ commands # <<>>
        /\ commands' = Tail(commands) /\ UNCHANGED clientVars
        /\ buffers' = buffers \ {Head(commands).name}
    BY <1>8 DEF HandleReleaseBuffer, Executing, After
  <2>2. \A n \in buffers' : Head(commands) # ReleaseOf(n)
    BY <2>1 DEF ReleaseOf, Command
  <2>3. \A t : Head(commands) # StreamRelease(t)
    BY <2>1 DEF StreamRelease, Command
  <2> QED BY <2>1, <2>2, <2>3, ClaimsWhenExecuted
<1>9. ASSUME DestroyDecoder
      PROVE  ClaimsInv'
  <2>1. commands' = <<>> /\ buffers' = {} /\ DOMAIN streams' = {} /\ Len(commands') = 0
    BY <1>9 DEF DestroyDecoder
  <2> QED BY <2>1 DEF ClaimsInv
<1>10. ASSUME NEW n \in Names, FrameGone(n)
       PROVE  ClaimsInv'
  BY <1>4, <1>10 DEF FrameGone, serviceVars
<1>11. CASE UNCHANGED sharingVars
  BY <1>4, <1>11 DEF sharingVars, clientVars, serviceVars
<1> QED BY <1>1, <1>2, <1>3, <1>5, <1>6, <1>7, <1>8, <1>9, <1>10, <1>11
        DEF SharingNext, ClientNext, ServiceNext

(***************************************************************************)
(* The theorems.                                                           *)
(***************************************************************************)
SharingInv == TypeInv /\ PoolInv /\ ClaimsInv

LEMMA SharingInvHolds == SharingSpec => []SharingInv
<1>1. SharingInit => SharingInv
  <2> SUFFICES ASSUME SharingInit PROVE SharingInv
    OBVIOUS
  <2>1. /\ streamName = [u \in Updaters |-> NoStream] /\ bufferMap = [u \in Updaters |-> {}]
        /\ dead = {} /\ frames = {} /\ commands = <<>> /\ state = "up"
        /\ DOMAIN streams = {} /\ buffers = {} /\ recent = [s \in Streams |-> <<>>]
    BY DEF SharingInit
  <2>2. SharingTypeOK
    <3>1. /\ streamName \in [Updaters -> Streams \cup {NoStream}]
          /\ bufferMap \in [Updaters -> SUBSET Names]
      BY <2>1
    <3>2. recent \in [Streams -> Seq(Handles)] /\ commands \in Seq(Commands)
      BY <2>1
    <3>3. /\ dead \in SUBSET Updaters /\ frames \in SUBSET Names /\ buffers \in SUBSET Names
          /\ state \in {"up", "failed", "destroyed"}
          /\ DOMAIN streams \subseteq Streams /\ \A s \in DOMAIN streams : streams[s] \in Pools
      BY <2>1
    <3> QED BY <2>1, <3>1, <3>2, <3>3, Zenon DEF SharingTypeOK
  <2>3. \A u \in Updaters : IsFiniteSet(bufferMap[u])
    BY <2>1, FS_EmptySet
  <2>4. PoolInv
    <3>1. Distinct(<<>>) /\ PoolIs(NewPool, <<>>)
      BY SharingAssumption DEF Distinct, PoolIs, NewPool, Pool, IsEnd, Ends, Range
    <3>2. \A s \in Streams : StreamOf(s) = NewPool /\ recent[s] = <<>>
      BY <2>1 DEF StreamOf
    <3> QED BY <3>1, <3>2 DEF PoolInv
  <2>5. ClaimsInv
    BY <2>1 DEF ClaimsInv
  <2> QED BY <2>2, <2>3, <2>4, <2>5 DEF SharingInv, TypeInv
<1>2. SharingInv /\ [SharingNext]_sharingVars => SharingInv'
  BY TypeInvKept, PoolInvKept, ClaimsInvKept DEF SharingInv
<1> QED BY <1>1, <1>2, PTL DEF SharingSpec

(* What the decoder keeps is used or about to be given back, also after it *)
(* has failed or is destroyed: nothing leaks for a stream or a memory that *)
(* no updater shows any more.                                              *)
THEOREM KeptForUsers == SharingSpec => []KeptForAUser
<1>1. SharingInv => KeptForAUser
  <2> SUFFICES ASSUME SharingInv PROVE KeptForAUser
    OBVIOUS
  <2>1. ASSUME NEW s \in DOMAIN streams
        PROVE  \/ Viewers(s) # {}
               \/ \E i \in InCommands("ReleaseTextureStream") : commands[i].stream = s
    <3>1. StreamClaimed(s, 0)
      BY DEF SharingInv, ClaimsInv
    <3> QED BY <3>1 DEF StreamClaimed, ReleasedAfter, StreamRelease, Command, InCommands
  <2>2. ASSUME NEW n \in buffers
        PROVE  \/ Users(n) # {}
               \/ \E i \in InCommands("ReleaseBuffer") : commands[i].name = n
    <3>1. NameClaimed(n, 0)
      BY DEF SharingInv, ClaimsInv
    <3> QED BY <3>1 DEF NameClaimed, ReleasedAfter, ReleaseOf, Command, InCommands
  <2> QED BY <2>1, <2>2 DEF KeptForAUser
<1> QED BY <1>1, SharingInvHolds, PTL

(* The last n of a sequence, each once, are the elements of its end.       *)
LEMMA LatestOfEnd ==
  ASSUME NEW S, NEW use \in Seq(S), NEW seq \in Seq(S), IsEnd(use, seq), NEW n \in Nat,
         Len(use) = IF Len(seq) < n THEN Len(seq) ELSE n
  PROVE  Latest(seq, n) = Range(use)
<1> DEFINE m == Len(use)
           k == Len(seq)
           first == k - m + 1
           last == SubSeq(seq, first, k)
<1>1. m \in Nat /\ k \in Nat /\ m <= k /\ DOMAIN use = 1 .. m /\ m = IF k < n THEN k ELSE n
  BY DEF IsEnd
<1>2. Min({n, k}) = m
  BY <1>1 DEF Min
<1>3. Latest(seq, n) = Range(last)
  BY <1>2 DEF Latest
<1>4. last \in Seq(S) /\ Len(last) = m /\ \A i \in 1 .. m : last[i] = seq[k - m + i]
  <2> HIDE DEF m, k
  <2>1. first \in 1 .. k + 1 /\ k - first + 1 = m /\ \A i \in 1 .. m : first + i - 1 = k - m + i
    BY <1>1
  <2> HIDE DEF first
  <2>2. last = [i \in 1 .. m |-> seq[k - m + i]]
    <3>1. last = [i \in 1 .. (1 + k - first) |-> seq[i + first - 1]]
      BY <1>1, <2>1 DEF k
    <3> QED BY <1>1, <2>1, <3>1
  <2>3. ASSUME NEW i \in 1 .. m PROVE seq[k - m + i] \in S
    <3>1. k - m + i \in 1 .. k
      BY <1>1, <2>1
    <3> QED BY <3>1 DEF k
  <2> HIDE DEF last
  <2> QED BY <1>1, <2>2, <2>3
<1>5. \A i \in 1 .. m : last[i] = use[i]
  BY <1>4 DEF IsEnd, Ends
<1>6. DOMAIN last = 1 .. m
  BY <1>4
<1> HIDE DEF last, m, k, first
<1>7. Range(last) = Range(use)
  BY <1>1, <1>5, <1>6 DEF Range
<1> QED BY <1>3, <1>7

(* Of each stream the decoder keeps the textures it used last, each once,  *)
(* and use_ and texture_map_ name the same ones.                           *)
THEOREM PoolsHoldTheLatest == SharingSpec => []PoolHoldsTheLatest
<1>1. SharingInv => PoolHoldsTheLatest
  <2> SUFFICES ASSUME SharingInv, state = "up", NEW s \in DOMAIN streams
               PROVE  /\ streams[s].textures = Latest(recent[s], TargetSurfaceCount)
                      /\ Range(streams[s].use) = streams[s].textures
                      /\ Len(streams[s].use) = Cardinality(streams[s].textures)
    BY DEF PoolHoldsTheLatest
  <2> DEFINE pool == streams[s]
             seq == recent[s]
  <2>1. pool \in Pools /\ seq \in Seq(Handles) /\ s \in Streams /\ pool.use \in Seq(Handles)
    BY DEF SharingInv, TypeInv, SharingTypeOK, Pools
  <2>2. Distinct(seq) /\ PoolIs(pool, seq)
    BY <2>1 DEF SharingInv, PoolInv, StreamOf
  <2> HIDE DEF pool, seq
  <2>3. Distinct(pool.use)
    BY <2>1, <2>2, EndIsDistinct DEF PoolIs
  <2>4. Cardinality(pool.textures) = Len(pool.use)
    BY <2>1, <2>2, <2>3, CardinalityOfDistinct DEF PoolIs
  <2>5. Latest(seq, TargetSurfaceCount) = Range(pool.use)
    BY <2>1, <2>2, SharingAssumption, LatestOfEnd DEF PoolIs
  <2> QED BY <2>2, <2>4, <2>5 DEF PoolIs, pool, seq
<1> QED BY <1>1, SharingInvHolds, PTL
==============================================================================
