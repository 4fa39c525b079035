--------------------------- MODULE GatewayProofs ---------------------------
(***************************************************************************)
(* Theorems about the feeds, the map feed, the event streams and the       *)
(* update status of the gateway, for any number of clients, of images and  *)
(* maps and of their parts, any capacity of a channel and any size of the  *)
(* update; and, with those of GatewayCallsProofs, about all its handlers   *)
(* side by side.                                                           *)
(***************************************************************************)
EXTENDS MCGateway, GatewayCallsProofs, SequenceTheorems, TLAPS

-----------------------------------------------------------------------------
(* The feeds of images and of audio.                                       *)

Chunk == (0..(Images - 1)) \X (0..(Chunks - 1))

\* An image in progress, or none.
Cache == [image : Int, invalid : BOOLEAN, data : Seq(Chunk), last : Int]

Before(a, b) == a[1] < b[1] \/ (a[1] = b[1] /\ a[2] < b[2])

Rising(chunks) == \A m, n \in DOMAIN chunks : m < n => Before(chunks[m], chunks[n])

FeedsType ==
  /\ stage \in [Users -> Stages]
  /\ answers \in [Users -> Seq({"answer"})]
  /\ chunkBox \in [Users -> Seq(Chunk)]
  /\ fed \in [Users -> Seq(Chunk)]
  /\ cache \in [Users -> Cache]
  /\ shown \in [Users -> Seq(Seq(Chunk))]
  /\ awaiting \subseteq Users /\ subscribed \subseteq Users
  /\ next \in (0..Images) \X (0..(Chunks - 1))

\* How far a handler is says what it has registered, and that it has read nothing yet.
FeedBook(u) ==
  /\ u \in awaiting => stage[u] \in {"enabling", "disabling"}
  /\ u \in subscribed => stage[u] \in {"reading", "leaving"}
  /\ Len(answers[u]) <= 1 /\ Len(chunkBox[u]) <= FeedCapacity
  /\ stage[u] \in {"away", "start", "enabling", "enabled", "failed"} =>
       fed[u] = <<>> /\ chunkBox[u] = <<>> /\ shown[u] = <<>>

\* Chunks are lost but never overtake each other.
ChunksInOrder(u) ==
  /\ Rising(fed[u]) /\ Rising(chunkBox[u])
  /\ \A m \in DOMAIN fed[u], n \in DOMAIN chunkBox[u] : Before(fed[u][m], chunkBox[u][n])
  /\ \A m \in DOMAIN fed[u] : Before(fed[u][m], next)
  /\ \A n \in DOMAIN chunkBox[u] : Before(chunkBox[u][n], next)

UpTo(image, place, chunks) == \A q \in 0..place : IsIn(<<image, q>>, chunks)

\* The image in progress is the beginning of one whose chunks have all been read, and
\* it is in progress if the last chunk read is the last one of such a beginning.
Begun(kept, chunks) ==
  /\ kept.image = -1 \/
       /\ kept.image \in 0..(Images - 1) /\ kept.last \in 0..(Chunks - 2) /\ ~kept.invalid
       /\ kept.data = [k \in 1..(kept.last + 1) |-> <<kept.image, k - 1>>]
       /\ UpTo(kept.image, kept.last, chunks)
  /\ \A image \in 0..(Images - 1), place \in 0..(Chunks - 2) :
       /\ chunks # <<>> /\ chunks[Len(chunks)] = <<image, place>>
       /\ UpTo(image, place, chunks)
       => kept.image = image /\ kept.last = place

Exact(images, chunks) ==
  /\ \A n \in DOMAIN images :
       \E image \in 0..(Images - 1) : images[n] = ImageOf(image) /\ WholeIn(image, chunks)
  /\ \A image \in 0..(Images - 1) : WholeIn(image, chunks) => IsIn(ImageOf(image), images)
  /\ \A m, n \in DOMAIN images : m < n => images[m][1][1] < images[n][1][1]

Feeding(u) ==
  /\ FeedBook(u) /\ ChunksInOrder(u)
  /\ stage[u] = "reading" => Begun(cache[u], fed[u])
  /\ Exact(shown[u], fed[u])

FeedsIInv == FeedsType /\ \A u \in Users : Feeding(u)

-----------------------------------------------------------------------------
LEMMA NoChunksExact == Exact(<<>>, <<>>)
<1>1. \A image : ~WholeIn(image, <<>>)
  BY FeedsAssumption DEF WholeIn, IsIn
<1> QED
  BY <1>1 DEF Exact

LEMMA NothingBegun == NewCache \in Cache /\ ResetCache \in Cache /\ Begun(NewCache, <<>>)
<1>1. ResetCache = [image |-> -1, invalid |-> FALSE, data |-> <<>>, last |-> -1]
  BY DEF ResetCache
<1>2. PICK reset : reset = ResetCache
  OBVIOUS
<1>3. [reset EXCEPT !.last = 0] = [image |-> -1, invalid |-> FALSE, data |-> <<>>, last |-> 0]
  <2>1. ASSUME NEW image, NEW invalid, NEW data, NEW last, NEW v, NEW a, NEW b,
               a = [image |-> image, invalid |-> invalid, data |-> data, last |-> last],
               b = [a EXCEPT !.last = v]
        PROVE  b = [image |-> image, invalid |-> invalid, data |-> data, last |-> v]
    BY <2>1
  <2>2. PICK empty : empty = <<>>
    OBVIOUS
  <2>3. reset = [image |-> -1, invalid |-> FALSE, data |-> empty, last |-> -1]
    BY <1>1, <1>2, <2>2
  <2>4. PICK new : new = [reset EXCEPT !.last = 0]
    OBVIOUS
  <2>5. new = [image |-> -1, invalid |-> FALSE, data |-> empty, last |-> 0]
    BY <2>1, <2>3, <2>4
  <2> QED
    BY <2>2, <2>4, <2>5
<1>4. NewCache = [image |-> -1, invalid |-> FALSE, data |-> <<>>, last |-> 0]
  BY <1>2, <1>3 DEF NewCache
<1> QED
  BY <1>1, <1>4 DEF Cache, Begun

LEMMA FeedsInitIInv == FeedsInit => FeedsIInv
<1> SUFFICES ASSUME FeedsInit
             PROVE  FeedsIInv
  OBVIOUS
<1>1. FeedsType
  BY NothingBegun, FeedsAssumption DEF FeedsInit, FeedsStart, FeedsType, Stages
<1>2. ASSUME NEW u \in Users
      PROVE  FeedBook(u) /\ ChunksInOrder(u) /\ stage[u] # "reading" /\ Exact(shown[u], fed[u])
  BY NoChunksExact, FeedsAssumption
  DEF FeedsInit, FeedsStart, FeedBook, ChunksInOrder, Rising
<1> QED
  BY <1>1, <1>2 DEF FeedsIInv, Feeding

-----------------------------------------------------------------------------
\* What becomes of the image in progress with one more chunk.
LEMMA Unpacked ==
  ASSUME NEW kept \in Cache, NEW chunk \in Chunk, kept.image = -1 \/ kept.image \in Nat
  PROVE  /\ UnpackChunk(kept, chunk) \in Cache
         /\ \/ /\ chunk[2] = 0
               /\ UnpackChunk(kept, chunk) =
                    [image |-> chunk[1], invalid |-> FALSE, data |-> <<chunk>>, last |-> 0]
            \/ /\ chunk[2] # 0 /\ kept.image = chunk[1] /\ kept.last = chunk[2] - 1
               /\ UnpackChunk(kept, chunk) =
                    [image |-> kept.image, invalid |-> kept.invalid,
                     data |-> Append(kept.data, chunk), last |-> chunk[2]]
            \/ /\ chunk[2] # 0 /\ ~(kept.image = chunk[1] /\ kept.last = chunk[2] - 1)
               /\ UnpackChunk(kept, chunk).image = -1 /\ UnpackChunk(kept, chunk).invalid
<1>1. chunk = <<chunk[1], chunk[2]>> /\ chunk[1] \in Nat /\ chunk[2] \in Nat
  BY FeedsAssumption DEF Chunk
<1>2. ResetCache = [image |-> -1, invalid |-> FALSE, data |-> <<>>, last |-> -1]
  BY DEF ResetCache
<1>3. CASE chunk[2] = 0
  <2>1. PICK open : open = [ResetCache EXCEPT !.image = chunk[1]]
    OBVIOUS
  <2>2. open = [image |-> chunk[1], invalid |-> FALSE, data |-> <<>>, last |-> -1]
    BY <1>2, <2>1
  <2>3. UnpackChunk(kept, chunk) = [open EXCEPT !.data = Append(@, chunk), !.last = chunk[2]]
    BY <1>1, <1>3, <2>1, <2>2 DEF UnpackChunk
  <2>4. open.data = <<>> /\ Append(<<>>, chunk) = <<chunk>>
    BY <2>2
  <2>5. UnpackChunk(kept, chunk) =
          [image |-> chunk[1], invalid |-> FALSE, data |-> Append(<<>>, chunk), last |-> 0]
    BY <1>3, <2>2, <2>3
  <2> QED
    BY <1>1, <1>3, <2>4, <2>5 DEF Cache
<1>4. CASE chunk[2] # 0 /\ kept.image = chunk[1] /\ kept.last = chunk[2] - 1
  <2>1. UnpackChunk(kept, chunk) = [kept EXCEPT !.data = Append(@, chunk), !.last = chunk[2]]
    BY <1>1, <1>4 DEF UnpackChunk
  <2>2. UnpackChunk(kept, chunk) =
          [image |-> kept.image, invalid |-> kept.invalid,
           data |-> Append(kept.data, chunk), last |-> chunk[2]]
    BY <2>1 DEF Cache
  <2>3. Append(kept.data, chunk) \in Seq(Chunk)
    BY DEF Cache
  <2> QED
    BY <1>1, <1>4, <2>2, <2>3 DEF Cache
<1>5. CASE chunk[2] # 0 /\ ~(kept.image = chunk[1] /\ kept.last = chunk[2] - 1)
  <2>1. CASE kept.image = -1
    <3>1. UnpackChunk(kept, chunk) = [kept EXCEPT !.invalid = TRUE]
      BY <1>1, <1>5, <2>1 DEF UnpackChunk
    <3> QED
      BY <1>5, <2>1, <3>1 DEF Cache
  <2>2. CASE kept.image # -1
    <3>1. UnpackChunk(kept, chunk) = [ResetCache EXCEPT !.invalid = TRUE]
      BY <1>1, <1>5, <2>2 DEF UnpackChunk, Cache
    <3>2. UnpackChunk(kept, chunk) = [image |-> -1, invalid |-> TRUE, data |-> <<>>, last |-> -1]
      BY <1>2, <3>1
    <3> QED
      BY <1>5, <3>2 DEF Cache
  <2> QED
    BY <2>1, <2>2
<1> QED
  BY <1>3, <1>4, <1>5

\* One chunk more, after all the others.
LEMMA OneMore ==
  ASSUME NEW chunks \in Seq(Chunk), NEW chunk \in Chunk, NEW more, more = Append(chunks, chunk)
  PROVE  /\ more \in Seq(Chunk) /\ Len(more) = Len(chunks) + 1 /\ more[Len(more)] = chunk
         /\ \A n \in DOMAIN chunks : n \in DOMAIN more /\ more[n] = chunks[n]
         /\ \A x : IsIn(x, more) <=> (IsIn(x, chunks) \/ x = chunk)
<1>1. /\ more \in Seq(Chunk) /\ Len(more) = Len(chunks) + 1 /\ more[Len(more)] = chunk
      /\ DOMAIN more = 1..(Len(chunks) + 1) /\ DOMAIN chunks = 1..Len(chunks)
      /\ \A n \in 1..Len(chunks) : more[n] = chunks[n]
  OBVIOUS
<1> QED
  BY <1>1 DEF IsIn

\* A chunk goes on with the image in progress exactly if all of that image before it
\* has been read.
LEMMA GoesOn ==
  ASSUME NEW kept \in Cache, NEW chunks \in Seq(Chunk), NEW chunk \in Chunk,
         NEW more, more = Append(chunks, chunk),
         Begun(kept, chunks), Rising(chunks), \A m \in DOMAIN chunks : Before(chunks[m], chunk),
         NEW after, after = UnpackChunk(kept, chunk)
  PROVE  /\ after \in Cache
         /\ \/ /\ after.image = chunk[1] /\ after.last = chunk[2] /\ ~after.invalid
               /\ after.data = [k \in 1..(chunk[2] + 1) |-> <<chunk[1], k - 1>>]
               /\ UpTo(chunk[1], chunk[2], more)
            \/ after.image = -1 /\ after.invalid /\ ~UpTo(chunk[1], chunk[2], more)
<1> DEFINE i == chunk[1]
           p == chunk[2]
<1>1. chunk = <<i, p>> /\ i \in 0..(Images - 1) /\ p \in 0..(Chunks - 1)
  BY DEF Chunk
<1>2. \A x : IsIn(x, more) <=> (IsIn(x, chunks) \/ x = chunk)
  BY OneMore
<1>3. ASSUME p # 0, UpTo(i, p - 1, chunks)
      PROVE  kept.image = i /\ kept.last = p - 1
  <2>1. IsIn(<<i, p - 1>>, chunks)
    BY SMTT(40), <1>1, <1>3 DEF UpTo
  <2>2. PICK m \in DOMAIN chunks : chunks[m] = <<i, p - 1>>
    BY <2>1 DEF IsIn
  <2>3. chunks # <<>> /\ Len(chunks) \in DOMAIN chunks /\ m \in 1..Len(chunks)
    BY <2>2
  <2>4. PICK l \in Chunk : l = chunks[Len(chunks)]
    BY <2>3
  <2>5. Before(l, chunk) /\ (m = Len(chunks) \/ Before(chunks[m], l))
    BY <2>3, <2>4 DEF Rising
  <2>6. l = <<l[1], l[2]>> /\ l[1] \in Int /\ l[2] \in Int
    BY SMTT(40), <2>4, FeedsAssumption DEF Chunk
  <2>7. l[1] = i /\ l[2] = p - 1
    BY SMTT(40), <1>1, <2>2, <2>4, <2>5, <2>6, FeedsAssumption DEF Before
  <2> QED
    BY <1>1, <1>3, <2>3, <2>4, <2>6, <2>7, FeedsAssumption DEF Begun
<1>4. UpTo(i, p, more) <=> (p = 0 \/ UpTo(i, p - 1, chunks))
  <2>1. ASSUME p # 0, UpTo(i, p, more), NEW q \in 0..(p - 1)
        PROVE  IsIn(<<i, q>>, chunks)
    <3>1. IsIn(<<i, q>>, more) /\ <<i, q>> # <<i, p>>
      BY <1>1, <2>1 DEF UpTo
    <3> QED
      BY <1>1, <1>2, <3>1
  <2>2. ASSUME p = 0 \/ UpTo(i, p - 1, chunks), NEW q \in 0..p
        PROVE  IsIn(<<i, q>>, more)
    <3>1. CASE q = p
      BY <1>1, <1>2, <3>1
    <3>2. CASE q # p
      <4>1. q \in 0..(p - 1) /\ p # 0
        BY <1>1, <3>2
      <4> QED
        BY <1>2, <2>2, <4>1 DEF UpTo
    <3> QED
      BY <3>1, <3>2
  <2> QED
    BY <2>1, <2>2 DEF UpTo
<1>5. kept.image = -1 \/ kept.image \in Nat
  BY FeedsAssumption DEF Begun
<1>6. after \in Cache
  BY <1>5, Unpacked
<1>7. CASE p = 0
  <2>1. after = [image |-> i, invalid |-> FALSE, data |-> <<chunk>>, last |-> 0]
    BY <1>5, <1>7, Unpacked
  <2>2. <<chunk>> = [k \in 1..(p + 1) |-> <<i, k - 1>>]
    BY <1>1, <1>7
  <2> QED
    BY <1>4, <1>6, <1>7, <2>1, <2>2
<1>8. CASE p # 0 /\ kept.image = i /\ kept.last = p - 1
  <2>1. after = [image |-> kept.image, invalid |-> kept.invalid,
                 data |-> Append(kept.data, chunk), last |-> p]
    BY <1>5, <1>8, Unpacked
  <2>2. /\ ~kept.invalid /\ kept.data = [k \in 1..p |-> <<i, k - 1>>]
        /\ UpTo(i, p - 1, chunks)
    <3>1. kept.image # -1 /\ kept.last + 1 = p
      <4>1. i \in Nat /\ p \in Nat
        BY <1>1, FeedsAssumption
      <4> HIDE DEF i, p
      <4> QED
        BY <1>8, <4>1
    <3>2. /\ ~kept.invalid /\ kept.data = [k \in 1..(kept.last + 1) |-> <<kept.image, k - 1>>]
          /\ UpTo(kept.image, kept.last, chunks)
      BY <3>1 DEF Begun
    <3> QED
      BY <1>8, <3>1, <3>2
  <2>3. Append(kept.data, chunk) = [k \in 1..(p + 1) |-> <<i, k - 1>>]
    <3>1. PICK d \in Seq(Chunk) : d = kept.data
      BY DEF Cache
    <3>2. Len(d) = p /\ \A k \in 1..p : d[k] = <<i, k - 1>>
      BY <1>1, <2>2, <3>1
    <3>3. PICK e : e = Append(d, chunk)
      OBVIOUS
    <3>4. /\ e \in Seq(Chunk) /\ Len(e) = p + 1 /\ e[p + 1] = chunk
          /\ \A n \in 1..p : e[n] = d[n]
      BY <3>2, <3>3, OneMore
    <3>5. \A k \in 1..(p + 1) : e[k] = <<i, k - 1>>
      <4>1. p \in Nat /\ e[p + 1] = <<i, p>>
        BY <1>1, <3>4
      <4> HIDE DEF i, p
      <4>2. \A k \in 1..p : e[k] = <<i, k - 1>>
        BY <3>2, <3>4
      <4>3. \A k \in 1..(p + 1) : k \in 1..p \/ (k = p + 1 /\ k - 1 = p)
        BY <4>1
      <4> QED
        BY <4>1, <4>2, <4>3
    <3>6. e = [k \in 1..(p + 1) |-> e[k]]
      BY <1>1, <3>4
    <3> QED
      BY <3>1, <3>3, <3>5, <3>6
  <2> QED
    <3>1. UpTo(i, p, more)
      BY <1>4, <2>2
    <3>2. after.image = i /\ after.last = p /\ ~after.invalid /\ after.data = Append(kept.data, chunk)
      <4>1. after.image = kept.image /\ after.last = p /\ after.data = Append(kept.data, chunk)
        BY <2>1
      <4>2. after.invalid = kept.invalid
        BY <2>1
      <4> QED
        BY <1>8, <2>2, <4>1, <4>2
    <3> QED
      BY <1>6, <2>3, <3>1, <3>2
<1>9. CASE p # 0 /\ ~(kept.image = i /\ kept.last = p - 1)
  <2>1. after.image = -1 /\ after.invalid
    BY <1>5, <1>9, Unpacked
  <2> QED
    BY <1>3, <1>4, <1>6, <1>9, <2>1
<1> QED
  BY <1>7, <1>8, <1>9

\* An image that was whole stays whole with one more chunk, and is an earlier one.
LEMMA StaysWhole ==
  ASSUME NEW chunks \in Seq(Chunk), NEW chunk \in Chunk, NEW more, more = Append(chunks, chunk),
         \A m \in DOMAIN chunks : Before(chunks[m], chunk),
         NEW image \in 0..(Images - 1), WholeIn(image, chunks)
  PROVE  WholeIn(image, more) /\ image < chunk[1]
<1> DEFINE i == chunk[1]
           p == chunk[2]
           z == Chunks - 1
<1>1. /\ chunk = <<i, p>> /\ i \in 0..(Images - 1) /\ p \in 0..z
      /\ z \in Nat /\ z \in 0..z
  BY FeedsAssumption DEF Chunk
<1>2. \A x : IsIn(x, more) <=> (IsIn(x, chunks) \/ x = chunk)
  BY ZenonT(60), OneMore
<1>3. ASSUME IsIn(<<image, z>>, chunks)
      PROVE  image < i
  <2>1. Before(<<image, z>>, chunk)
    BY <1>3 DEF IsIn
  <2>2. image < i \/ (image = i /\ z < p)
    BY <2>1 DEF Before
  <2> HIDE DEF i, p, z
  <2> QED
    BY <1>1, <2>2
<1> QED
  BY <1>1, <1>2, <1>3 DEF WholeIn

\* An image whole only with one more chunk is that of the chunk, which is the last one of it.
LEMMA NewlyWhole ==
  ASSUME NEW chunks \in Seq(Chunk), NEW chunk \in Chunk, NEW more, more = Append(chunks, chunk),
         \A m \in DOMAIN chunks : Before(chunks[m], chunk),
         NEW image \in 0..(Images - 1), WholeIn(image, more), ~WholeIn(image, chunks)
  PROVE  image = chunk[1] /\ chunk[2] = Chunks - 1 /\ UpTo(chunk[1], chunk[2], more)
<1> DEFINE i == chunk[1]
           p == chunk[2]
           z == Chunks - 1
<1>1. /\ chunk = <<i, p>> /\ i \in 0..(Images - 1) /\ p \in 0..z
      /\ z \in Nat /\ z \in 0..z
  BY FeedsAssumption DEF Chunk
<1>2. \A x : IsIn(x, more) <=> (IsIn(x, chunks) \/ x = chunk)
  BY ZenonT(60), OneMore
<1>3. PICK q \in 0..z : ~IsIn(<<image, q>>, chunks)
  BY DEF WholeIn
<1>4. <<image, q>> = <<i, p>>
  BY <1>1, <1>2, <1>3 DEF WholeIn
<1>5. image = i
  BY <1>4
<1>6. IsIn(<<i, z>>, chunks) \/ z = p
  BY <1>1, <1>2, <1>5 DEF WholeIn
<1>7. ~IsIn(<<i, z>>, chunks)
  <2>1. i \in Nat /\ p \in 0..z /\ z \in Nat
    BY <1>1
  <2> SUFFICES ASSUME Before(<<i, z>>, chunk)
               PROVE  FALSE
    BY DEF IsIn
  <2>2. i < i \/ (i = i /\ z < p)
    BY DEF Before
  <2> HIDE DEF i, p, z
  <2> QED
    BY <2>1, <2>2
<1>8. UpTo(i, p, more)
  BY <1>5, <1>6, <1>7 DEF UpTo, WholeIn
<1> QED
  BY <1>5, <1>6, <1>7, <1>8

LEMMA ImageTypes ==
  ASSUME NEW image \in 0..(Images - 1)
  PROVE  ImageOf(image) \in Seq(Chunk) /\ ImageOf(image)[1][1] = image
  BY FeedsAssumption DEF ImageOf, Chunk

\* The images the client was sent stay exactly the whole ones.
LEMMA StaysExact ==
  ASSUME NEW images \in Seq(Seq(Chunk)), NEW chunks \in Seq(Chunk), NEW chunk \in Chunk,
         NEW more, more = Append(chunks, chunk), Exact(images, chunks),
         \A m \in DOMAIN chunks : Before(chunks[m], chunk)
  PROVE  /\ chunk[2] = Chunks - 1 /\ UpTo(chunk[1], chunk[2], more) =>
              Exact(Append(images, ImageOf(chunk[1])), more)
         /\ ~(chunk[2] = Chunks - 1 /\ UpTo(chunk[1], chunk[2], more)) => Exact(images, more)
<1>1. ASSUME NEW n \in DOMAIN images
      PROVE  \E image \in 0..(Images - 1) :
               /\ images[n] = ImageOf(image) /\ WholeIn(image, more)
               /\ image < chunk[1] /\ images[n][1][1] = image
  <2>1. PICK image \in 0..(Images - 1) : images[n] = ImageOf(image) /\ WholeIn(image, chunks)
    BY DEF Exact
  <2>2. WholeIn(image, more) /\ image < chunk[1]
    BY <2>1, StaysWhole
  <2> QED
    BY <2>1, <2>2, ImageTypes
<1>2. \A image \in 0..(Images - 1) :
        WholeIn(image, more) =>
          \/ IsIn(ImageOf(image), images)
          \/ image = chunk[1] /\ chunk[2] = Chunks - 1 /\ UpTo(chunk[1], chunk[2], more)
  <2> SUFFICES ASSUME NEW image \in 0..(Images - 1),
                      WholeIn(image, more), ~IsIn(ImageOf(image), images)
               PROVE  image = chunk[1] /\ chunk[2] = Chunks - 1 /\ UpTo(chunk[1], chunk[2], more)
    OBVIOUS
  <2>1. ~WholeIn(image, chunks)
    BY DEF Exact
  <2> QED
    BY <2>1, NewlyWhole
<1>3. \A m, n \in DOMAIN images : m < n => images[m][1][1] < images[n][1][1]
  BY DEF Exact
<1>4. ASSUME ~(chunk[2] = Chunks - 1 /\ UpTo(chunk[1], chunk[2], more))
      PROVE  Exact(images, more)
  BY <1>1, <1>2, <1>3, <1>4 DEF Exact
<1>5. ASSUME chunk[2] = Chunks - 1, UpTo(chunk[1], chunk[2], more)
      PROVE  Exact(Append(images, ImageOf(chunk[1])), more)
  <2>1. PICK i \in 0..(Images - 1) : i = chunk[1]
    BY DEF Chunk
  <2>2. PICK new : new = Append(images, ImageOf(i))
    OBVIOUS
  <2>3. /\ DOMAIN new = 1..(Len(images) + 1) /\ DOMAIN images = 1..Len(images)
        /\ new[Len(images) + 1] = ImageOf(i)
        /\ \A n \in DOMAIN images : new[n] = images[n]
    BY <2>2, ImageTypes
  <2>4. WholeIn(i, more) /\ ImageOf(i)[1][1] = i
    BY <1>5, <2>1, ImageTypes DEF UpTo, WholeIn
  <2>5. \A n \in DOMAIN new :
          \E image \in 0..(Images - 1) : new[n] = ImageOf(image) /\ WholeIn(image, more)
    BY <1>1, <2>3, <2>4
  <2>6. \A image \in 0..(Images - 1) : WholeIn(image, more) => IsIn(ImageOf(image), new)
    <3>1. IsIn(ImageOf(i), new)
      <4>1. Len(images) + 1 \in DOMAIN new
        BY <2>3
      <4> QED
        BY <2>3, <4>1 DEF IsIn
    <3>2. \A x : IsIn(x, images) => IsIn(x, new)
      BY <2>3 DEF IsIn
    <3> QED
      BY <1>2, <2>1, <3>1, <3>2
  <2>7. \A m, n \in DOMAIN new : m < n => new[m][1][1] < new[n][1][1]
    <3> SUFFICES ASSUME NEW m \in DOMAIN new, NEW n \in DOMAIN new, m < n
                 PROVE  new[m][1][1] < new[n][1][1]
      OBVIOUS
    <3>1. m \in DOMAIN images
      BY <2>3
    <3>2. CASE n \in DOMAIN images
      BY <1>3, <2>3, <3>1, <3>2
    <3>3. CASE n = Len(images) + 1
      <4>1. images[m][1][1] < i
        BY <1>1, <2>1, <3>1
      <4> QED
        BY <2>3, <2>4, <3>1, <3>3, <4>1
    <3> QED
      BY <2>3, <3>2, <3>3
  <2> QED
    BY <2>1, <2>2, <2>5, <2>6, <2>7 DEF Exact
<1> QED
  BY <1>4, <1>5

-----------------------------------------------------------------------------
\* The steps of other users, and of the engine when it sends this one nothing.
LEMMA SameUser ==
  ASSUME NEW u \in Users, Feeding(u), next' = next,
         stage'[u] = stage[u], chunkBox'[u] = chunkBox[u], fed'[u] = fed[u],
         cache'[u] = cache[u], shown'[u] = shown[u], Len(answers'[u]) <= 1,
         u \in awaiting' => u \in awaiting, u \in subscribed' => u \in subscribed
  PROVE  Feeding(u)'
<1>1. FeedBook(u)'
  BY DEF Feeding, FeedBook
<1>2. ChunksInOrder(u)'
  BY DEF Feeding, ChunksInOrder
<1>3. (stage'[u] = "reading" => Begun(cache'[u], fed'[u])) /\ Exact(shown'[u], fed'[u])
  BY DEF Feeding
<1> QED
  BY <1>1, <1>2, <1>3 DEF Feeding

Early == {"away", "start", "enabling", "enabled", "failed"}

LEMMA NoAnswer == <<>> \in Seq({"answer"}) /\ Len(<<>>) <= 1
OBVIOUS

\* A handler moves on without touching its chunks.
LEMMA StageKeeps ==
  ASSUME FeedsIInv, NEW u \in Users,
         NEW to \in {"enabling", "enabled", "failed", "leaving", "disabling", "gone", "left on"},
         stage' = [stage EXCEPT ![u] = to], UNCHANGED <<dataVars, next>>,
         to \in Early => stage[u] \in Early,
         to = "leaving" \/ u \notin subscribed,
         answers' = answers \/ answers' = [answers EXCEPT ![u] = <<>>],
         \/ awaiting' \subseteq awaiting /\ u \notin awaiting'
         \/ awaiting' = awaiting \cup {u} /\ to \in {"enabling", "disabling"}
  PROVE  FeedsIInv'
<1>1. UNCHANGED <<chunkBox, subscribed, cache, fed, shown, next>>
  BY DEF dataVars
<1>2. FeedsType'
  <2>1. to \in Stages
    BY DEF Stages
  <2>2. stage' \in [Users -> Stages]
    BY <2>1 DEF FeedsIInv, FeedsType
  <2>3. answers' \in [Users -> Seq({"answer"})]
    <3>1. answers \in [Users -> Seq({"answer"})]
      BY DEF FeedsIInv, FeedsType
    <3>2. CASE answers' = [answers EXCEPT ![u] = <<>>]
      BY <3>1, <3>2, NoAnswer, Zenon
    <3> QED
      BY <3>1, <3>2
  <2>4. awaiting' \subseteq Users
    BY DEF FeedsIInv, FeedsType
  <2> QED
    BY <1>1, <2>2, <2>3, <2>4, Zenon DEF FeedsIInv, FeedsType
<1>3. stage'[u] = to /\ \A v \in Users \ {u} : stage'[v] = stage[v]
  BY DEF FeedsIInv, FeedsType
<1>4. \A v \in Users : Len(answers'[v]) <= 1
  <2>1. \A v \in Users : answers'[v] = answers[v] \/ answers'[v] = <<>>
    BY DEF FeedsIInv, FeedsType
  <2>2. \A v \in Users : Len(answers[v]) <= 1
    BY DEF FeedsIInv, Feeding, FeedBook
  <2> QED
    BY <2>1, <2>2, NoAnswer, Zenon
<1>5. Feeding(u)'
  <2>1. FeedBook(u)'
    BY <1>1, <1>3, <1>4 DEF FeedsIInv, Feeding, FeedBook, Early
  <2>2. ChunksInOrder(u)'
    BY <1>1 DEF FeedsIInv, Feeding, ChunksInOrder
  <2>3. stage'[u] # "reading" /\ Exact(shown'[u], fed'[u])
    BY <1>1, <1>3 DEF FeedsIInv, Feeding
  <2> QED
    BY <2>1, <2>2, <2>3 DEF Feeding
<1>6. \A v \in Users \ {u} : Feeding(v)'
  BY <1>1, <1>3, <1>4, SameUser DEF FeedsIInv
<1> QED
  BY <1>2, <1>5, <1>6 DEF FeedsIInv

LEMMA SubscribeKeeps ==
  ASSUME FeedsIInv, NEW u \in Users, Subscribe(u)
  PROVE  FeedsIInv'
<1>1. /\ stage[u] = "enabled" /\ stage' = [stage EXCEPT ![u] = "reading"]
      /\ subscribed' = subscribed \cup {u} /\ cache' = [cache EXCEPT ![u] = NewCache]
      /\ UNCHANGED <<answers, awaiting, chunkBox, fed, shown, next>>
  BY DEF Subscribe, Go, sourceVars
<1>2. FeedsType'
  <2>1. stage' \in [Users -> Stages]
    BY <1>1 DEF FeedsIInv, FeedsType, Stages
  <2> QED
    BY <1>1, <2>1, NothingBegun DEF FeedsIInv, FeedsType
<1>3. /\ stage'[u] = "reading" /\ cache'[u] = NewCache
      /\ \A v \in Users \ {u} : stage'[v] = stage[v] /\ cache'[v] = cache[v]
      /\ \A v \in Users : Len(answers'[v]) <= 1
  BY <1>1 DEF FeedsIInv, FeedsType, Feeding, FeedBook
<1>4. Feeding(u)'
  <2>1. fed[u] = <<>>
    BY <1>1 DEF FeedsIInv, Feeding, FeedBook
  <2>2. FeedBook(u)'
    BY <1>1, <1>3 DEF FeedsIInv, Feeding, FeedBook
  <2>3. ChunksInOrder(u)'
    BY <1>1 DEF FeedsIInv, Feeding, ChunksInOrder
  <2>4. Begun(cache'[u], fed'[u])
    BY <1>1, <1>3, <2>1, NothingBegun
  <2>5. Exact(shown'[u], fed'[u])
    BY <1>1 DEF FeedsIInv, Feeding
  <2> QED
    BY <2>2, <2>3, <2>4, <2>5 DEF Feeding
<1>5. \A v \in Users \ {u} : Feeding(v)'
  BY <1>1, <1>3, SameUser DEF FeedsIInv
<1> QED
  BY <1>2, <1>4, <1>5 DEF FeedsIInv

LEMMA UnsubscribeKeeps ==
  ASSUME FeedsIInv, NEW u \in Users, Unsubscribe(u)
  PROVE  FeedsIInv'
<1>1. /\ stage[u] = "leaving" /\ stage' = [stage EXCEPT ![u] = "unsubscribed"]
      /\ subscribed' = subscribed \ {u} /\ chunkBox' = [chunkBox EXCEPT ![u] = <<>>]
      /\ UNCHANGED <<answers, awaiting, cache, fed, shown, next>>
  BY DEF Unsubscribe, Go, sourceVars
<1>2. FeedsType'
  <2>1. stage' \in [Users -> Stages]
    BY <1>1 DEF FeedsIInv, FeedsType, Stages
  <2>2. chunkBox' \in [Users -> Seq(Chunk)]
    BY <1>1 DEF FeedsIInv, FeedsType
  <2> QED
    BY <1>1, <2>1, <2>2 DEF FeedsIInv, FeedsType
<1>3. /\ stage'[u] = "unsubscribed" /\ chunkBox'[u] = <<>>
      /\ \A v \in Users \ {u} : stage'[v] = stage[v] /\ chunkBox'[v] = chunkBox[v]
      /\ \A v \in Users : Len(answers'[v]) <= 1
  BY <1>1 DEF FeedsIInv, FeedsType, Feeding, FeedBook
<1>4. Feeding(u)'
  <2>1. FeedBook(u)'
    BY <1>1, <1>3, FeedsAssumption DEF FeedsIInv, Feeding, FeedBook
  <2>2. ChunksInOrder(u)'
    BY <1>1, <1>3 DEF FeedsIInv, Feeding, ChunksInOrder, Rising
  <2>3. Exact(shown'[u], fed'[u])
    BY <1>1 DEF FeedsIInv, Feeding
  <2> QED
    BY <1>3, <2>1, <2>2, <2>3 DEF Feeding
<1>5. \A v \in Users \ {u} : Feeding(v)'
  BY <1>1, <1>3, SameUser DEF FeedsIInv
<1> QED
  BY <1>2, <1>4, <1>5 DEF FeedsIInv

\* The handler reads the oldest chunk of its channel.
LEMMA ReadChunkKeeps ==
  ASSUME FeedsIInv, NEW u \in Users, ReadChunk(u)
  PROVE  FeedsIInv'
<1> DEFINE chunk == Head(chunkBox[u])
           after == UnpackChunk(cache[u], chunk)
           ready == ~after.invalid /\ chunk[2] = Chunks - 1
<1>1. /\ stage[u] = "reading" /\ chunkBox[u] # <<>>
      /\ chunkBox' = [chunkBox EXCEPT ![u] = Tail(@)]
      /\ fed' = [fed EXCEPT ![u] = Append(@, chunk)]
      /\ cache' = [cache EXCEPT ![u] = IF ready THEN ResetCache ELSE after]
      /\ shown' = IF ready THEN [shown EXCEPT ![u] = Append(@, after.data)] ELSE shown
      /\ stage' = [stage EXCEPT ![u] = "leaving"] \/ stage' = stage
      /\ UNCHANGED <<answers, awaiting, subscribed, next>>
  BY DEF ReadChunk, UnpackAudioChunk, UnpackCameraImageChunk, Go, sourceVars
<1>2. /\ chunkBox'[u] = Tail(chunkBox[u]) /\ fed'[u] = Append(fed[u], chunk)
      /\ cache'[u] = IF ready THEN ResetCache ELSE after
      /\ shown'[u] = IF ready THEN Append(shown[u], after.data) ELSE shown[u]
      /\ stage'[u] \in {"reading", "leaving"}
      /\ \A v \in Users \ {u} :
           /\ chunkBox'[v] = chunkBox[v] /\ fed'[v] = fed[v] /\ cache'[v] = cache[v]
           /\ shown'[v] = shown[v] /\ stage'[v] = stage[v]
  BY <1>1 DEF FeedsIInv, FeedsType
<1>3. /\ chunkBox[u] \in Seq(Chunk) /\ chunk \in Chunk /\ Tail(chunkBox[u]) \in Seq(Chunk)
      /\ chunk = chunkBox[u][1] /\ 1 \in DOMAIN chunkBox[u]
      /\ Len(Tail(chunkBox[u])) = Len(chunkBox[u]) - 1
      /\ \A n \in DOMAIN Tail(chunkBox[u]) :
           /\ n + 1 \in DOMAIN chunkBox[u] /\ n + 1 > 1
           /\ Tail(chunkBox[u])[n] = chunkBox[u][n + 1]
  BY SMTT(40), <1>1 DEF FeedsIInv, FeedsType
<1>4. fed[u] \in Seq(Chunk) /\ cache[u] \in Cache /\ shown[u] \in Seq(Seq(Chunk))
  BY DEF FeedsIInv, FeedsType
<1>5. /\ FeedBook(u) /\ ChunksInOrder(u) /\ Begun(cache[u], fed[u]) /\ Exact(shown[u], fed[u])
  BY <1>1 DEF FeedsIInv, Feeding
<1> HIDE DEF chunk
<1>6. Rising(fed[u]) /\ \A m \in DOMAIN fed[u] : Before(fed[u][m], chunk)
  BY <1>3, <1>5 DEF ChunksInOrder
<1>7. PICK i \in 0..(Images - 1), p \in 0..(Chunks - 1) : i = chunk[1] /\ p = chunk[2] /\ chunk = <<i, p>>
  BY <1>3 DEF Chunk
<1>8. /\ after \in Cache
      /\ \/ /\ after.image = i /\ after.last = p /\ ~after.invalid
            /\ after.data = [k \in 1..(p + 1) |-> <<i, k - 1>>] /\ UpTo(i, p, fed'[u])
         \/ after.image = -1 /\ after.invalid /\ ~UpTo(i, p, fed'[u])
  <2>1. PICK kept \in Cache, chunks \in Seq(Chunk) : kept = cache[u] /\ chunks = fed[u]
    BY <1>4
  <2>2. PICK more, new : more = Append(chunks, chunk) /\ new = UnpackChunk(kept, chunk)
    OBVIOUS
  <2>3. Begun(kept, chunks) /\ Rising(chunks) /\ \A m \in DOMAIN chunks : Before(chunks[m], chunk)
    BY <1>5, <1>6, <2>1
  <2>4. /\ new \in Cache
        /\ \/ /\ new.image = chunk[1] /\ new.last = chunk[2] /\ ~new.invalid
              /\ new.data = [k \in 1..(chunk[2] + 1) |-> <<chunk[1], k - 1>>]
              /\ UpTo(chunk[1], chunk[2], more)
           \/ new.image = -1 /\ new.invalid /\ ~UpTo(chunk[1], chunk[2], more)
    <3>1. chunk \in Chunk
      BY <1>3
    <3> QED
      BY <2>2, <2>3, <3>1, GoesOn, Zenon
  <2>5. more = fed'[u] /\ new = after
    BY <1>2, <2>1, <2>2
  <2> HIDE DEF after
  <2> QED
    BY <1>7, <2>4, <2>5
<1> HIDE DEF after
<1>9. /\ fed'[u] \in Seq(Chunk) /\ Len(fed'[u]) = Len(fed[u]) + 1 /\ fed'[u][Len(fed'[u])] = chunk
      /\ \A n \in DOMAIN fed[u] : n \in DOMAIN fed'[u] /\ fed'[u][n] = fed[u][n]
  BY SMTT(40), <1>2, <1>3, <1>4, OneMore
<1>10. ready <=> p = Chunks - 1 /\ UpTo(i, p, fed'[u])
  BY <1>7, <1>8
<1>11. ready => after.data = ImageOf(i)
  <2>1. p = Chunks - 1 => p + 1 = Chunks
    BY FeedsAssumption
  <2> QED
    BY <1>8, <1>10, <2>1 DEF ImageOf
<1>12. FeedsType'
  <2>1. cache' \in [Users -> Cache]
    <3>1. PICK new \in Cache : new = IF ready THEN ResetCache ELSE after
      BY <1>8, NothingBegun
    <3>2. cache' = [cache EXCEPT ![u] = new]
      BY <1>1, <3>1
    <3> QED
      BY <3>2 DEF FeedsIInv, FeedsType
  <2>2. shown' \in [Users -> Seq(Seq(Chunk))]
    <3>1. after.data \in Seq(Chunk)
      BY <1>8 DEF Cache
    <3> QED
      BY <1>1, <3>1 DEF FeedsIInv, FeedsType
  <2>3. chunkBox' \in [Users -> Seq(Chunk)] /\ fed' \in [Users -> Seq(Chunk)]
    BY SMTT(40), <1>1, <1>3, <1>4 DEF FeedsIInv, FeedsType
  <2>4. stage' \in [Users -> Stages]
    <3>1. "leaving" \in Stages
      BY DEF Stages
    <3> QED
      BY <1>1, <3>1 DEF FeedsIInv, FeedsType
  <2> QED
    BY <1>1, <2>1, <2>2, <2>3, <2>4 DEF FeedsIInv, FeedsType
<1>13. FeedBook(u)'
  <2>1. Len(chunkBox'[u]) <= FeedCapacity
    BY <1>2, <1>3, <1>5, FeedsAssumption DEF FeedBook
  <2> QED
    BY <1>1, <1>2, <1>5, <2>1 DEF FeedBook
<1>14. ChunksInOrder(u)'
  <2>1. DOMAIN fed'[u] = 1..(Len(fed[u]) + 1) /\ DOMAIN fed[u] = 1..Len(fed[u]) /\ Len(fed[u]) \in Nat
    BY <1>4, <1>9
  <2>2. Rising(fed'[u])
    BY SMTT(40), <1>6, <1>9, <2>1 DEF Rising
  <2>3. Rising(chunkBox'[u])
    BY SMTT(40), <1>2, <1>3, <1>5 DEF ChunksInOrder, Rising
  <2>4. \A n \in DOMAIN chunkBox'[u] : Before(chunk, chunkBox'[u][n])
    BY <1>2, <1>3, <1>5 DEF ChunksInOrder, Rising
  <2>5. \A m \in DOMAIN fed'[u], n \in DOMAIN chunkBox'[u] : Before(fed'[u][m], chunkBox'[u][n])
    BY SMTT(40), <1>2, <1>3, <1>5, <1>9, <2>1, <2>4 DEF ChunksInOrder
  <2>6. \A m \in DOMAIN fed'[u] : Before(fed'[u][m], next)
    BY SMTT(40), <1>3, <1>5, <1>9, <2>1 DEF ChunksInOrder
  <2>7. \A n \in DOMAIN chunkBox'[u] : Before(chunkBox'[u][n], next)
    BY <1>2, <1>3, <1>5 DEF ChunksInOrder
  <2> QED
    BY <1>1, <2>2, <2>3, <2>5, <2>6, <2>7 DEF ChunksInOrder
<1>15. Begun(cache'[u], fed'[u])
  <2>1. CASE ready
    <3>1. cache'[u].image = -1
      BY <1>2, <2>1 DEF ResetCache
    <3>2. \A image \in 0..(Images - 1), place \in 0..(Chunks - 2) :
            fed'[u][Len(fed'[u])] # <<image, place>>
      BY <1>7, <1>9, <1>10, <2>1, FeedsAssumption
    <3> QED
      BY <3>1, <3>2 DEF Begun
  <2>2. CASE ~ready
    <3>1. cache'[u] = after
      BY <1>2, <2>2
    <3>2. after.image = -1 \/
            /\ after.image \in 0..(Images - 1) /\ after.last \in 0..(Chunks - 2) /\ ~after.invalid
            /\ after.data = [k \in 1..(after.last + 1) |-> <<after.image, k - 1>>]
            /\ UpTo(after.image, after.last, fed'[u])
      <4>1. p # Chunks - 1 => p \in 0..(Chunks - 2)
        BY FeedsAssumption
      <4> QED
        BY <1>8, <1>10, <2>2, <4>1
    <3>3. ASSUME NEW image \in 0..(Images - 1), NEW place \in 0..(Chunks - 2),
                 fed'[u][Len(fed'[u])] = <<image, place>>, UpTo(image, place, fed'[u])
          PROVE  after.image = image /\ after.last = place
      <4>1. image = i /\ place = p
        BY <1>7, <1>9, <3>3
      <4> QED
        BY <1>8, <3>3, <4>1
    <3> QED
      BY <3>1, <3>2, <3>3 DEF Begun
  <2> QED
    BY <2>1, <2>2
<1>16. Exact(shown'[u], fed'[u])
  <2>1. PICK more : more = Append(fed[u], chunk)
    OBVIOUS
  <2>2. /\ p = Chunks - 1 /\ UpTo(i, p, more) => Exact(Append(shown[u], ImageOf(i)), more)
        /\ ~(p = Chunks - 1 /\ UpTo(i, p, more)) => Exact(shown[u], more)
    BY <1>3, <1>4, <1>5, <1>6, <1>7, <2>1, StaysExact
  <2> QED
    BY <1>2, <1>10, <1>11, <2>1, <2>2
<1>17. Feeding(u)'
  BY <1>13, <1>14, <1>15, <1>16 DEF Feeding
<1>18. \A v \in Users : Len(answers'[v]) <= 1
  BY <1>1 DEF FeedsIInv, Feeding, FeedBook
<1>19. \A v \in Users \ {u} : Feeding(v)'
  BY <1>1, <1>2, <1>18, SameUser DEF FeedsIInv
<1> QED
  BY <1>12, <1>17, <1>19 DEF FeedsIInv

LEMMA NextFollows ==
  ASSUME FeedsType, next[1] < Images, next' = FollowingChunk(next)
  PROVE  /\ next \in Chunk /\ next' \in (0..Images) \X (0..(Chunks - 1))
         /\ Before(next, next')
         /\ \A chunk \in Chunk : Before(chunk, next) => Before(chunk, next')
<1>1. PICK i \in 0..Images, p \in 0..(Chunks - 1) : next = <<i, p>>
  BY DEF FeedsType
<1>2. i \in 0..(Images - 1)
  BY <1>1, FeedsAssumption
<1>3. PICK j \in 0..Images, q \in 0..(Chunks - 1) :
        next' = <<j, q>> /\ ((j = i + 1 /\ q = 0) \/ (j = i /\ q = p + 1))
  BY <1>1, <1>2, FeedsAssumption DEF FollowingChunk
<1>4. \A chunk \in Chunk : chunk[1] \in Int /\ chunk[2] \in Int
  BY FeedsAssumption DEF Chunk
<1> QED
  BY <1>1, <1>2, <1>3, <1>4, FeedsAssumption DEF Chunk, Before

LEMMA EngineSwitchesKeeps == FeedsIInv /\ EngineSwitches => FeedsIInv'
<1> SUFFICES ASSUME FeedsIInv, EngineSwitches
             PROVE  FeedsIInv'
  OBVIOUS
<1>1. UNCHANGED <<stage, chunkBox, subscribed, cache, fed, shown, next>>
  BY DEF EngineSwitches, dataVars
<1>2. awaiting' \subseteq awaiting
  BY DEF EngineSwitches
<1>3. PICK full \in SUBSET Users, taking \in SUBSET Users :
        answers' = [u \in Users |-> IF u \in taking THEN <<"answer">>
                                   ELSE IF u \in full THEN <<>> ELSE answers[u]]
  BY DEF EngineSwitches, FeedsIInv, FeedsType
<1>4. answers' \in [Users -> Seq({"answer"})] /\ \A u \in Users : Len(answers'[u]) <= 1
  <2>1. \A u \in Users : answers[u] \in Seq({"answer"}) /\ Len(answers[u]) <= 1
    BY DEF FeedsIInv, FeedsType, Feeding, FeedBook
  <2>2. ASSUME NEW u \in Users
        PROVE  answers'[u] \in Seq({"answer"}) /\ Len(answers'[u]) <= 1
    <3>1. \/ answers'[u] = <<"answer">> \/ answers'[u] = <<>> \/ answers'[u] = answers[u]
      BY <1>3
    <3>2. CASE answers'[u] = <<"answer">>
      BY <3>2
    <3>3. CASE answers'[u] = <<>>
      BY <3>3
    <3>4. CASE answers'[u] = answers[u]
      BY <2>1, <3>4
    <3> QED
      BY <3>1, <3>2, <3>3, <3>4
  <2>3. answers' = [u \in Users |-> answers'[u]]
    BY <1>3
  <2> QED
    BY <2>2, <2>3
<1>5. FeedsType'
  BY <1>1, <1>2, <1>4 DEF FeedsIInv, FeedsType
<1>6. \A u \in Users : Feeding(u)'
  BY <1>1, <1>2, <1>4, SameUser DEF FeedsIInv
<1> QED
  BY <1>5, <1>6 DEF FeedsIInv

LEMMA EngineLosesKeeps == FeedsIInv /\ EngineLoses => FeedsIInv'
<1> SUFFICES ASSUME FeedsIInv, EngineLoses
             PROVE  FeedsIInv'
  OBVIOUS
<1>1. /\ UNCHANGED <<stage, answers, awaiting, chunkBox, subscribed, cache, fed, shown>>
      /\ next[1] < Images /\ next' = FollowingChunk(next)
  BY DEF EngineLoses, dataVars, userVars
<1>2. FeedsType /\ FeedsType'
  BY <1>1, NextFollows DEF FeedsIInv, FeedsType
<1>3. ASSUME NEW u \in Users
      PROVE  Feeding(u)'
  <2>1. FeedBook(u)'
    BY <1>1 DEF FeedsIInv, Feeding, FeedBook
  <2>2. ChunksInOrder(u)'
    <3>1. /\ \A m \in DOMAIN fed[u] : fed[u][m] \in Chunk /\ Before(fed[u][m], next)
          /\ \A n \in DOMAIN chunkBox[u] : chunkBox[u][n] \in Chunk /\ Before(chunkBox[u][n], next)
      BY SMTT(40), <1>2 DEF FeedsIInv, FeedsType, Feeding, ChunksInOrder
    <3>2. \A chunk \in Chunk : Before(chunk, next) => Before(chunk, next')
      BY <1>1, <1>2, NextFollows
    <3> QED
      BY <1>1, <3>1, <3>2 DEF FeedsIInv, Feeding, ChunksInOrder
  <2>3. (stage'[u] = "reading" => Begun(cache'[u], fed'[u])) /\ Exact(shown'[u], fed'[u])
    BY <1>1 DEF FeedsIInv, Feeding
  <2> QED
    BY <2>1, <2>2, <2>3 DEF Feeding
<1> QED
  BY <1>2, <1>3 DEF FeedsIInv

\* The engine's next chunk is after all those on their way, also where one that does
\* not fit costs the channel its oldest.
LEMMA EngineSendsKeeps == FeedsIInv /\ EngineSends => FeedsIInv'
<1> SUFFICES ASSUME FeedsIInv, EngineSends
             PROVE  FeedsIInv'
  OBVIOUS
<1> DEFINE full == {u \in subscribed : Len(chunkBox[u]) = FeedCapacity}
<1>1. /\ UNCHANGED <<stage, answers, awaiting, cache, fed, shown>>
      /\ next[1] < Images /\ next' = FollowingChunk(next)
      /\ subscribed' = subscribed \ full
      /\ chunkBox' = [u \in Users |-> IF u \in full THEN Tail(chunkBox[u])
                                      ELSE IF u \in subscribed THEN Append(chunkBox[u], next)
                                      ELSE chunkBox[u]]
  BY DEF EngineSends, userVars
<1>2. /\ next \in Chunk /\ next' \in (0..Images) \X (0..(Chunks - 1)) /\ Before(next, next')
      /\ \A chunk \in Chunk : Before(chunk, next) => Before(chunk, next')
  BY <1>1, NextFollows DEF FeedsIInv
<1>3. ASSUME NEW u \in Users
      PROVE  /\ chunkBox'[u] \in Seq(Chunk) /\ Len(chunkBox'[u]) <= FeedCapacity
             /\ u \notin subscribed => chunkBox'[u] = chunkBox[u]
             /\ Rising(chunkBox'[u])
             /\ \A n \in DOMAIN chunkBox'[u] :
                  chunkBox'[u][n] = next \/ \E m \in DOMAIN chunkBox[u] : chunkBox'[u][n] = chunkBox[u][m]
  <2>1. /\ chunkBox[u] \in Seq(Chunk) /\ Len(chunkBox[u]) <= FeedCapacity /\ Rising(chunkBox[u])
        /\ \A n \in DOMAIN chunkBox[u] : Before(chunkBox[u][n], next)
    BY DEF FeedsIInv, FeedsType, Feeding, FeedBook, ChunksInOrder
  <2>2. CASE u \in full
    <3>1. chunkBox'[u] = Tail(chunkBox[u]) /\ chunkBox[u] # <<>>
      BY <1>1, <2>2, FeedsAssumption
    <3>2. /\ Tail(chunkBox[u]) \in Seq(Chunk) /\ Len(Tail(chunkBox[u])) = Len(chunkBox[u]) - 1
          /\ \A n \in DOMAIN Tail(chunkBox[u]) :
               n \in Nat /\ n + 1 \in DOMAIN chunkBox[u] /\ Tail(chunkBox[u])[n] = chunkBox[u][n + 1]
      BY <2>1, <3>1
    <3>3. Rising(Tail(chunkBox[u]))
      BY <2>1, <3>2 DEF Rising
    <3>4. Len(chunkBox'[u]) <= FeedCapacity
      BY <2>1, <3>1, <3>2, FeedsAssumption
    <3> QED
      BY <2>2, <3>1, <3>2, <3>3, <3>4
  <2>3. CASE u \in subscribed \ full
    <3>1. chunkBox'[u] = Append(chunkBox[u], next) /\ Len(chunkBox[u]) # FeedCapacity
      BY <1>1, <2>3
    <3>2. PICK held \in Seq(Chunk) : held = chunkBox[u]
      BY <2>1
    <3>3. PICK more : more = Append(held, next)
      OBVIOUS
    <3>4. /\ more \in Seq(Chunk) /\ Len(more) = Len(held) + 1 /\ Len(held) \in Nat
          /\ DOMAIN more = 1..(Len(held) + 1) /\ DOMAIN held = 1..Len(held)
          /\ more[Len(held) + 1] = next /\ \A n \in 1..Len(held) : more[n] = held[n]
      BY <1>2, <3>2, <3>3
    <3>5. Rising(more)
      BY <2>1, <3>2, <3>3, <3>4 DEF Rising
    <3>6. Len(more) <= FeedCapacity
      BY <2>1, <3>1, <3>2, <3>3, <3>4, FeedsAssumption
    <3>7. \A n \in DOMAIN more : more[n] = next \/ \E m \in DOMAIN held : more[n] = held[m]
      BY <3>4
    <3> QED
      BY <2>3, <3>1, <3>2, <3>3, <3>4, <3>5, <3>6, <3>7
  <2>4. CASE u \notin subscribed
    BY <1>1, <2>1, <2>4
  <2> QED
    BY <2>2, <2>3, <2>4
<1>4. FeedsType'
  <2>1. chunkBox' = [u \in Users |-> chunkBox'[u]]
    BY <1>1
  <2>2. chunkBox' \in [Users -> Seq(Chunk)]
    BY <1>3, <2>1
  <2> QED
    BY <1>1, <1>2, <2>2 DEF FeedsIInv, FeedsType
<1>5. ASSUME NEW u \in Users
      PROVE  Feeding(u)'
  <2>1. FeedBook(u)'
    BY <1>1, <1>3 DEF FeedsIInv, Feeding, FeedBook
  <2>2. ChunksInOrder(u)'
    <3>1. /\ \A m \in DOMAIN fed[u] : fed[u][m] \in Chunk /\ Before(fed[u][m], next)
          /\ \A n \in DOMAIN chunkBox[u] : chunkBox[u][n] \in Chunk /\ Before(chunkBox[u][n], next)
          /\ \A m \in DOMAIN fed[u], n \in DOMAIN chunkBox[u] : Before(fed[u][m], chunkBox[u][n])
          /\ Rising(fed[u])
      BY DEF FeedsIInv, FeedsType, Feeding, ChunksInOrder
    <3>2. \A m \in DOMAIN fed[u] : Before(fed[u][m], next')
      BY <1>2, <3>1
    <3>3. \A n \in DOMAIN chunkBox'[u] : Before(chunkBox'[u][n], next')
      BY <1>2, <1>3, <3>1
    <3>4. \A m \in DOMAIN fed[u], n \in DOMAIN chunkBox'[u] : Before(fed[u][m], chunkBox'[u][n])
      BY <1>3, <3>1
    <3> QED
      BY <1>1, <1>3, <3>1, <3>2, <3>3, <3>4 DEF ChunksInOrder
  <2>3. (stage'[u] = "reading" => Begun(cache'[u], fed'[u])) /\ Exact(shown'[u], fed'[u])
    BY <1>1 DEF FeedsIInv, Feeding
  <2> QED
    BY <2>1, <2>2, <2>3 DEF Feeding
<1> QED
  BY <1>4, <1>5 DEF FeedsIInv

-----------------------------------------------------------------------------
LEMMA HandleFeedKeeps ==
  ASSUME FeedsIInv, NEW u \in Users, HandleFeed(u)
  PROVE  FeedsIInv'
<1> USE DEF Go, sourceVars, Early
<1>1. /\ u \in awaiting => stage[u] \in {"enabling", "disabling"}
      /\ u \in subscribed => stage[u] \in {"reading", "leaving"}
  BY DEF FeedsIInv, Feeding, FeedBook
<1>2. ASSUME SwitchOn(u) PROVE FeedsIInv'
  BY <1>1, <1>2, StageKeeps DEF SwitchOn, Switches
<1>3. ASSUME SwitchOnFails(u) PROVE FeedsIInv'
  BY <1>1, <1>3, StageKeeps DEF SwitchOnFails
<1>4. ASSUME Answered(u, "enabling", "enabled") \/ Answered(u, "disabling", "gone")
      PROVE  FeedsIInv'
  BY <1>1, <1>4, StageKeeps DEF Answered
<1>5. ASSUME Unanswered(u, "enabling", "left on") \/ Unanswered(u, "disabling", "gone")
      PROVE  FeedsIInv'
  BY <1>1, <1>5, StageKeeps DEF Unanswered
<1>6. ASSUME StreamDied(u) PROVE FeedsIInv'
  BY <1>1, <1>6, StageKeeps DEF StreamDied
<1>7. ASSUME SwitchOff(u) PROVE FeedsIInv'
  BY <1>1, <1>7, StageKeeps DEF SwitchOff, Switches
<1>8. ASSUME SwitchOffFails(u) PROVE FeedsIInv'
  BY <1>1, <1>8, StageKeeps DEF SwitchOffFails
<1> QED
  BY <1>2, <1>3, <1>4, <1>5, <1>6, <1>7, <1>8, SubscribeKeeps, ReadChunkKeeps, UnsubscribeKeeps
  DEF HandleFeed

LEMMA FeedsNextIInv == FeedsIInv /\ [FeedsNext]_feedsVars => FeedsIInv'
<1> SUFFICES ASSUME FeedsIInv, [FeedsNext]_feedsVars
             PROVE  FeedsIInv'
  OBVIOUS
<1>1. CASE FeedsNext
  BY <1>1, HandleFeedKeeps, EngineSwitchesKeeps, EngineSendsKeeps, EngineLosesKeeps DEF FeedsNext
<1>2. CASE UNCHANGED feedsVars
  <2>1. UNCHANGED <<stage, answers, awaiting, chunkBox, subscribed, cache, fed, shown, next>>
    BY <1>2 DEF feedsVars, userVars, dataVars, sourceVars
  <2>2. FeedsType'
    BY <2>1 DEF FeedsIInv, FeedsType
  <2>3. \A u \in Users : Len(answers[u]) <= 1 /\ Feeding(u)
    BY DEF FeedsIInv, Feeding, FeedBook
  <2>4. \A u \in Users : Feeding(u)'
    BY <2>1, <2>3, SameUser
  <2> QED
    BY <2>2, <2>4 DEF FeedsIInv
<1> QED
  BY <1>1, <1>2

\* The feeds keep their book, and the chunks stay in order on their way.
THEOREM FeedsInductive == FeedsSpec => []FeedsIInv
  BY FeedsInitIInv, FeedsNextIInv, PTL DEF FeedsSpec

\* What FeedsIInv says of the channels and of the images.
LEMMA FeedsInvType == FeedsIInv => FeedsTypeOK
  BY DEF FeedsIInv, FeedsType, Feeding, FeedBook, FeedsTypeOK

LEMMA FeedsInvExact == FeedsIInv => ExactlyTheWholeImages
  BY DEF FeedsIInv, Feeding, Exact, ExactlyTheWholeImages

\* For any number of users, images and chunks, and whatever is lost or overflows: a
\* client is sent exactly the images of which every chunk has arrived.
THEOREM ImagesAlwaysExact == FeedsSpec => []ExactlyTheWholeImages
  BY FeedsInvExact, FeedsInductive, PTL

-----------------------------------------------------------------------------
\* The commands to the source.
SourceBook == commands \in Seq({"on", "off"}) /\ SourceFollowsUsers

LEMMA FeedsInitSource == FeedsInit \/ FeedsIdle => SourceBook
<1> SUFFICES ASSUME FeedsInit \/ FeedsIdle
             PROVE  SourceBook
  OBVIOUS
<1>1. commands = <<>> /\ running = FALSE /\ Using = {}
  BY DEF FeedsInit, FeedsIdle, FeedsStart, Using
<1>2. commands \in Seq({"on", "off"})
  BY <1>1
<1> QED
  BY <1>1, <1>2 DEF SourceBook, SourceFollowsUsers, SetOn

\* The last command is the one that counts, whatever the engine has read.
LEMMA LastCommandCounts ==
  ASSUME commands \in Seq({"on", "off"})
  PROVE  /\ EngineSwitches => commands' \in Seq({"on", "off"}) /\ SetOn' = SetOn
         /\ \A command \in {"on", "off"} : commands' = Append(commands, command) =>
              commands' \in Seq({"on", "off"}) /\ SetOn' = (command = "on")
<1>1. ASSUME EngineSwitches PROVE commands' \in Seq({"on", "off"}) /\ SetOn' = SetOn
  <2>1. commands # <<>> /\ commands' = Tail(commands) /\ running' = (Head(commands) = "on")
    BY <1>1 DEF EngineSwitches
  <2>2. PICK left \in Seq({"on", "off"}), n \in Nat : left = Tail(commands) /\ n = Len(left)
    BY <2>1
  <2>3. /\ Len(commands) = n + 1 /\ Head(commands) = commands[1]
        /\ \A k \in 1..n : left[k] = commands[k + 1]
    BY <2>1, <2>2
  <2>4. SetOn = (commands[n + 1] = "on")
    BY <2>1, <2>3 DEF SetOn
  <2>5. CASE n = 0
    <3>1. left = <<>>
      BY <2>2, <2>5
    <3> QED
      BY <2>1, <2>2, <2>3, <2>4, <2>5, <3>1 DEF SetOn
  <2>6. CASE n > 0
    <3>1. left # <<>> /\ left[n] = commands[n + 1]
      BY <2>2, <2>3, <2>6, SMTT(40)
    <3> QED
      BY <2>1, <2>2, <2>4, <3>1 DEF SetOn
  <2> QED
    BY <2>5, <2>6
<1>2. ASSUME NEW command \in {"on", "off"}, commands' = Append(commands, command)
      PROVE  commands' \in Seq({"on", "off"}) /\ SetOn' = (command = "on")
  <2>1. /\ commands' \in Seq({"on", "off"}) /\ commands' # <<>>
        /\ commands'[Len(commands')] = command
    BY <1>2
  <2> QED
    BY <2>1 DEF SetOn
<1> QED
  BY <1>1, <1>2

\* A handler that moves on without a command of its own.
LEMMA SourceKept ==
  ASSUME FeedsType, SourceBook, NEW u \in Users, NEW to,
         stage' = [stage EXCEPT ![u] = to], UNCHANGED <<commands, running>>,
         u \in Using => to \in {"enabled", "reading", "leaving", "unsubscribed", "left on"},
         u \notin Using => to \in {"failed", "gone"},
         stage[u] # "left on",
         u \in Finished => to = "gone"
  PROVE  SourceBook'
<1>1. stage'[u] = to /\ \A v \in Users \ {u} : stage'[v] = stage[v]
  BY DEF FeedsType
<1>2. SetOn' = SetOn /\ commands' \in Seq({"on", "off"})
  BY DEF SetOn, SourceBook
<1>3. SetOn => Using' # {} \/ \E v \in Users : stage'[v] = "left on"
  BY <1>1 DEF SourceBook, SourceFollowsUsers, Using
<1>4. Using' \subseteq Using /\ Finished \subseteq Finished'
  BY <1>1 DEF Using, Finished
<1>5. ~SetOn => \A v \in Using' : Finished' \ {v} # {}
  BY <1>4 DEF SourceBook, SourceFollowsUsers
<1> QED
  BY <1>2, <1>3, <1>5 DEF SourceBook, SourceFollowsUsers

LEMMA HandlerKeepsSource ==
  ASSUME FeedsType, SourceBook, NEW u \in Users, HandleFeed(u)
  PROVE  SourceBook'
<1> USE DEF Go, sourceVars
<1>1. ASSUME SwitchOn(u) PROVE SourceBook'
  <2>1. /\ commands' = Append(commands, "on")
        /\ \E to \in {"enabled", "enabling"} : stage' = [stage EXCEPT ![u] = to]
    BY <1>1 DEF SwitchOn, Switches
  <2>2. u \in Using'
    BY <2>1 DEF FeedsType, Using
  <2>3. SetOn' /\ commands' \in Seq({"on", "off"})
    BY <2>1, LastCommandCounts DEF SourceBook
  <2> QED
    BY <2>2, <2>3 DEF SourceBook, SourceFollowsUsers
<1>2. ASSUME SwitchOff(u) PROVE SourceBook'
  <2>1. /\ commands' = Append(commands, "off")
        /\ \E to \in {"gone", "disabling"} : stage' = [stage EXCEPT ![u] = to]
    BY <1>2 DEF SwitchOff, Switches
  <2>2. u \in Finished' /\ u \notin Using'
    BY <2>1 DEF FeedsType, Using, Finished
  <2>3. ~SetOn' /\ commands' \in Seq({"on", "off"})
    BY <2>1, LastCommandCounts DEF SourceBook
  <2> QED
    BY <2>2, <2>3 DEF SourceBook, SourceFollowsUsers
<1>3. ASSUME SwitchOnFails(u) PROVE SourceBook'
  BY <1>3, SourceKept DEF SwitchOnFails, Using, Finished
<1>4. ASSUME Answered(u, "enabling", "enabled") \/ Unanswered(u, "enabling", "left on")
      PROVE  SourceBook'
  BY <1>4, SourceKept DEF Answered, Unanswered, Using, Finished
<1>5. ASSUME Answered(u, "disabling", "gone") \/ Unanswered(u, "disabling", "gone")
      PROVE  SourceBook'
  BY <1>5, SourceKept DEF Answered, Unanswered, Using, Finished
<1>6. ASSUME Subscribe(u) \/ StreamDied(u) \/ Unsubscribe(u) \/ SwitchOffFails(u)
      PROVE  SourceBook'
  BY <1>6, SourceKept DEF Subscribe, StreamDied, Unsubscribe, SwitchOffFails, Using, Finished
<1>7. ASSUME ReadChunk(u) PROVE SourceBook'
  <2>1. stage[u] = "reading" /\ UNCHANGED <<commands, running>>
    BY <1>7 DEF ReadChunk
  <2>2. stage' = [stage EXCEPT ![u] = "leaving"] \/ stage' = [stage EXCEPT ![u] = "reading"]
    BY <1>7, <2>1 DEF ReadChunk, FeedsType
  <2> QED
    BY <2>1, <2>2, SourceKept DEF Using, Finished
<1> QED
  BY <1>1, <1>2, <1>3, <1>4, <1>5, <1>6, <1>7 DEF HandleFeed

LEMMA FeedsNextSource == FeedsIInv /\ SourceBook /\ [FeedsNext]_feedsVars => SourceBook'
<1> SUFFICES ASSUME FeedsIInv, SourceBook, [FeedsNext]_feedsVars
             PROVE  SourceBook'
  OBVIOUS
<1>1. ASSUME UNCHANGED stage, SetOn' = SetOn, commands' \in Seq({"on", "off"})
      PROVE  SourceBook'
  BY <1>1 DEF SourceBook, SourceFollowsUsers, Using, Finished
<1>2. CASE \E u \in Users : HandleFeed(u)
  BY <1>2, HandlerKeepsSource DEF FeedsIInv
<1>3. CASE EngineSwitches
  BY <1>1, <1>3, LastCommandCounts DEF EngineSwitches, SourceBook
<1>4. CASE EngineSends \/ EngineLoses \/ UNCHANGED feedsVars
  <2>1. UNCHANGED <<stage, commands, running>>
    BY <1>4 DEF EngineSends, EngineLoses, feedsVars, userVars, sourceVars
  <2> QED
    BY <1>1, <2>1 DEF SetOn, SourceBook
<1> QED
  BY <1>2, <1>3, <1>4 DEF FeedsNext

\* For any number of users that come and go at the same time, and whichever of their
\* writes fail: the source is left on only for one that uses it or that could not
\* switch it off, and switched off under a user only by another one that has finished.
THEOREM SourceAlwaysFollows == FeedsSpec => []SourceFollowsUsers
<1>1. SourceBook => SourceFollowsUsers
  BY DEF SourceBook
<1> QED
  BY <1>1, FeedsInitSource, FeedsNextSource, FeedsInductive, PTL DEF FeedsSpec

-----------------------------------------------------------------------------
(* The map feed.                                                           *)

MapKinds == {"begin", "data", "end"}

MapMessages == MapKinds \X (1..Maps) \X (0..(Parts + 1))

\* The first n messages of a map.
PartOf(map, n) == [k \in 1..n |-> MapMessage(map, k - 1)]

NavMapType ==
  /\ feedAt \in {"start", "reading", "leaving", "returned"} \cup MapKinds
  /\ registered \subseteq MapKinds
  /\ mapBox \in [MapKinds -> Seq(MapMessages)]
  /\ pendingMap \in Seq(MapMessages)
  /\ mapsSent \in Seq(Seq(MapMessages))
  /\ upcoming \in (1..(Maps + 1)) \X (0..(Parts + 1))
  /\ hurried \in BOOLEAN

NavMapBook ==
  /\ \A kind \in MapKinds :
       /\ Len(mapBox[kind]) <= MapCapacity(kind)
       /\ \A i \in DOMAIN mapBox[kind] : mapBox[kind][i][1] = kind
  /\ pendingMap = <<>> \/ pendingMap[1][1] = "begin"

\* Whatever is pending is all of a map up to the message (map, place).
PendingUpTo(map, place) == pendingMap = <<>> \/ (place > 0 /\ pendingMap = PartOf(map, place))

NoneOnItsWay == \A kind \in MapKinds : mapBox[kind] = <<>>

\* One message is in its channel, and the engine's next one follows it.
OneOnItsWay ==
  \E map \in 1..Maps, place \in 0..(Parts + 1) :
    /\ upcoming = FollowingMessage(<<map, place>>)
    /\ \A kind \in MapKinds :
         mapBox[kind] = IF kind = MapMessage(map, place)[1] THEN <<MapMessage(map, place)>>
                                                             ELSE <<>>
    /\ PendingUpTo(map, place)

\* As long as every message has found the handler waiting.
TakenInTurn ==
  /\ \A n \in DOMAIN mapsSent : \E map \in 1..Maps : mapsSent[n] = Map(map)
  /\ feedAt \in {"start"} \cup MapKinds => NoneOnItsWay /\ pendingMap = <<>>
  /\ feedAt \in {"start", "begin"} => registered = {}
  /\ feedAt = "data" => registered = {"begin"}
  /\ feedAt = "end" => registered = {"begin", "data"}
  /\ feedAt = "reading" =>
       /\ registered = MapKinds
       /\ (NoneOnItsWay /\ PendingUpTo(upcoming[1], upcoming[2])) \/ OneOnItsWay

NavMapIInv == NavMapType /\ NavMapBook /\ (hurried \/ TakenInTurn)

-----------------------------------------------------------------------------
LEMMA KindsAre ==
  /\ DOMAIN Kinds = 1..3 /\ Len(Kinds) = 3
  /\ Kinds[1] = "begin" /\ Kinds[2] = "data" /\ Kinds[3] = "end"
  /\ ToSet(Kinds) = MapKinds
<1>1. /\ DOMAIN Kinds = 1..3 /\ Len(Kinds) = 3
      /\ Kinds[1] = "begin" /\ Kinds[2] = "data" /\ Kinds[3] = "end"
  BY DEF Kinds
<1> QED
  BY <1>1 DEF ToSet, MapKinds

LEMMA MessageIs ==
  ASSUME NEW map \in 1..Maps, NEW place \in 0..(Parts + 1)
  PROVE  /\ MapMessage(map, place) \in MapMessages
         /\ MapMessage(map, place)[1] = "begin" <=> place = 0
         /\ MapMessage(map, place)[1] = "data" <=> place \in 1..Parts
         /\ MapMessage(map, place)[1] = "end" <=> place = Parts + 1
         /\ FollowingMessage(<<map, place>>) \in (1..(Maps + 1)) \X (0..(Parts + 1))
         /\ place # Parts + 1 => FollowingMessage(<<map, place>>) = <<map, place + 1>>
         /\ place = Parts + 1 => FollowingMessage(<<map, place>>) = <<map + 1, 0>>
<1>1. MapMessage(map, place) =
        <<IF place = 0 THEN "begin" ELSE IF place <= Parts THEN "data" ELSE "end", map, place>>
  BY DEF MapMessage
<1>2. /\ MapMessage(map, place)[1] = "begin" <=> place = 0
      /\ MapMessage(map, place)[1] = "data" <=> place \in 1..Parts
      /\ MapMessage(map, place)[1] = "end" <=> place = Parts + 1
  BY <1>1, NavMapAssumption
<1>3. MapMessage(map, place) \in MapMessages
  BY <1>1 DEF MapMessages, MapKinds
<1>4. /\ FollowingMessage(<<map, place>>) \in (1..(Maps + 1)) \X (0..(Parts + 1))
      /\ place # Parts + 1 => FollowingMessage(<<map, place>>) = <<map, place + 1>>
      /\ place = Parts + 1 => FollowingMessage(<<map, place>>) = <<map + 1, 0>>
  BY NavMapAssumption DEF FollowingMessage
<1> QED
  BY <1>2, <1>3, <1>4

LEMMA OnePartMore ==
  ASSUME NEW map \in 1..Maps, NEW place \in 0..Parts
  PROVE  /\ PartOf(map, place) \in Seq(MapMessages)
         /\ Append(PartOf(map, place), MapMessage(map, place)) = PartOf(map, place + 1)
         /\ PartOf(map, 1) = <<MapMessage(map, 0)>>
         /\ PartOf(map, Parts + 1) = Map(map)
<1>1. \A q \in 0..(Parts + 1) : MapMessage(map, q) \in MapMessages
  BY MessageIs
<1>2. \A n \in 0..(Parts + 1) :
        /\ PartOf(map, n) \in Seq(MapMessages) /\ Len(PartOf(map, n)) = n
        /\ \A k \in 1..n : PartOf(map, n)[k] = MapMessage(map, k - 1)
  BY <1>1, NavMapAssumption DEF PartOf
<1>3. PICK a \in Seq(MapMessages), b \in Seq(MapMessages) :
        a = PartOf(map, place) /\ b = PartOf(map, place + 1)
  BY <1>2, NavMapAssumption
<1>4. /\ Len(a) = place /\ Len(b) = place + 1
      /\ \A k \in 1..place : a[k] = MapMessage(map, k - 1)
      /\ \A k \in 1..(place + 1) : b[k] = MapMessage(map, k - 1)
  <2>1. place \in 0..(Parts + 1) /\ place + 1 \in 0..(Parts + 1)
    BY NavMapAssumption
  <2>2. Len(a) = place /\ \A k \in 1..place : a[k] = MapMessage(map, k - 1)
    BY <1>2, <1>3, <2>1
  <2>3. Len(b) = place + 1 /\ \A k \in 1..(place + 1) : b[k] = MapMessage(map, k - 1)
    BY <1>2, <1>3, <2>1
  <2> QED
    BY <2>2, <2>3
<1>5. PICK m \in MapMessages : m = MapMessage(map, place)
  BY <1>1, NavMapAssumption
<1>6. b[place + 1] = m
  BY <1>4, <1>5
<1>7. Append(a, m) = b
  <2>1. PICK e : e = Append(a, m)
    OBVIOUS
  <2>2. /\ e \in Seq(MapMessages) /\ Len(e) = place + 1 /\ e[place + 1] = m
        /\ \A k \in 1..place : e[k] = a[k]
    BY <1>4, <2>1
  <2>3. \A k \in 1..(place + 1) : e[k] = b[k]
    BY <1>4, <1>6, <2>2
  <2> QED
    BY <1>4, <2>1, <2>2, <2>3
<1>8. PartOf(map, 1) = <<MapMessage(map, 0)>>
  BY DEF PartOf
<1>9. PartOf(map, Parts + 1) = Map(map)
  BY DEF PartOf, Map
<1> QED
  BY <1>3, <1>5, <1>7, <1>8, <1>9

LEMMA NavMapInitIInv == NavMapInit => NavMapIInv
<1> SUFFICES ASSUME NavMapInit
             PROVE  NavMapIInv
  OBVIOUS
<1>1. /\ feedAt = "start" /\ registered = {} /\ pendingMap = <<>> /\ mapsSent = <<>>
      /\ mapBox = [kind \in MapKinds |-> <<>>] /\ hurried = FALSE
      /\ upcoming \in (1..(Maps + 1)) \X (0..(Parts + 1))
  BY KindsAre, NavMapAssumption DEF NavMapInit, NavMapStart
<1>2. NavMapType
  <2>1. <<>> \in Seq(MapMessages) /\ <<>> \in Seq(Seq(MapMessages))
    OBVIOUS
  <2>2. mapBox \in [MapKinds -> Seq(MapMessages)]
    BY <1>1, <2>1
  <2> QED
    BY <1>1, <2>1, <2>2 DEF NavMapType
<1>3. NavMapBook
  BY <1>1, NavMapAssumption DEF NavMapBook, MapCapacity
<1>4. TakenInTurn
  BY <1>1 DEF TakenInTurn, NoneOnItsWay
<1> QED
  BY <1>2, <1>3, <1>4 DEF NavMapIInv

-----------------------------------------------------------------------------
\* What is in a channel when a message is taken from it, and what is left.
LEMMA Taking ==
  ASSUME NavMapIInv, NEW kind \in MapKinds, Received(kind)
  PROVE  /\ feedAt = "reading"
         /\ Head(mapBox[kind]) \in MapMessages /\ Head(mapBox[kind])[1] = kind
         /\ mapBox' \in [MapKinds -> Seq(MapMessages)]
         /\ \A k \in MapKinds :
              /\ Len(mapBox'[k]) <= MapCapacity(k)
              /\ \A i \in DOMAIN mapBox'[k] : mapBox'[k][i][1] = k
         /\ ~hurried =>
              \E map \in 1..Maps, place \in 0..(Parts + 1) :
                /\ kind = MapMessage(map, place)[1] /\ Head(mapBox[kind]) = MapMessage(map, place)
                /\ upcoming = FollowingMessage(<<map, place>>)
                /\ \A k \in MapKinds : mapBox'[k] = <<>>
                /\ PendingUpTo(map, place)
<1>1. /\ feedAt = "reading" /\ mapBox[kind] # <<>>
      /\ mapBox' = [mapBox EXCEPT ![kind] = Tail(@)]
  BY DEF Received
<1>2. /\ mapBox[kind] \in Seq(MapMessages) /\ Len(mapBox[kind]) <= MapCapacity(kind)
      /\ \A i \in DOMAIN mapBox[kind] : mapBox[kind][i][1] = kind
  BY DEF NavMapIInv, NavMapType, NavMapBook
<1>3. /\ Head(mapBox[kind]) \in MapMessages /\ Head(mapBox[kind])[1] = kind
      /\ Tail(mapBox[kind]) \in Seq(MapMessages)
      /\ Len(Tail(mapBox[kind])) <= Len(mapBox[kind])
      /\ \A i \in DOMAIN Tail(mapBox[kind]) :
           i + 1 \in DOMAIN mapBox[kind] /\ Tail(mapBox[kind])[i] = mapBox[kind][i + 1]
  BY <1>1, <1>2
<1>4. /\ mapBox' \in [MapKinds -> Seq(MapMessages)]
      /\ mapBox'[kind] = Tail(mapBox[kind])
      /\ \A k \in MapKinds \ {kind} : mapBox'[k] = mapBox[k]
  BY <1>1, <1>3 DEF NavMapIInv, NavMapType
<1>5. ASSUME NEW k \in MapKinds
      PROVE  /\ Len(mapBox'[k]) <= MapCapacity(k)
             /\ \A i \in DOMAIN mapBox'[k] : mapBox'[k][i][1] = k
  <2>1. CASE k = kind
    <3>1. Len(Tail(mapBox[kind])) \in Nat /\ Len(mapBox[kind]) \in Nat /\ MapCapacity(kind) \in Nat
      BY <1>2, <1>3, NavMapAssumption DEF MapCapacity
    <3>2. Len(Tail(mapBox[kind])) <= MapCapacity(kind)
      BY <1>2, <1>3, <3>1
    <3>3. \A i \in DOMAIN Tail(mapBox[kind]) : Tail(mapBox[kind])[i][1] = kind
      BY <1>2, <1>3
    <3> QED
      BY <1>4, <2>1, <3>2, <3>3
  <2>2. CASE k # kind
    BY <1>4, <2>2 DEF NavMapIInv, NavMapBook
  <2> QED
    BY <2>1, <2>2
<1>6. ASSUME ~hurried
      PROVE  \E map \in 1..Maps, place \in 0..(Parts + 1) :
               /\ kind = MapMessage(map, place)[1] /\ Head(mapBox[kind]) = MapMessage(map, place)
               /\ upcoming = FollowingMessage(<<map, place>>)
               /\ \A k \in MapKinds : mapBox'[k] = <<>>
               /\ PendingUpTo(map, place)
  <2>1. OneOnItsWay
    BY <1>1, <1>6 DEF NavMapIInv, TakenInTurn, NoneOnItsWay
  <2>2. PICK map \in 1..Maps, place \in 0..(Parts + 1) :
          /\ upcoming = FollowingMessage(<<map, place>>)
          /\ \A k \in MapKinds :
               mapBox[k] = IF k = MapMessage(map, place)[1] THEN <<MapMessage(map, place)>>
                                                             ELSE <<>>
          /\ PendingUpTo(map, place)
    BY <2>1 DEF OneOnItsWay
  <2>3. kind = MapMessage(map, place)[1]
    BY <1>1, <2>2
  <2>4. PICK m : m = MapMessage(map, place)
    OBVIOUS
  <2>5. mapBox[kind] = <<m>> /\ \A k \in MapKinds \ {kind} : mapBox[k] = <<>>
    BY <2>2, <2>3, <2>4
  <2>6. Head(mapBox[kind]) = m /\ Tail(mapBox[kind]) = <<>>
    BY <2>5
  <2> QED
    BY <1>4, <2>2, <2>3, <2>4, <2>5, <2>6
<1> QED
  BY <1>1, <1>3, <1>4, <1>5, <1>6

LEMMA ReceiveBeginKeeps == NavMapIInv /\ ReceiveBegin => NavMapIInv'
<1> SUFFICES ASSUME NavMapIInv, ReceiveBegin
             PROVE  NavMapIInv'
  OBVIOUS
<1> DEFINE m == Head(mapBox["begin"])
<1>1. /\ Received("begin") /\ "begin" \in MapKinds /\ pendingMap' = <<m>>
      /\ UNCHANGED <<feedAt, registered, mapsSent, upcoming, hurried>>
  BY DEF ReceiveBegin, MapKinds
<1>2. /\ feedAt = "reading" /\ m \in MapMessages /\ m[1] = "begin"
      /\ mapBox' \in [MapKinds -> Seq(MapMessages)]
      /\ \A k \in MapKinds :
           /\ Len(mapBox'[k]) <= MapCapacity(k)
           /\ \A i \in DOMAIN mapBox'[k] : mapBox'[k][i][1] = k
      /\ ~hurried =>
           \E map \in 1..Maps, place \in 0..(Parts + 1) :
             /\ "begin" = MapMessage(map, place)[1] /\ m = MapMessage(map, place)
             /\ upcoming = FollowingMessage(<<map, place>>)
             /\ \A k \in MapKinds : mapBox'[k] = <<>>
             /\ PendingUpTo(map, place)
  BY <1>1, Taking
<1> HIDE DEF m
<1>3. NavMapType'
  <2>1. <<m>> \in Seq(MapMessages)
    BY <1>2
  <2> QED
    BY <1>1, <1>2, <2>1 DEF NavMapIInv, NavMapType
<1>4. NavMapBook'
  BY <1>1, <1>2 DEF NavMapBook
<1>5. ASSUME ~hurried
      PROVE  TakenInTurn'
  <2>1. PICK map \in 1..Maps, place \in 0..(Parts + 1) :
          /\ "begin" = MapMessage(map, place)[1] /\ m = MapMessage(map, place)
          /\ upcoming = FollowingMessage(<<map, place>>)
          /\ \A k \in MapKinds : mapBox'[k] = <<>>
    BY <1>2, <1>5
  <2>2. place = 0 /\ upcoming = <<map, 1>>
    BY <2>1, MessageIs, NavMapAssumption
  <2>3. pendingMap' = PartOf(map, 1)
    BY <1>1, <2>1, <2>2, OnePartMore, NavMapAssumption
  <2>4. NoneOnItsWay' /\ PendingUpTo(upcoming[1], upcoming[2])'
    BY <1>1, <2>1, <2>2, <2>3 DEF NoneOnItsWay, PendingUpTo
  <2> QED
    BY <1>1, <1>2, <1>5, <2>4 DEF NavMapIInv, TakenInTurn, MapKinds
<1> QED
  BY <1>1, <1>3, <1>4, <1>5 DEF NavMapIInv

LEMMA ReceiveDataKeeps == NavMapIInv /\ ReceiveData => NavMapIInv'
<1> SUFFICES ASSUME NavMapIInv, ReceiveData
             PROVE  NavMapIInv'
  OBVIOUS
<1> DEFINE m == Head(mapBox["data"])
<1>1. /\ Received("data") /\ "data" \in MapKinds
      /\ pendingMap' = IF pendingMap = <<>> THEN <<>> ELSE Append(pendingMap, m)
      /\ UNCHANGED <<feedAt, registered, mapsSent, upcoming, hurried>>
  BY DEF ReceiveData, MapKinds
<1>2. /\ feedAt = "reading" /\ m \in MapMessages
      /\ mapBox' \in [MapKinds -> Seq(MapMessages)]
      /\ \A k \in MapKinds :
           /\ Len(mapBox'[k]) <= MapCapacity(k)
           /\ \A i \in DOMAIN mapBox'[k] : mapBox'[k][i][1] = k
      /\ ~hurried =>
           \E map \in 1..Maps, place \in 0..(Parts + 1) :
             /\ "data" = MapMessage(map, place)[1] /\ m = MapMessage(map, place)
             /\ upcoming = FollowingMessage(<<map, place>>)
             /\ \A k \in MapKinds : mapBox'[k] = <<>>
             /\ PendingUpTo(map, place)
  BY <1>1, Taking
<1> HIDE DEF m
<1>3. pendingMap \in Seq(MapMessages) /\ (pendingMap = <<>> \/ pendingMap[1][1] = "begin")
  BY DEF NavMapIInv, NavMapType, NavMapBook
<1>4. pendingMap' \in Seq(MapMessages) /\ (pendingMap' = <<>> \/ pendingMap'[1][1] = "begin")
  <2>1. CASE pendingMap = <<>>
    BY <1>1, <2>1
  <2>2. CASE pendingMap # <<>>
    <3>1. Append(pendingMap, m) \in Seq(MapMessages) /\ Append(pendingMap, m)[1] = pendingMap[1]
      BY <1>2, <1>3, <2>2
    <3> QED
      BY <1>1, <1>3, <2>2, <3>1
  <2> QED
    BY <2>1, <2>2
<1>5. NavMapType'
  BY <1>1, <1>2, <1>4 DEF NavMapIInv, NavMapType
<1>6. NavMapBook'
  BY <1>2, <1>4 DEF NavMapBook
<1>7. ASSUME ~hurried
      PROVE  TakenInTurn'
  <2>1. PICK map \in 1..Maps, place \in 0..(Parts + 1) :
          /\ "data" = MapMessage(map, place)[1] /\ m = MapMessage(map, place)
          /\ upcoming = FollowingMessage(<<map, place>>)
          /\ \A k \in MapKinds : mapBox'[k] = <<>>
          /\ PendingUpTo(map, place)
    BY <1>2, <1>7
  <2>2. place \in 1..Parts /\ upcoming = <<map, place + 1>>
    BY <2>1, MessageIs, NavMapAssumption
  <2>3. pendingMap' = <<>> \/ pendingMap' = PartOf(map, place + 1)
    <3>1. place \in 0..Parts
      BY <2>2
    <3>2. Append(PartOf(map, place), m) = PartOf(map, place + 1)
      BY <2>1, <3>1, OnePartMore
    <3> QED
      BY <1>1, <2>1, <3>2 DEF PendingUpTo
  <2>4. NoneOnItsWay' /\ PendingUpTo(upcoming[1], upcoming[2])'
    BY <1>1, <2>1, <2>2, <2>3, NavMapAssumption DEF NoneOnItsWay, PendingUpTo
  <2> QED
    BY <1>1, <1>2, <1>7, <2>4 DEF NavMapIInv, TakenInTurn, MapKinds
<1> QED
  BY <1>1, <1>5, <1>6, <1>7 DEF NavMapIInv

LEMMA ReceiveEndKeeps == NavMapIInv /\ ReceiveEnd => NavMapIInv'
<1> SUFFICES ASSUME NavMapIInv, ReceiveEnd
             PROVE  NavMapIInv'
  OBVIOUS
<1> DEFINE m == Head(mapBox["end"])
<1>1. /\ Received("end") /\ "end" \in MapKinds
      /\ mapsSent' = IF pendingMap = <<>> THEN mapsSent ELSE Append(mapsSent, pendingMap)
      /\ pendingMap' = <<>> /\ feedAt' \in {feedAt, "leaving"}
      /\ UNCHANGED <<registered, upcoming, hurried>>
  BY DEF ReceiveEnd, MapKinds
<1>2. /\ feedAt = "reading"
      /\ mapBox' \in [MapKinds -> Seq(MapMessages)]
      /\ \A k \in MapKinds :
           /\ Len(mapBox'[k]) <= MapCapacity(k)
           /\ \A i \in DOMAIN mapBox'[k] : mapBox'[k][i][1] = k
      /\ ~hurried =>
           \E map \in 1..Maps, place \in 0..(Parts + 1) :
             /\ "end" = MapMessage(map, place)[1] /\ m = MapMessage(map, place)
             /\ upcoming = FollowingMessage(<<map, place>>)
             /\ \A k \in MapKinds : mapBox'[k] = <<>>
             /\ PendingUpTo(map, place)
  BY <1>1, Taking
<1> HIDE DEF m
<1>3. PICK sent \in Seq(Seq(MapMessages)), pending \in Seq(MapMessages) :
        sent = mapsSent /\ pending = pendingMap
  BY DEF NavMapIInv, NavMapType
<1>4. PICK more : more = Append(sent, pending)
  OBVIOUS
<1>5. /\ more \in Seq(Seq(MapMessages)) /\ DOMAIN more = 1..(Len(sent) + 1)
      /\ DOMAIN sent = 1..Len(sent)
      /\ more[Len(sent) + 1] = pending /\ \A n \in DOMAIN sent : more[n] = sent[n]
  BY <1>4
<1>6. NavMapType'
  <2>1. mapsSent' \in Seq(Seq(MapMessages))
    BY <1>1, <1>3, <1>4, <1>5
  <2>2. <<>> \in Seq(MapMessages)
    OBVIOUS
  <2> QED
    BY <1>1, <1>2, <2>1, <2>2 DEF NavMapIInv, NavMapType
<1>7. NavMapBook'
  BY <1>1, <1>2 DEF NavMapBook
<1>8. ASSUME ~hurried
      PROVE  TakenInTurn'
  <2>1. PICK map \in 1..Maps, place \in 0..(Parts + 1) :
          /\ "end" = MapMessage(map, place)[1]
          /\ \A k \in MapKinds : mapBox'[k] = <<>>
          /\ PendingUpTo(map, place)
    BY <1>2, <1>8
  <2>2. place = Parts + 1
    BY <2>1, MessageIs, NavMapAssumption
  <2>3. pending = <<>> \/ pending = Map(map)
    BY <1>3, <2>1, <2>2 DEF PendingUpTo, PartOf, Map
  <2>4. \A n \in DOMAIN sent : \E k \in 1..Maps : sent[n] = Map(k)
    BY <1>3, <1>8 DEF NavMapIInv, TakenInTurn
  <2>5. \A n \in DOMAIN mapsSent' : \E k \in 1..Maps : mapsSent'[n] = Map(k)
    <3>1. CASE pending = <<>>
      BY <1>1, <1>3, <2>4, <3>1
    <3>2. CASE pending = Map(map) /\ pending # <<>>
      <4>1. mapsSent' = more
        BY <1>1, <1>3, <1>4, <3>2
      <4>2. \A n \in DOMAIN more : n \in DOMAIN sent \/ n = Len(sent) + 1
        BY <1>5
      <4> QED
        BY <1>5, <2>4, <3>2, <4>1, <4>2
    <3> QED
      BY <2>3, <3>1, <3>2
  <2>6. NoneOnItsWay' /\ PendingUpTo(upcoming[1], upcoming[2])'
    BY <1>1, <2>1 DEF NoneOnItsWay, PendingUpTo
  <2>7. feedAt' \in {"reading", "leaving"} /\ registered' = MapKinds
    BY <1>1, <1>2, <1>8 DEF NavMapIInv, TakenInTurn
  <2> QED
    BY <2>5, <2>6, <2>7 DEF TakenInTurn, MapKinds
<1> QED
  BY <1>1, <1>6, <1>7, <1>8 DEF NavMapIInv

-----------------------------------------------------------------------------
\* Before it reads, the handler registers the three channels; when it no longer
\* does, nothing is read, whatever is still in them.
LEMMA FeedMoves ==
  ASSUME NavMapIInv,
         NEW to \in {"begin", "data", "end", "reading", "leaving", "returned"}, feedAt' = to,
         registered' \subseteq MapKinds,
         UNCHANGED <<pendingMap, mapsSent, upcoming, hurried>>,
         mapBox' = mapBox \/ mapBox' = [kind \in MapKinds |-> <<>>],
         \/ to \in {"leaving", "returned"}
         \/ feedAt \in {"start"} \cup MapKinds /\ mapBox' = mapBox,
         to = "begin" => (hurried \/ registered' = {}),
         to = "data" => (hurried \/ registered' = {"begin"}),
         to = "end" => (hurried \/ registered' = {"begin", "data"}),
         to = "reading" => (hurried \/ registered' = MapKinds)
  PROVE  NavMapIInv'
<1>1. NavMapType'
  <2>1. <<>> \in Seq(MapMessages)
    OBVIOUS
  <2> QED
    BY <2>1 DEF NavMapIInv, NavMapType, MapKinds
<1>2. NavMapBook'
  <2>1. CASE mapBox' = mapBox
    BY <2>1 DEF NavMapIInv, NavMapBook
  <2>2. CASE mapBox' = [kind \in MapKinds |-> <<>>]
    BY <2>2, NavMapAssumption DEF NavMapIInv, NavMapBook, MapCapacity
  <2> QED
    BY <2>1, <2>2
<1>3. ASSUME ~hurried
      PROVE  TakenInTurn'
  <2>1. \A n \in DOMAIN mapsSent : \E map \in 1..Maps : mapsSent[n] = Map(map)
    BY <1>3 DEF NavMapIInv, TakenInTurn
  <2>2. CASE to \in {"leaving", "returned"}
    BY <2>1, <2>2 DEF TakenInTurn, MapKinds
  <2>3. CASE feedAt \in {"start"} \cup MapKinds /\ mapBox' = mapBox
    <3>1. NoneOnItsWay /\ pendingMap = <<>>
      BY <1>3, <2>3 DEF NavMapIInv, TakenInTurn
    <3>2. NoneOnItsWay' /\ pendingMap' = <<>> /\ PendingUpTo(upcoming[1], upcoming[2])'
      BY <2>3, <3>1 DEF NoneOnItsWay, PendingUpTo
    <3> QED
      BY <1>3, <2>1, <3>2 DEF TakenInTurn
  <2> QED
    BY <2>2, <2>3
<1> QED
  BY <1>1, <1>2, <1>3 DEF NavMapIInv

LEMMA RegisterKindKeeps ==
  ASSUME NavMapIInv, NEW n \in DOMAIN Kinds, RegisterKind(n)
  PROVE  NavMapIInv'
<1>1. /\ feedAt = Kinds[n] /\ registered' = registered \cup {Kinds[n]}
      /\ feedAt' = IF n = 3 THEN "reading" ELSE Kinds[n + 1]
      /\ UNCHANGED <<mapBox, pendingMap, mapsSent, upcoming, hurried>>
  BY KindsAre DEF RegisterKind
<1>2. registered \subseteq MapKinds
  BY DEF NavMapIInv, NavMapType
<1>3. CASE n = 1
  <2>1. feedAt = "begin" /\ feedAt' = "data" /\ registered' = registered \cup {"begin"}
    BY <1>1, <1>3, KindsAre
  <2>2. hurried \/ registered = {}
    BY <2>1 DEF NavMapIInv, TakenInTurn
  <2>3. hurried \/ registered' = {"begin"}
    BY <2>1, <2>2
  <2> QED
    BY <1>1, <1>2, <2>1, <2>3, FeedMoves DEF MapKinds
<1>4. CASE n = 2
  <2>1. feedAt = "data" /\ feedAt' = "end" /\ registered' = registered \cup {"data"}
    BY <1>1, <1>4, KindsAre
  <2>2. hurried \/ registered = {"begin"}
    BY <2>1 DEF NavMapIInv, TakenInTurn
  <2>3. hurried \/ registered' = {"begin", "data"}
    BY <2>1, <2>2
  <2> QED
    BY <1>1, <1>2, <2>1, <2>3, FeedMoves DEF MapKinds
<1>5. CASE n = 3
  BY <1>1, <1>2, <1>5, KindsAre, FeedMoves DEF NavMapIInv, TakenInTurn, MapKinds
<1> QED
  BY <1>3, <1>4, <1>5, KindsAre

LEMMA FeedStepsKeep ==
  ASSUME NavMapIInv, StartBroadcast \/ StartBroadcastFails \/ FeedDied \/ StopBroadcast
  PROVE  NavMapIInv'
<1>1. registered \subseteq MapKinds /\ DOMAIN mapBox = MapKinds
  BY DEF NavMapIInv, NavMapType
<1>2. CASE StartBroadcast
  <2>1. feedAt = "start" /\ feedAt' = "begin" /\ UNCHANGED <<registered, mapBox, pendingMap, mapsSent, upcoming, hurried>>
    BY <1>2, KindsAre DEF StartBroadcast
  <2>2. hurried \/ registered = {}
    BY <2>1 DEF NavMapIInv, TakenInTurn
  <2> QED
    BY <1>1, <2>1, <2>2, FeedMoves
<1>3. CASE StartBroadcastFails
  BY <1>1, <1>3, FeedMoves DEF StartBroadcastFails
<1>4. CASE FeedDied
  BY <1>1, <1>4, FeedMoves DEF FeedDied
<1>5. CASE StopBroadcast
  BY <1>1, <1>5, FeedMoves DEF StopBroadcast
<1> QED
  BY <1>2, <1>3, <1>4, <1>5

\* The engine's next message.  If it finds the handler waiting, all of the map before
\* it has been taken.
LEMMA EngineBroadcastsKeeps == NavMapIInv /\ EngineBroadcasts => NavMapIInv'
<1> SUFFICES ASSUME NavMapIInv, EngineBroadcasts
             PROVE  NavMapIInv'
  OBVIOUS
<1>1. PICK map \in 1..Maps, place \in 0..(Parts + 1) :
        upcoming = <<map, place>> /\ upcoming[1] = map /\ upcoming[2] = place
  <2>1. PICK i \in 1..(Maps + 1), q \in 0..(Parts + 1) : upcoming = <<i, q>>
    BY DEF NavMapIInv, NavMapType
  <2>2. upcoming[1] <= Maps
    BY DEF EngineBroadcasts
  <2> QED
    BY <2>1, <2>2, NavMapAssumption
<1>2. PICK m \in MapMessages : m = MapMessage(map, place)
  BY MessageIs
<1> DEFINE kind == m[1]
           waiting == feedAt = "reading" /\ \A k \in DOMAIN mapBox : mapBox[k] = <<>>
           full == Len(mapBox[kind]) = MapCapacity(kind)
<1>3. /\ upcoming' = FollowingMessage(<<map, place>>)
      /\ mapBox' = IF kind \notin registered THEN mapBox
                   ELSE [mapBox EXCEPT ![kind] = IF full THEN Tail(@) ELSE Append(@, m)]
      /\ registered' = IF full THEN registered \ {kind} ELSE registered
      /\ hurried' = (hurried \/ (registered # {} /\ ~waiting))
      /\ UNCHANGED <<feedAt, pendingMap, mapsSent>>
  BY <1>1, <1>2 DEF EngineBroadcasts
<1>4. kind \in MapKinds /\ upcoming' \in (1..(Maps + 1)) \X (0..(Parts + 1))
  BY <1>3, MessageIs DEF MapMessages
<1>5. PICK held \in Seq(MapMessages) : held = mapBox[kind]
  BY <1>4 DEF NavMapIInv, NavMapType
<1>6. /\ Len(held) <= MapCapacity(kind) /\ MapCapacity(kind) \in Nat \ {0} /\ Len(held) \in Nat
      /\ \A i \in DOMAIN held : held[i][1] = kind
  BY <1>4, <1>5, NavMapAssumption DEF NavMapIInv, NavMapBook, MapCapacity
<1>7. PICK new : new = IF full THEN Tail(held) ELSE Append(held, m)
  OBVIOUS
<1>8. /\ new \in Seq(MapMessages) /\ Len(new) <= MapCapacity(kind)
      /\ \A i \in DOMAIN new : new[i][1] = kind
  <2>1. CASE full
    <3>1. new = Tail(held) /\ held # <<>>
      BY <1>5, <1>6, <1>7, <2>1
    <3>2. /\ Tail(held) \in Seq(MapMessages) /\ Len(Tail(held)) = Len(held) - 1
          /\ \A i \in DOMAIN Tail(held) : i + 1 \in DOMAIN held /\ Tail(held)[i] = held[i + 1]
      BY <3>1
    <3> QED
      BY <1>6, <3>1, <3>2
  <2>2. CASE ~full
    <3>1. new = Append(held, m) /\ Len(held) # MapCapacity(kind)
      BY <1>5, <1>7, <2>2
    <3>2. /\ new \in Seq(MapMessages) /\ Len(new) = Len(held) + 1
          /\ DOMAIN new = 1..(Len(held) + 1) /\ DOMAIN held = 1..Len(held)
          /\ new[Len(held) + 1] = m /\ \A i \in 1..Len(held) : new[i] = held[i]
      BY <3>1
    <3>3. Len(new) <= MapCapacity(kind)
      BY <1>6, <3>1, <3>2
    <3> QED
      BY <1>6, <3>2, <3>3
  <2> QED
    BY <2>1, <2>2
<1>9. /\ mapBox' = mapBox \/ mapBox' = [mapBox EXCEPT ![kind] = new]
      /\ kind \in registered => mapBox' = [mapBox EXCEPT ![kind] = new]
  BY <1>3, <1>5, <1>7
<1> HIDE DEF kind
<1>10. /\ DOMAIN mapBox = MapKinds /\ mapBox' \in [MapKinds -> Seq(MapMessages)]
       /\ \A k \in MapKinds \ {kind} : mapBox'[k] = mapBox[k]
       /\ mapBox'[kind] \in {held, new}
       /\ kind \in registered => mapBox'[kind] = new
  BY <1>4, <1>5, <1>8, <1>9 DEF NavMapIInv, NavMapType
<1>11. NavMapType'
  BY <1>3, <1>4, <1>10 DEF NavMapIInv, NavMapType
<1>12. NavMapBook'
  <2>1. ASSUME NEW k \in MapKinds
        PROVE  /\ Len(mapBox'[k]) <= MapCapacity(k)
               /\ \A i \in DOMAIN mapBox'[k] : mapBox'[k][i][1] = k
    <3>1. CASE k = kind
      BY <1>6, <1>8, <1>10, <3>1
    <3>2. CASE k # kind
      BY <1>10, <3>2 DEF NavMapIInv, NavMapBook
    <3> QED
      BY <3>1, <3>2
  <2> QED
    BY <1>3, <2>1 DEF NavMapIInv, NavMapBook
<1>13. ASSUME ~hurried'
       PROVE  TakenInTurn'
  <2>1. ~hurried /\ TakenInTurn /\ (registered = {} \/ waiting)
    BY <1>3, <1>13 DEF NavMapIInv
  <2>2. CASE feedAt = "reading"
    <3>1. registered = MapKinds /\ (NoneOnItsWay \/ OneOnItsWay)
      BY <2>1, <2>2 DEF TakenInTurn
    <3>2. NoneOnItsWay
      BY <1>10, <2>1, <3>1 DEF MapKinds, NoneOnItsWay
    <3>3. ~OneOnItsWay
      <4>1. ASSUME NEW i \in 1..Maps, NEW q \in 0..(Parts + 1),
                   mapBox[MapMessage(i, q)[1]] = <<MapMessage(i, q)>>
            PROVE  FALSE
        <5>1. MapMessage(i, q)[1] \in MapKinds
          BY MessageIs DEF MapMessages
        <5>2. mapBox[MapMessage(i, q)[1]] = <<>>
          BY <3>2, <5>1 DEF NoneOnItsWay
        <5>3. \A x : <<x>> # <<>>
          OBVIOUS
        <5> QED
          BY <4>1, <5>2, <5>3, Zenon
      <4>2. ASSUME NEW i \in 1..Maps, NEW q \in 0..(Parts + 1)
            PROVE  MapMessage(i, q)[1] \in MapKinds
        BY MessageIs DEF MapMessages
      <4> QED
        BY <4>1, <4>2 DEF OneOnItsWay
    <3>4. PendingUpTo(map, place)
      BY <1>1, <2>1, <2>2, <3>3 DEF TakenInTurn
    <3>5. held = <<>> /\ ~full /\ new = <<m>>
      <4>1. held = <<>>
        BY <1>4, <1>5, <3>2 DEF NoneOnItsWay
      <4>2. ~full
        BY <1>5, <1>6, <4>1
      <4> QED
        BY <1>7, <4>1, <4>2
    <3>6. \A k \in MapKinds : mapBox'[k] = IF k = kind THEN <<m>> ELSE <<>>
      BY <1>4, <1>10, <3>1, <3>2, <3>5 DEF NoneOnItsWay
    <3>7. PendingUpTo(map, place)'
      BY <1>3, <3>4 DEF PendingUpTo
    <3>8. OneOnItsWay'
      BY <1>2, <1>3, <3>6, <3>7 DEF OneOnItsWay, kind
    <3>9. registered' = MapKinds
      BY <1>3, <3>1, <3>5
    <3> QED
      BY <1>3, <2>1, <2>2, <3>8, <3>9 DEF TakenInTurn, MapKinds
  <2>3. CASE feedAt \in {"start", "begin"}
    <3>1. registered = {} /\ NoneOnItsWay /\ pendingMap = <<>>
      BY <2>1, <2>3 DEF TakenInTurn, MapKinds
    <3>2. mapBox' = mapBox /\ registered' = {}
      BY <1>3, <3>1
    <3>3. NoneOnItsWay'
      BY <3>1, <3>2 DEF NoneOnItsWay
    <3> QED
      BY <1>3, <2>1, <2>3, <3>1, <3>2, <3>3 DEF TakenInTurn
  <2>4. CASE feedAt \in {"data", "end"}
    BY <2>1, <2>4 DEF TakenInTurn
  <2>5. CASE feedAt \in {"leaving", "returned"}
    BY <1>3, <2>1, <2>5 DEF TakenInTurn, MapKinds
  <2> QED
    BY <2>2, <2>3, <2>4, <2>5 DEF NavMapIInv, NavMapType, MapKinds
<1>14. hurried' \/ TakenInTurn'
  BY <1>13
<1> QED
  BY <1>11, <1>12, <1>14 DEF NavMapIInv

-----------------------------------------------------------------------------
LEMMA NavMapNextIInv == NavMapIInv /\ [NavMapNext]_mapVars => NavMapIInv'
<1> SUFFICES ASSUME NavMapIInv, [NavMapNext]_mapVars
             PROVE  NavMapIInv'
  OBVIOUS
<1>1. CASE NavMapNext
  BY <1>1, RegisterKindKeeps, FeedStepsKeep, ReceiveBeginKeeps, ReceiveDataKeeps,
     ReceiveEndKeeps, EngineBroadcastsKeeps DEF NavMapNext
<1>2. CASE UNCHANGED mapVars
  <2>1. UNCHANGED <<feedAt, registered, mapBox, pendingMap, mapsSent, upcoming, hurried>>
    BY <1>2 DEF mapVars
  <2>2. NavMapType' /\ NavMapBook'
    BY <2>1 DEF NavMapIInv, NavMapType, NavMapBook
  <2>3. TakenInTurn => TakenInTurn'
    BY <2>1 DEF TakenInTurn, NoneOnItsWay, OneOnItsWay, PendingUpTo
  <2> QED
    BY <2>1, <2>2, <2>3 DEF NavMapIInv
<1> QED
  BY <1>1, <1>2

\* What is on its way and what is pending fit the engine's place in its maps, as long
\* as every message has found the handler waiting.
THEOREM NavMapInductive == NavMapSpec => []NavMapIInv
  BY NavMapInitIInv, NavMapNextIInv, PTL DEF NavMapSpec

LEMMA NavMapInvType == NavMapIInv => NavMapTypeOK
  BY KindsAre DEF NavMapIInv, NavMapType, NavMapBook, NavMapTypeOK

LEMMA NavMapInvWhole == NavMapIInv => MapsAreWhole
  BY DEF NavMapIInv, TakenInTurn, MapsAreWhole

\* For any number of maps, of messages in a map and of messages its channel holds:
\* as long as every message finds the handler waiting, the client is sent whole maps
\* only, wherever in a map the feed began.
THEOREM MapsAlwaysWhole == NavMapSpec => []MapsAreWhole
  BY NavMapInvWhole, NavMapInductive, PTL

-----------------------------------------------------------------------------
(* The event streams and the update status.                                *)

\* A status that is kept is progress.
IsKept(found) ==
  /\ found.progress \in 1..Size /\ found.expected \in 1..Size
  /\ found.progress <= found.expected

StatusRead ==
  \A r \in StartRequests :
    requestAt[r] \in {"keeping progress", "keeping expected"} => IsKept(status[r])

\* Requests that overlap are known to.
OverlapSeen == \A r, q \in Underway : r # q => r \in disturbed

Reported == {"started", "claiming", "waiting", "looping", "comparing", "keeping progress",
             "taking progress", "ending"}

Report(r) == <<status[r].progress, status[r].expected>>

Lower(new, old) == Exceeds(old[1], old[2], new[1], new[2])

\* What a request that shares the globals with no other finds in them.
Shares(r) ==
  /\ Valid(told[r])
  /\ requestAt[r] \in {"none", "resetting"} => told[r] = <<0, 1>>
  /\ requestAt[r] = "resetting" => lastProgress = 0
  /\ requestAt[r] \in Reported => told[r] = <<lastProgress, lastExpected>>
  /\ requestAt[r] = "keeping progress" => ~Lower(Report(r), told[r])
  /\ requestAt[r] = "keeping expected" =>
       ~Lower(Report(r), told[r]) /\ lastProgress = status[r].progress
  /\ requestAt[r] = "taking expected" =>
       told[r] = <<lastProgress, lastExpected>> /\ status[r].progress = lastProgress
  /\ requestAt[r] = "sending" =>
       /\ Report(r) = <<lastProgress, lastExpected>>
       /\ Valid(Report(r)) /\ ~Lower(Report(r), told[r])

Places ==
  {"none", "resetting", "started", "claiming", "waiting", "looping", "comparing",
   "keeping progress", "keeping expected", "taking progress", "taking expected", "sending",
   "ending", "done"}

EventsType ==
  /\ EventsTypeOK
  /\ idOf \in [Streams -> Ids]
  /\ requestAt \in [StartRequests -> Places]
  /\ told \in [StartRequests -> Int \X Int]
  /\ disturbed \subseteq StartRequests

EventsIInv ==
  /\ EventsType
  /\ StatusRead
  /\ OverlapSeen
  /\ \A r \in StartRequests : r \notin disturbed => Shares(r)

-----------------------------------------------------------------------------
\* A status with its parts replaced is a status.
LEMMA StatusParts ==
  ASSUME NEW found \in Statuses
  PROVE  /\ found.progress \in Int /\ found.expected \in Int
         /\ \A p \in 0..Size :
              LET changed == [found EXCEPT !.progress = p] IN
              changed \in Statuses /\ changed.progress = p
         /\ \A e \in 0..Size :
              LET changed == [found EXCEPT !.expected = e] IN
              /\ changed \in Statuses /\ changed.expected = e
              /\ changed.progress = found.progress
         /\ \A x \in {-1, 0} : [found EXCEPT !.exitCode = x] \in Statuses
  BY EventsAssumption DEF Statuses

LEMMA EventsInitIInv == EventsInit => EventsIInv
<1> SUFFICES ASSUME EventsInit PROVE EventsIInv
  OBVIOUS
<1>1. EventsType
  <2>1. NoStatus \in Statuses
    BY EventsAssumption DEF NoStatus, Statuses
  <2>2. status \in [StartRequests -> Statuses]
    BY <2>1 DEF EventsInit, EventsStart
  <2>3. told \in [StartRequests -> Int \X Int]
    BY DEF EventsInit, EventsStart
  <2>4. lastProgress \in 0..Size /\ lastExpected \in 0..Size
    BY EventsAssumption DEF EventsInit, EventsStart
  <2>5. /\ streamAt \in [Streams -> {"start", "greeting", "streaming", "leaving", "returned"}]
        /\ requestAt \in [StartRequests -> Places]
    BY DEF EventsInit, Places
  <2> QED
    BY <2>2, <2>3, <2>4, <2>5 DEF EventsInit, EventsStart, EventsType, EventsTypeOK
<1>2. StatusRead /\ OverlapSeen
  BY DEF EventsInit, EventsStart, StatusRead, OverlapSeen, Underway
<1>3. ASSUME NEW r \in StartRequests PROVE Shares(r)
  <2>1. requestAt[r] \in {"none", "done"} /\ told[r] = <<0, 1>>
    BY <1>3 DEF EventsInit, EventsStart
  <2>2. Valid(told[r])
    BY <2>1 DEF Valid
  <2> QED
    BY <2>1, <2>2 DEF Shares, Reported
<1> QED
  BY <1>1, <1>2, <1>3 DEF EventsIInv

\* EventStream leaves the globals of the update alone.
LEMMA StreamKeeps ==
  ASSUME EventsIInv, NEW s \in Streams, HandleStream(s) \/ EndStream(s)
  PROVE  EventsIInv'
<1>1. EventsType'
  <2>1. UNCHANGED <<idOf, progressVars, updateVars>>
    BY DEF HandleStream, EndStream, checkConnectionID, SendConnectionResponse, onDisconnect
  <2>2. \E state \in {"greeting", "streaming", "leaving", "returned"} : Moves(s, state)
    BY DEF HandleStream, EndStream, checkConnectionID, SendConnectionResponse, onDisconnect
  <2>3. connectionId' \in Ids \cup {NoId}
    BY DEF EventsIInv, EventsType, EventsTypeOK, HandleStream, EndStream, checkConnectionID,
           SendConnectionResponse, onDisconnect
  <2> QED
    BY <2>1, <2>2, <2>3 DEF EventsIInv, EventsType, EventsTypeOK, Moves, progressVars, updateVars
<1>2. UNCHANGED <<progressVars, updateVars>>
  BY DEF HandleStream, EndStream, checkConnectionID, SendConnectionResponse, onDisconnect
<1>3. StatusRead' /\ OverlapSeen' /\ \A r \in StartRequests : Shares(r)' = Shares(r)
  BY ZenonT(60), <1>2
     DEF EventsIInv, StatusRead, OverlapSeen, Underway, Shares, Report, progressVars,
              updateVars
<1> QED
  BY <1>1, <1>2, <1>3 DEF EventsIInv, updateVars

\* A request that overlaps with no other has the globals to itself: a step of
\* another one that is under way would make it overlap.
LEMMA OthersKeep ==
  ASSUME EventsIInv, NEW q \in StartRequests,
         requestAt' = [requestAt EXCEPT ![q] = requestAt'[q]],
         requestAt[q] # "done", requestAt[q] = "none" =>
           \/ UNCHANGED <<progressVars, disturbed>>
           \/ Underway \subseteq disturbed',
         disturbed \subseteq disturbed',
         \A r \in StartRequests \ {q} : told'[r] = told[r] /\ status'[r] = status[r]
  PROVE  \A r \in StartRequests \ {q} : r \notin disturbed' => Shares(r)'
<1> SUFFICES ASSUME NEW r \in StartRequests, r # q, r \notin disturbed'
             PROVE  Shares(r)'
  OBVIOUS
<1>1. Shares(r) /\ requestAt'[r] = requestAt[r] /\ told'[r] = told[r] /\ status'[r] = status[r]
  BY DEF EventsIInv, EventsType
<1>2. CASE r \in Underway
  <2>1. requestAt[q] = "none"
    BY <1>2 DEF EventsIInv, OverlapSeen, Underway
  <2>2. UNCHANGED <<lastProgress, lastExpected>>
    BY <1>2, <2>1 DEF progressVars
  <2> QED
    BY <1>1, <2>2 DEF Shares, Report
<1>3. CASE r \notin Underway
  <2>1. requestAt[r] \in {"none", "done"}
    BY <1>3 DEF Underway
  <2> QED
    BY <1>1, <2>1 DEF Shares, Reported
<1> QED
  BY <1>2, <1>3

-----------------------------------------------------------------------------
LEMMA StartKeeps ==
  ASSUME EventsIInv, NEW r \in StartRequests, HandleStart(r)
  PROVE  EventsIInv'
<1> USE DEF Proceeds, streamVars, progressVars
<1>1. CASE StartFails(r)
  <2>1. EventsType' /\ StatusRead'
    BY <1>1 DEF EventsIInv, EventsType, EventsTypeOK, StatusRead, StartFails, Places
  <2>2. OverlapSeen'
    BY <1>1 DEF EventsIInv, EventsType, OverlapSeen, Underway, StartFails
  <2>3. \A q \in StartRequests \ {r} : q \notin disturbed' => Shares(q)'
    BY <1>1, OthersKeep DEF StartFails, EventsIInv, EventsType
  <2>4. r \notin disturbed' => Shares(r)'
    <3>1. requestAt'[r] = "done" /\ told' = told /\ disturbed' = disturbed
      BY <1>1 DEF StartFails, EventsIInv, EventsType
    <3> QED
      BY <3>1 DEF Shares, EventsIInv, Reported
  <2> QED
    BY <2>1, <2>2, <2>3, <2>4 DEF EventsIInv
<1>2. CASE ResetProgress(r)
  <2>0. lastProgress' \in 0..Size /\ disturbed' \subseteq StartRequests
    BY <1>2, EventsAssumption DEF EventsIInv, EventsType, ResetProgress, Underway
  <2>1. EventsType' /\ StatusRead'
    BY <1>2, <2>0
    DEF EventsIInv, EventsType, EventsTypeOK, StatusRead, ResetProgress, Places
  <2>2. OverlapSeen' /\ Underway \subseteq disturbed' \cup {r} /\ disturbed \subseteq disturbed'
    BY <1>2 DEF EventsIInv, EventsType, OverlapSeen, Underway, ResetProgress
  <2>3. Underway = {} \/ Underway \subseteq disturbed'
    BY <1>2 DEF ResetProgress
  <2>4. \A q \in StartRequests \ {r} : q \notin disturbed' => Shares(q)'
    BY <1>2, <2>2, <2>3, OthersKeep DEF ResetProgress, EventsIInv, EventsType
  <2>5. r \notin disturbed' => Shares(r)'
    BY <1>2 DEF ResetProgress, Shares, EventsIInv, EventsType, Reported
  <2> QED
    BY <2>1, <2>2, <2>4, <2>5 DEF EventsIInv
<1>3. CASE ResetExpected(r)
  <2>0. 1 \in 0..Size
    BY EventsAssumption
  <2>1. EventsType' /\ StatusRead'
    BY <1>3, <2>0 DEF EventsIInv, EventsType, EventsTypeOK, StatusRead, ResetExpected, Places
  <2>2. OverlapSeen'
    BY <1>3 DEF EventsIInv, EventsType, OverlapSeen, Underway, ResetExpected
  <2>3. \A q \in StartRequests \ {r} : q \notin disturbed' => Shares(q)'
    BY <1>3, OthersKeep DEF ResetExpected, EventsIInv, EventsType
  <2>4. r \notin disturbed' => Shares(r)'
    BY <1>3 DEF ResetExpected, Shares, EventsIInv, EventsType, Reported
  <2> QED
    BY <2>1, <2>2, <2>3, <2>4 DEF EventsIInv
<1> QED
  BY <1>1, <1>2, <1>3 DEF HandleStart

\* What the goroutine of a request that shares the globals with no other does to
\* them, place by place.
LEMMA StatusKeeps ==
  ASSUME EventsIInv, NEW r \in StartRequests, UpdateStatusStream(r)
  PROVE  EventsIInv'
<1> USE DEF Proceeds, streamVars, progressVars
<1>1. requestAt' = [requestAt EXCEPT ![r] = requestAt'[r]] /\ r \in Underway /\ disturbed' = disturbed
      /\ UNCHANGED streamVars /\ connectionId' = connectionId
      /\ requestAt[r] \notin {"none", "done"}
      /\ \A q \in StartRequests \ {r} : told'[q] = told[q] /\ status'[q] = status[q]
  BY ZenonT(60)
     DEF EventsIInv, EventsType, EventsTypeOK, Underway, UpdateStatusStream, CheckRunning,
         SetRunning, AwaitConnection, GetUpdateStatus, CompareProgress, KeepProgress,
         KeepExpected, TakeProgress, TakeExpected, SendStatus, EndStatusStream
<1>2. OverlapSeen'
  BY <1>1 DEF EventsIInv, EventsType, OverlapSeen, Underway
<1>3. \A q \in StartRequests \ {r} : q \notin disturbed' => Shares(q)'
  BY <1>1, OthersKeep
<1>4. EventsType' /\ StatusRead' /\ (r \notin disturbed' => Shares(r)')
  <2>1. CASE CheckRunning(r) \/ SetRunning(r) \/ AwaitConnection(r) \/ EndStatusStream(r)
    <3>1. EventsType' /\ StatusRead'
      BY ZenonT(60), <2>1
         DEF EventsIInv, EventsType, EventsTypeOK, StatusRead, CheckRunning, SetRunning,
                  AwaitConnection, EndStatusStream, Places
    <3>2. requestAt[r] \in Reported
          /\ requestAt'[r] \in {"claiming", "waiting", "looping", "done"}
          /\ UNCHANGED <<told, status, progressVars>>
      BY <2>1 DEF EventsIInv, EventsType, CheckRunning, SetRunning, AwaitConnection,
                  EndStatusStream, Reported
    <3> QED
      BY <3>1, <3>2, <1>1 DEF EventsIInv, Shares, Reported
  <2>2. CASE GetUpdateStatus(r)
    <3>1. requestAt'[r] \in {"ending", "comparing"} /\ UNCHANGED <<told, status, progressVars>>
          /\ requestAt[r] = "looping"
      BY <2>2 DEF EventsIInv, EventsType, GetUpdateStatus
    <3>2. EventsType' /\ StatusRead'
      BY ZenonT(60), <2>2, <3>1, <1>1
      DEF EventsIInv, EventsType, EventsTypeOK, StatusRead, GetUpdateStatus, Places
    <3> QED
      BY <3>1, <3>2, <1>1 DEF EventsIInv, Shares, Reported
  <2>3. CASE CompareProgress(r)
    <3>1. PICK found \in Statuses :
            IF IsProgress(found)
              THEN requestAt' = [requestAt EXCEPT ![r] = "keeping progress"]
                   /\ status' = [status EXCEPT ![r] = found]
              ELSE requestAt' = [requestAt EXCEPT ![r] = "taking progress"]
                   /\ status' = [status EXCEPT ![r].exitCode = found.exitCode]
      BY <2>3 DEF CompareProgress
    <3>2. requestAt[r] = "comparing" /\ UNCHANGED <<told, progressVars, statusStreamRunning>>
      BY <2>3 DEF CompareProgress
    <3>3. /\ status \in [StartRequests -> Statuses] /\ requestAt \in [StartRequests -> Places]
          /\ lastProgress \in Int /\ lastExpected \in Int
      BY EventsAssumption DEF EventsIInv, EventsType, EventsTypeOK
    <3>4. CASE IsProgress(found)
      <4>1. requestAt'[r] = "keeping progress" /\ status'[r] = found
        BY <3>1, <3>3, <3>4
      <4>2. IsKept(found)
        BY <3>4, EventsAssumption DEF IsProgress, IsKept, Statuses
      <4>3. EventsType' /\ StatusRead'
        <5>1. status' \in [StartRequests -> Statuses] /\ requestAt' \in [StartRequests -> Places]
          BY <3>1, <3>3, <3>4 DEF Places
        <5> QED
          BY ZenonT(60), <5>1, <4>1, <4>2, <3>2, <1>1
          DEF EventsIInv, EventsType, EventsTypeOK, StatusRead
      <4>4. told[r] = <<lastProgress, lastExpected>> => ~Lower(Report(r)', told[r])
        <5>1. Report(r)' = <<found.progress, found.expected>>
          BY <4>1 DEF Report
        <5>2. Exceeds(found.progress, found.expected, lastProgress, lastExpected)
          BY <3>4 DEF IsProgress
        <5>3. PICK p \in Int, e \in Int, q \in Int, f \in Int :
                /\ p = found.progress /\ e = found.expected
                /\ q = lastProgress /\ f = lastExpected /\ p * f > q * e
          BY <3>3, <5>2 DEF Exceeds, Statuses
        <5>4. ~(q * e > p * f)
          BY <5>3
        <5> QED
          BY <5>1, <5>3, <5>4 DEF Lower, Exceeds
      <4> QED
        BY <4>1, <4>3, <4>4, <3>2, <1>1 DEF EventsIInv, Shares, Reported
    <3>5. CASE ~IsProgress(found)
      <4>1. requestAt'[r] = "taking progress"
        BY <3>1, <3>3, <3>5
      <4>2. found.exitCode \in {-1, 0}
        BY DEF Statuses
      <4>3. PICK changed : changed = [status[r] EXCEPT !.exitCode = found.exitCode]
        OBVIOUS
      <4>4. changed \in Statuses
        BY <3>3, <4>2, <4>3, StatusParts
      <4>5. status' = [status EXCEPT ![r] = changed]
        BY <3>1, <3>5, <4>3
      <4>6. EventsType' /\ StatusRead'
        <5>1. status' \in [StartRequests -> Statuses] /\ requestAt' \in [StartRequests -> Places]
          BY <3>1, <3>3, <3>5, <4>4, <4>5 DEF Places
        <5> QED
          BY ZenonT(60), <5>1, <4>1, <3>2, <1>1
          DEF EventsIInv, EventsType, EventsTypeOK, StatusRead
      <4> QED
        BY <4>1, <4>6, <3>2, <1>1 DEF EventsIInv, Shares, Reported
    <3> QED
      BY <3>4, <3>5
  <2>4. CASE KeepProgress(r)
    <3>1. /\ requestAt[r] = "keeping progress" /\ UNCHANGED <<told, status, lastExpected>>
          /\ requestAt'[r] = "keeping expected" /\ lastProgress' = status[r].progress
      BY <2>4 DEF EventsIInv, EventsType, KeepProgress
    <3>2. status[r].progress \in 0..Size
      <4>1. status[r].progress \in 1..Size
        BY <3>1 DEF EventsIInv, StatusRead, IsKept
      <4> QED
        BY <4>1, EventsAssumption
    <3>3. EventsType' /\ StatusRead'
      BY <2>4, <3>1, <3>2
      DEF EventsIInv, EventsType, EventsTypeOK, StatusRead, KeepProgress, Places
    <3> QED
      BY <3>1, <3>3, <1>1 DEF EventsIInv, Shares, Reported, Report
  <2>5. CASE KeepExpected(r)
    <3>1. /\ requestAt[r] = "keeping expected" /\ UNCHANGED <<told, status, lastProgress>>
          /\ requestAt'[r] = "sending" /\ lastExpected' = status[r].expected
      BY <2>5 DEF EventsIInv, EventsType, KeepExpected
    <3>2. IsKept(status[r]) /\ status[r].expected \in 0..Size
      <4>1. IsKept(status[r])
        BY <3>1 DEF EventsIInv, StatusRead
      <4> QED
        BY <4>1, EventsAssumption DEF IsKept
    <3>3. EventsType' /\ StatusRead'
      BY <2>5, <3>1, <3>2
      DEF EventsIInv, EventsType, EventsTypeOK, StatusRead, KeepExpected, Places
    <3>4. Valid(Report(r))
      BY <3>2, EventsAssumption DEF Valid, Report, IsKept
    <3> QED
      BY <3>1, <3>3, <3>4, <1>1 DEF EventsIInv, Shares, Reported, Report
  <2>6. CASE TakeProgress(r)
    <3>1. /\ requestAt[r] = "taking progress" /\ UNCHANGED <<told, progressVars>>
          /\ requestAt'[r] = "taking expected"
          /\ status'[r] = [status[r] EXCEPT !.progress = lastProgress]
      BY <2>6 DEF EventsIInv, EventsType, EventsTypeOK, TakeProgress
    <3>2. status'[r] \in Statuses /\ status'[r].progress = lastProgress
      <4>1. status[r] \in Statuses /\ lastProgress \in 0..Size
        BY DEF EventsIInv, EventsType, EventsTypeOK
      <4> QED
        BY ZenonT(60), <3>1, <4>1, StatusParts
    <3>3. EventsType' /\ StatusRead'
      BY <2>6, <3>1, <3>2, <1>1
      DEF EventsIInv, EventsType, EventsTypeOK, StatusRead, TakeProgress, Places
    <3> QED
      BY <3>1, <3>2, <3>3, <1>1 DEF EventsIInv, Shares, Reported, Report
  <2>7. CASE TakeExpected(r)
    <3>1. /\ requestAt[r] = "taking expected" /\ UNCHANGED <<told, progressVars>>
          /\ requestAt'[r] = "sending"
          /\ status'[r] = [status[r] EXCEPT !.expected = lastExpected]
      BY <2>7 DEF EventsIInv, EventsType, EventsTypeOK, TakeExpected
    <3>2. /\ status'[r] \in Statuses /\ status'[r].expected = lastExpected
          /\ status'[r].progress = status[r].progress
      <4>1. status[r] \in Statuses /\ lastExpected \in 0..Size
        BY DEF EventsIInv, EventsType, EventsTypeOK
      <4>2. PICK changed : changed = [status[r] EXCEPT !.expected = lastExpected]
        OBVIOUS
      <4>3. /\ changed \in Statuses /\ changed.expected = lastExpected
            /\ changed.progress = status[r].progress
        BY <4>1, <4>2, StatusParts
      <4> QED
        BY <3>1, <4>2, <4>3
    <3>3. EventsType' /\ StatusRead'
      BY ZenonT(60), <2>7, <3>1, <3>2, <1>1
      DEF EventsIInv, EventsType, EventsTypeOK, StatusRead, TakeExpected, Places
    <3>4. lastProgress \in Int /\ lastExpected \in Int
      BY EventsAssumption DEF EventsIInv, EventsType, EventsTypeOK
    <3>5. told[r] = <<lastProgress, lastExpected>> => ~Lower(told[r], told[r])
      BY <3>4 DEF Lower, Exceeds
    <3>6. r \notin disturbed => Report(r)' = told[r] /\ told[r] = <<lastProgress, lastExpected>>
                              /\ Valid(told[r])
      BY <3>1, <3>2 DEF EventsIInv, Shares, Report
    <3> QED
      BY <3>1, <3>3, <3>5, <3>6, <1>1 DEF EventsIInv, Shares, Reported
  <2>8. CASE SendStatus(r)
    <3>1. /\ requestAt[r] = "sending" /\ UNCHANGED progressVars
          /\ requestAt'[r] \in {"ending", "looping"}
          /\ told' = [told EXCEPT ![r] = Report(r)] /\ status' = [status EXCEPT ![r] = NoStatus]
      BY <2>8 DEF EventsIInv, EventsType, EventsTypeOK, SendStatus, Report
    <3>2. Report(r) \in Int \X Int
      BY StatusParts DEF Report, EventsIInv, EventsType, EventsTypeOK
    <3>3. NoStatus \in Statuses
      BY EventsAssumption DEF NoStatus, Statuses
    <3>4. EventsType' /\ StatusRead'
      <4>1. /\ requestAt' \in [StartRequests -> Places] /\ told' \in [StartRequests -> Int \X Int]
            /\ status' \in [StartRequests -> Statuses]
        <5>1. requestAt' \in [StartRequests -> Places]
          BY <2>8, <3>1, <1>1 DEF EventsIInv, EventsType, EventsTypeOK, Places, SendStatus
        <5>2. told' \in [StartRequests -> Int \X Int]
          BY <3>1, <3>2 DEF EventsIInv, EventsType, EventsTypeOK
        <5>3. status' \in [StartRequests -> Statuses]
          BY <3>1, <3>3 DEF EventsIInv, EventsType, EventsTypeOK
        <5> QED
          BY <5>1, <5>2, <5>3
      <4> QED
        BY <4>1, <3>1, <1>1 DEF EventsIInv, EventsType, EventsTypeOK, StatusRead
    <3>5. told'[r] = Report(r)
      BY <3>1 DEF EventsIInv, EventsType
    <3> QED
      BY <3>1, <3>4, <3>5, <1>1 DEF EventsIInv, Shares, Reported
  <2> QED
    BY <2>1, <2>2, <2>3, <2>4, <2>5, <2>6, <2>7, <2>8 DEF UpdateStatusStream
<1> QED
  BY <1>1, <1>2, <1>3, <1>4 DEF EventsIInv

LEMMA EventsNextIInv == EventsIInv /\ [EventsNext]_eventsVars => EventsIInv'
<1> SUFFICES ASSUME EventsIInv, [EventsNext]_eventsVars PROVE EventsIInv'
  OBVIOUS
<1>1. ASSUME NEW s \in Streams, HandleStream(s) \/ EndStream(s) PROVE EventsIInv'
  BY <1>1, StreamKeeps
<1>2. ASSUME NEW r \in StartRequests, HandleStart(r) \/ UpdateStatusStream(r) PROVE EventsIInv'
  BY <1>2, StartKeeps, StatusKeeps
<1>3. CASE UNCHANGED eventsVars
  BY ZenonT(60), <1>3
     DEF eventsVars, streamVars, progressVars, updateVars, EventsIInv, EventsType,
              EventsTypeOK, StatusRead, OverlapSeen, Underway, Shares, Report
<1> QED
  BY <1>1, <1>2, <1>3 DEF EventsNext

\* The globals of the update status keep their types and hold what their readers
\* make of them, for any number of clients and requests and any size.
THEOREM EventsInductive == EventsSpec => []EventsIInv
  BY EventsInitIInv, EventsNextIInv, PTL DEF EventsSpec

\* What a step sends is in the right order: it is SendStatus for one request.
LEMMA StepReports ==
  ASSUME EventsIInv, [EventsNext]_eventsVars
  PROVE  \A r \in StartRequests : r \notin disturbed =>
           Valid(told'[r]) /\ ~Exceeds(told[r][1], told[r][2], told'[r][1], told'[r][2])
<1> SUFFICES ASSUME NEW r \in StartRequests, r \notin disturbed
             PROVE  Valid(told'[r]) /\ ~Lower(told'[r], told[r])
  BY DEF Lower
<1>1. Shares(r) /\ told[r] \in Int \X Int
  BY DEF EventsIInv, EventsType
<1>2. ~Lower(told[r], told[r])
  BY <1>1 DEF Lower, Exceeds
<1>3. told'[r] = told[r] \/ (requestAt[r] = "sending" /\ told'[r] = Report(r))
  <2>1. CASE UNCHANGED told
    BY <2>1
  <2>2. ASSUME NEW q \in StartRequests, SendStatus(q)
        PROVE  told'[r] = told[r] \/ (requestAt[r] = "sending" /\ told'[r] = Report(r))
    BY <2>2 DEF SendStatus, Report, EventsIInv, EventsType
  <2>3. UNCHANGED told \/ \E q \in StartRequests : SendStatus(q)
    BY DEF EventsNext, HandleStream, EndStream, checkConnectionID, SendConnectionResponse,
           onDisconnect, HandleStart, StartFails, ResetProgress, ResetExpected,
           UpdateStatusStream, CheckRunning, SetRunning, AwaitConnection, GetUpdateStatus,
           CompareProgress, KeepProgress, KeepExpected, TakeProgress, TakeExpected,
           EndStatusStream, eventsVars, updateVars
  <2> QED
    BY <2>1, <2>2, <2>3
<1> QED
  BY <1>1, <1>2, <1>3 DEF Shares

\* Whatever is in the files, a status goroutine that shares the globals with no
\* other request reports progress that is valid and never falls, for any number of
\* clients and requests and any size of the update (UpdateStatusStream).
THEOREM ReportsAlwaysMakeSense == EventsSpec => ReportsMakeSense
<1>1. EventsIInv /\ [EventsNext]_eventsVars =>
        [\A r \in StartRequests : r \notin disturbed =>
           Valid(told'[r]) /\ ~Exceeds(told[r][1], told[r][2], told'[r][1], told'[r][2])]_told
  BY StepReports
<1> QED
  BY <1>1, EventsInductive, PTL DEF EventsSpec, ReportsMakeSense

-----------------------------------------------------------------------------
(* The handlers of the gateway side by side.                               *)

GatewayIInv == CallsIInv /\ FeedsIInv /\ SourceBook /\ NavMapIInv /\ EventsIInv

\* Handlers of which no client has come are in order, too.
LEMMA CallsIdleIInv == CallsIdle => CallsIInv
<1>1. Tell \in Requests
  BY DEF Requests, DriveWheels
<1> QED
  BY <1>1, TellIs, CallsAssumption
  DEF CallsIdle, CallsStart, CallsIInv, CallsType, CallBook, Undisturbed, Ended, Is

LEMMA FeedsIdleIInv == FeedsIdle => FeedsIInv
<1> SUFFICES ASSUME FeedsIdle
             PROVE  FeedsIInv
  OBVIOUS
<1>1. FeedsType
  BY NothingBegun, FeedsAssumption DEF FeedsIdle, FeedsStart, FeedsType, Stages
<1>2. ASSUME NEW u \in Users
      PROVE  FeedBook(u) /\ ChunksInOrder(u) /\ stage[u] # "reading" /\ Exact(shown[u], fed[u])
  BY NoChunksExact, FeedsAssumption
  DEF FeedsIdle, FeedsStart, FeedBook, ChunksInOrder, Rising
<1> QED
  BY <1>1, <1>2 DEF FeedsIInv, Feeding

LEMMA NavMapIdleIInv == NavMapIdle => NavMapIInv
<1> SUFFICES ASSUME NavMapIdle
             PROVE  NavMapIInv
  OBVIOUS
<1>1. /\ feedAt = "returned" /\ registered = {} /\ pendingMap = <<>> /\ mapsSent = <<>>
      /\ mapBox = [kind \in MapKinds |-> <<>>] /\ hurried = FALSE
      /\ upcoming \in (1..(Maps + 1)) \X (0..(Parts + 1))
  BY KindsAre, NavMapAssumption DEF NavMapIdle, NavMapStart
<1>2. NavMapType
  <2>1. <<>> \in Seq(MapMessages) /\ <<>> \in Seq(Seq(MapMessages))
    OBVIOUS
  <2>2. mapBox \in [MapKinds -> Seq(MapMessages)]
    BY <1>1, <2>1
  <2> QED
    BY <1>1, <2>1, <2>2 DEF NavMapType
<1>3. NavMapBook
  BY <1>1, NavMapAssumption DEF NavMapBook, MapCapacity
<1>4. TakenInTurn
  BY <1>1 DEF TakenInTurn, MapKinds
<1> QED
  BY <1>2, <1>3, <1>4 DEF NavMapIInv

LEMMA EventsInvType == EventsIInv => EventsTypeOK
  BY DEF EventsIInv, EventsType

\* Whichever handlers run, the invariants of all of them hold: they share no state.
THEOREM GatewayInductive == GatewaySpec => []GatewayIInv
<1> DEFINE Parts4 == <<callsVars, feedsVars, mapVars, eventsVars>>
<1>1. GatewayInit => GatewayIInv
  BY CallsInitIInv, FeedsInitIInv, NavMapInitIInv, EventsInitIInv,
     CallsIdleIInv, FeedsIdleIInv, NavMapIdleIInv, FeedsInitSource
  DEF GatewayInit, GatewayIInv, EventsIdle
<1>2. [GatewayNext]_Parts4 => /\ [CallsNext]_callsVars /\ [FeedsNext]_feedsVars
                              /\ [NavMapNext]_mapVars /\ [EventsNext]_eventsVars
  BY DEF GatewayNext
<1>3. GatewayIInv /\ [GatewayNext]_Parts4 => GatewayIInv'
  BY <1>2, CallsNextIInv, FeedsNextIInv, FeedsNextSource, NavMapNextIInv, EventsNextIInv
  DEF GatewayIInv
<1> QED
  BY <1>1, <1>3, PTL DEF GatewaySpec

\* Whichever handlers run: no channel holds more than it has room for, none is
\* registered by a handler that has returned, no answer is in the channel of a call
\* that listens for another type, and the numbers of an update are those of its size.
THEOREM GatewayTypeCorrect == GatewaySpec => []GatewayTypeOK
<1>1. GatewayIInv => GatewayTypeOK
  BY CallsInvType, FeedsInvType, NavMapInvType, EventsInvType DEF GatewayIInv, GatewayTypeOK
<1> QED
  BY <1>1, GatewayInductive, PTL

\* The properties of the four components hold of the handlers together.
THEOREM GatewayCorrect ==
  GatewaySpec => /\ []AnswersAreWhole /\ []ExactlyTheWholeImages /\ []SourceFollowsUsers
                 /\ []MapsAreWhole /\ ReportsMakeSense
<1>1. GatewayIInv => /\ AnswersAreWhole /\ ExactlyTheWholeImages /\ SourceFollowsUsers
                     /\ MapsAreWhole
  BY CallsInvWhole, FeedsInvExact, NavMapInvWhole DEF GatewayIInv, SourceBook
<1>2. GatewayIInv /\ [GatewayNext]_<<callsVars, feedsVars, mapVars, eventsVars>> =>
        [\A r \in StartRequests : r \notin disturbed =>
           Valid(told'[r]) /\ ~Exceeds(told[r][1], told[r][2], told'[r][1], told'[r][2])]_told
  <2> SUFFICES ASSUME GatewayIInv,
                      [GatewayNext]_<<callsVars, feedsVars, mapVars, eventsVars>>
               PROVE  \A r \in StartRequests : r \notin disturbed =>
                        /\ Valid(told'[r])
                        /\ ~Exceeds(told[r][1], told[r][2], told'[r][1], told'[r][2])
    OBVIOUS
  <2>1. [EventsNext]_eventsVars
    BY DEF GatewayNext
  <2> QED
    BY <2>1, StepReports DEF GatewayIInv
<1> QED
  BY <1>1, <1>2, GatewayInductive, PTL DEF GatewaySpec, ReportsMakeSense
=============================================================================
