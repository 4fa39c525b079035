------------------------- MODULE SpeakerQueueProofs -------------------------
(***************************************************************************)
(* Theorems about the speaker queue, for any sentences, numbers, modulus   *)
(* and channel capacity.                                                   *)
(***************************************************************************)
EXTENDS SpeakerQueue, FiniteSetTheorems, TLAPS

\* The player's counter is the number of sentences played, modulo Modulus, and
\* the sentence being played carries it.
Counts ==
  /\ nextSeq = Len(played) % Modulus
  /\ current # None => SeqOf[current] = nextSeq

\* No place holds a sentence twice, and no two places hold the same.
Apart ==
  /\ \A i, k \in DOMAIN spkQueue : spkQueue[i] = spkQueue[k] => i = k
  /\ \A i, k \in DOMAIN played : played[i] = played[k] => i = k
  /\ \A i \in DOMAIN spkQueue : /\ spkQueue[i] \notin buffer \cup {current}
                                /\ \A k \in DOMAIN played : spkQueue[i] # played[k]
  /\ current \notin buffer
  /\ \A k \in DOMAIN played : played[k] \notin buffer \cup {current}

Somewhere(j) ==
  \/ \E i \in DOMAIN spkQueue : spkQueue[i] = j
  \/ j \in buffer
  \/ j = current
  \/ \E i \in DOMAIN played : played[i] = j

\* The places hold exactly the sentences that went into the channel.
Accounted == \A j \in Jobs : conn[j] = "queued" <=> Somewhere(j)

\* The inductive invariant.
IInv == TypeOK /\ Counts /\ Apart /\ Accounted

-----------------------------------------------------------------------------
\* Division by M has one quotient and one remainder.
LEMMA DivMod ==
  ASSUME NEW n \in Nat, NEW M \in Nat \ {0}
  PROVE  n = M * (n \div M) + (n % M) /\ n % M \in 0..(M - 1) /\ n \div M \in Nat
  OBVIOUS

LEMMA OneRemainder ==
  ASSUME NEW M \in Nat \ {0}, NEW q \in Nat, NEW d \in Nat,
         NEW x \in 0..(M - 1), NEW r \in 0..(M - 1), M * q + x = M * d + r
  PROVE  x = r
<1>1. ASSUME q < d PROVE FALSE
  <2>1. PICK k \in Nat : d = q + 1 + k
    <3>1. d - q - 1 \in Nat /\ d = q + 1 + (d - q - 1)
      BY <1>1
    <3> QED
      BY <3>1
  <2>2. M * d = M * q + M + M * k
    BY <2>1
  <2>3. M * k \in Nat /\ M * q \in Nat
    OBVIOUS
  <2> QED
    BY <2>2, <2>3
<1>2. ASSUME d < q PROVE FALSE
  <2>1. PICK k \in Nat : q = d + 1 + k
    <3>1. q - d - 1 \in Nat /\ q = d + 1 + (q - d - 1)
      BY <1>2
    <3> QED
      BY <3>1
  <2>2. M * q = M * d + M + M * k
    BY <2>1
  <2>3. M * k \in Nat /\ M * d \in Nat
    OBVIOUS
  <2> QED
    BY <2>2, <2>3
<1> QED
  BY <1>1, <1>2

\* Counting on modulo M.
LEMMA ModSuccessor ==
  ASSUME NEW n \in Nat, NEW M \in Nat \ {0}
  PROVE  /\ n % M \in 0..(M - 1)
         /\ ((n % M) + 1) % M = (n + 1) % M
<1>1. PICK q \in Nat, r \in 0..(M - 1) : n = M * q + r /\ r = n % M
  BY DivMod
<1>2. PICK d \in Nat, y \in 0..(M - 1) : n + 1 = M * d + y /\ y = (n + 1) % M
  <2>1. n + 1 \in Nat
    OBVIOUS
  <2> QED
    BY <2>1, DivMod
<1>3. PICK e \in Nat, z \in 0..(M - 1) : r + 1 = M * e + z /\ z = (r + 1) % M
  <2>1. r + 1 \in Nat
    OBVIOUS
  <2> QED
    BY <2>1, DivMod
<1>4. q + e \in Nat /\ M * (q + e) = M * q + M * e
  OBVIOUS
<1>5. M * (q + e) + z = M * d + y
  <2>1. M * q \in Nat /\ M * e \in Nat /\ M * d \in Nat
    OBVIOUS
  <2> QED
    BY <1>1, <1>2, <1>3, <1>4, <2>1
<1>6. z = y
  BY <1>4, <1>5, OneRemainder
<1> QED
  BY <1>1, <1>2, <1>3, <1>6

-----------------------------------------------------------------------------
LEMMA InitIInv == Init => IInv
<1> SUFFICES ASSUME Init PROVE IInv
  OBVIOUS
<1>1. 0 % Modulus = 0 /\ 0 \in 0..(Modulus - 1)
  BY QueueAssumption
<1> QED
  BY <1>1, QueueAssumption
  DEF Init, IInv, TypeOK, Counts, Apart, Accounted, Somewhere

LEMMA EnqueueIInv ==
  ASSUME IInv, NEW j \in Jobs, Enqueue(j)
  PROVE  IInv'
<1>1. ~ Somewhere(j)
  BY DEF Enqueue, IInv, Accounted
<1>2. /\ spkQueue' \in Seq(Jobs)
      /\ Len(spkQueue') = Len(spkQueue) + 1
      /\ \A i \in 1..Len(spkQueue) : spkQueue'[i] = spkQueue[i]
      /\ spkQueue'[Len(spkQueue) + 1] = j
      /\ DOMAIN spkQueue' = 1..(Len(spkQueue) + 1)
      /\ DOMAIN spkQueue = 1..Len(spkQueue)
      /\ Len(spkQueue) \in Nat
  BY DEF Enqueue, IInv, TypeOK
<1>3. TypeOK' /\ Counts'
  BY <1>2, QueueAssumption DEF Enqueue, IInv, TypeOK, Counts
<1>4. Apart'
  BY <1>1, <1>2 DEF Enqueue, IInv, Apart, Somewhere
<1>5. Accounted'
  BY <1>2 DEF Enqueue, IInv, TypeOK, Accounted, Somewhere
<1> QED
  BY <1>3, <1>4, <1>5 DEF IInv

LEMMA CollectIInv ==
  ASSUME IInv, Collect
  PROVE  IInv'
<1> DEFINE h == Head(spkQueue)
<1>1. /\ h = spkQueue[1] /\ h \in Jobs /\ 1 \in DOMAIN spkQueue
      /\ spkQueue' \in Seq(Jobs)
      /\ Len(spkQueue') = Len(spkQueue) - 1
      /\ \A i \in 1..(Len(spkQueue) - 1) : spkQueue'[i] = spkQueue[i + 1]
      /\ DOMAIN spkQueue' = 1..(Len(spkQueue) - 1)
      /\ DOMAIN spkQueue = 1..Len(spkQueue)
      /\ Len(spkQueue) \in Nat /\ Len(spkQueue) > 0
  BY DEF Collect, IInv, TypeOK
<1>2. buffer' = buffer \cup {h} /\ UNCHANGED <<conn, nextSeq, current, played>>
  BY DEF Collect
<1> HIDE DEF h
<1>3. TypeOK' /\ Counts'
  BY <1>1, <1>2, QueueAssumption DEF IInv, TypeOK, Counts
<1>4. \A i \in DOMAIN spkQueue' : spkQueue'[i] # h
                                  /\ i + 1 \in DOMAIN spkQueue
                                  /\ spkQueue'[i] = spkQueue[i + 1]
  BY <1>1 DEF IInv, Apart
<1>5. Apart'
  BY <1>1, <1>2, <1>4 DEF IInv, Apart
<1>6. \A j \in Jobs : Somewhere(j)' <=> Somewhere(j)
  <2>1. ASSUME NEW j
        PROVE  ((\E i \in DOMAIN spkQueue' : spkQueue'[i] = j) \/ j = h)
               <=> \E i \in DOMAIN spkQueue : spkQueue[i] = j
    <3>1. ASSUME NEW i \in DOMAIN spkQueue, i # 1
          PROVE  i - 1 \in DOMAIN spkQueue' /\ spkQueue'[i - 1] = spkQueue[i]
      <4>1. i - 1 \in 1..(Len(spkQueue) - 1) /\ (i - 1) + 1 = i
        BY <1>1, <3>1
      <4> QED
        BY <1>1, <4>1
    <3>2. ASSUME NEW i \in DOMAIN spkQueue, spkQueue[i] = j
          PROVE  (\E k \in DOMAIN spkQueue' : spkQueue'[k] = j) \/ j = h
      <4>1. CASE i = 1
        BY <1>1, <3>2, <4>1
      <4>2. CASE i # 1
        BY <3>1, <3>2, <4>2
      <4> QED
        BY <4>1, <4>2
    <3>3. ASSUME NEW i \in DOMAIN spkQueue', spkQueue'[i] = j
          PROVE  \E k \in DOMAIN spkQueue : spkQueue[k] = j
      BY <1>4, <3>3, Zenon
    <3>4. j = h => \E k \in DOMAIN spkQueue : spkQueue[k] = j
      BY <1>1, Zenon
    <3> QED
      BY <3>2, <3>3, <3>4, Zenon
  <2> QED
    BY <1>2, <2>1 DEF Somewhere
<1>7. Accounted'
  BY <1>2, <1>6 DEF IInv, Accounted
<1> QED
  BY <1>3, <1>5, <1>7 DEF IInv

LEMMA StartPlayingIInv ==
  ASSUME IInv, NEW j \in Jobs, StartPlaying(j)
  PROVE  IInv'
<1>1. j \in buffer /\ SeqOf[j] = nextSeq
  BY DEF StartPlaying, Playable, Front
<1>2. TypeOK' /\ Counts' /\ Apart'
  BY <1>1 DEF StartPlaying, IInv, TypeOK, Counts, Apart
<1>3. Accounted'
  BY <1>1, QueueAssumption DEF StartPlaying, IInv, Accounted, Somewhere
<1> QED
  BY <1>2, <1>3 DEF IInv

LEMMA FinishPlayingIInv ==
  ASSUME IInv, FinishPlaying
  PROVE  IInv'
<1>1. /\ current \in Jobs
      /\ Len(played) \in Nat
      /\ played' \in Seq(Jobs)
      /\ Len(played') = Len(played) + 1
      /\ \A i \in 1..Len(played) : played'[i] = played[i]
      /\ played'[Len(played) + 1] = current
      /\ DOMAIN played' = 1..(Len(played) + 1)
      /\ DOMAIN played = 1..Len(played)
  BY DEF FinishPlaying, IInv, TypeOK
<1>2. /\ current' = None /\ nextSeq' = (nextSeq + 1) % Modulus
      /\ UNCHANGED <<conn, spkQueue, buffer>>
  BY DEF FinishPlaying
<1>3. nextSeq' = Len(played') % Modulus /\ nextSeq' \in 0..(Modulus - 1)
  <2>1. nextSeq = Len(played) % Modulus
    BY DEF IInv, Counts
  <2>2. ((Len(played) % Modulus) + 1) % Modulus = (Len(played) + 1) % Modulus
    BY <1>1, ModSuccessor, QueueAssumption
  <2>3. Len(played) + 1 \in Nat
    BY <1>1
  <2>4. (Len(played) + 1) % Modulus \in 0..(Modulus - 1)
    BY <2>3, ModSuccessor, QueueAssumption
  <2> QED
    BY <1>1, <1>2, <2>1, <2>2, <2>4
<1>4. TypeOK' /\ Counts'
  BY <1>1, <1>2, <1>3 DEF IInv, TypeOK, Counts
<1>5. \A i \in 1..Len(played) : played[i] # current
  BY <1>1 DEF IInv, Apart
<1>6. None \notin buffer /\ \A i \in DOMAIN spkQueue : spkQueue[i] # None
  BY QueueAssumption DEF IInv, TypeOK
<1>7. \A i \in DOMAIN played' : played'[i] # None
  BY <1>1, QueueAssumption
<1>8. Apart'
  BY <1>1, <1>2, <1>5, <1>6, <1>7 DEF IInv, Apart
<1>9. Accounted'
  <2> SUFFICES ASSUME NEW j \in Jobs PROVE Somewhere(j)' <=> Somewhere(j)
    BY <1>2 DEF IInv, Accounted
  <2>1. (\E i \in DOMAIN played' : played'[i] = j)
          <=> j = current \/ \E i \in DOMAIN played : played[i] = j
    BY <1>1
  <2>2. j # None
    BY QueueAssumption
  <2> QED
    BY <1>2, <2>1, <2>2 DEF Somewhere
<1> QED
  BY <1>4, <1>8, <1>9 DEF IInv

LEMMA StepIInv == IInv /\ [Next]_vars => IInv'
<1> SUFFICES ASSUME IInv, [Next]_vars PROVE IInv'
  OBVIOUS
<1>1. ASSUME NEW j \in Jobs, Receive(j) \/ GiveUp(j)  PROVE IInv'
  BY <1>1 DEF Receive, GiveUp, IInv, TypeOK, Counts, Apart, Accounted, Somewhere
<1>2. CASE UNCHANGED vars
  BY <1>2 DEF vars, IInv, TypeOK, Counts, Apart, Accounted, Somewhere
<1> QED
  BY <1>1, <1>2, EnqueueIInv, CollectIInv, StartPlayingIInv, FinishPlayingIInv DEF Next

THEOREM Invariance == Spec => []IInv
  BY InitIInv, StepIInv, PTL DEF Spec

\* The channel, the buffer and the counter keep their types and bounds.
THEOREM TypeCorrect == Spec => []TypeOK
<1>1. IInv => TypeOK
  BY DEF IInv
<1> QED
  BY <1>1, Invariance, PTL

\* Every sentence that went into spkQueue is at exactly one place of the player,
\* whatever numbers the sentences carry and however many there are.
THEOREM NoSentenceLost == Spec => []NothingLost
<1>1. IInv => NothingLost
  <2> SUFFICES ASSUME IInv, NEW j \in Jobs
               PROVE  Cardinality(Whereabouts(j)) = IF conn[j] = "queued" THEN 1 ELSE 0
    BY DEF NothingLost
  <2>1. CASE conn[j] # "queued"
    <3>1. ~ Somewhere(j)
      BY <2>1 DEF IInv, Accounted
    <3>2. Whereabouts(j) = {}
      BY <3>1 DEF Whereabouts, Somewhere
    <3> QED
      BY <2>1, <3>2, FS_EmptySet
  <2>2. CASE conn[j] = "queued"
    <3>1. Somewhere(j)
      BY <2>2 DEF IInv, Accounted
    <3>2. \E x : Whereabouts(j) = {x}
      <4>1. ASSUME NEW i \in DOMAIN spkQueue, spkQueue[i] = j
            PROVE  Whereabouts(j) = {<<"spkQueue", i>>}
        <5>1. {k \in DOMAIN spkQueue : spkQueue[k] = j} = {i}
          BY <4>1 DEF IInv, Apart
        <5>2. buffer \cap {j} = {} /\ {current} \cap {j} = {}
              /\ {k \in DOMAIN played : played[k] = j} = {}
          BY <4>1 DEF IInv, Apart
        <5> QED
          BY <5>1, <5>2 DEF Whereabouts
      <4>2. ASSUME j \in buffer
            PROVE  Whereabouts(j) = {<<"buffer", 0>>}
        <5>1. buffer \cap {j} = {j} /\ {current} \cap {j} = {}
              /\ {k \in DOMAIN spkQueue : spkQueue[k] = j} = {}
              /\ {k \in DOMAIN played : played[k] = j} = {}
          BY <4>2 DEF IInv, Apart
        <5> QED
          BY <5>1 DEF Whereabouts
      <4>3. ASSUME j = current
            PROVE  Whereabouts(j) = {<<"current", 0>>}
        <5>1. buffer \cap {j} = {} /\ {current} \cap {j} = {j}
              /\ {k \in DOMAIN spkQueue : spkQueue[k] = j} = {}
              /\ {k \in DOMAIN played : played[k] = j} = {}
          BY <4>3 DEF IInv, Apart
        <5> QED
          BY <5>1 DEF Whereabouts
      <4>4. ASSUME NEW i \in DOMAIN played, played[i] = j
            PROVE  Whereabouts(j) = {<<"played", i>>}
        <5>1. {k \in DOMAIN played : played[k] = j} = {i}
          BY <4>4 DEF IInv, Apart
        <5>2. buffer \cap {j} = {} /\ {current} \cap {j} = {}
              /\ {k \in DOMAIN spkQueue : spkQueue[k] = j} = {}
          BY <4>4 DEF IInv, Apart
        <5> QED
          BY <5>1, <5>2 DEF Whereabouts
      <4> QED
        BY <3>1, <4>1, <4>2, <4>3, <4>4 DEF Somewhere
    <3>3. PICK x : Whereabouts(j) = {x}
      BY <3>2
    <3> QED
      BY <2>2, <3>3, FS_Singleton
  <2> QED
    BY <2>1, <2>2
<1> QED
  BY <1>1, Invariance, PTL

\* Sentences are spoken in the order of their numbers, none twice and none
\* before those it follows, also when the counter wraps.
THEOREM Refinement == Spec => SpeaksInOrder
<1>1. Init => Abstract!Init
  BY DEF Init, Abstract!Init, Arrived
<1>2. IInv /\ [Next]_vars => [Abstract!Next]_(Abstract!speechVars)
  <2> SUFFICES ASSUME IInv, [Next]_vars
               PROVE  [Abstract!Next]_(Abstract!speechVars)
    OBVIOUS
  <2> USE DEF Abstract!speechVars
  <2>1. ASSUME NEW j \in Jobs, Receive(j)  PROVE [Abstract!Next]_(Abstract!speechVars)
    <3>1. Arrived' = Arrived \cup {j} /\ played' = played
      BY <2>1 DEF Receive, Arrived, IInv, TypeOK
    <3> QED
      BY <3>1 DEF Abstract!Next, Abstract!Accept
  <2>2. ASSUME NEW j \in Jobs, GiveUp(j) \/ Enqueue(j) \/ StartPlaying(j)
        PROVE  [Abstract!Next]_(Abstract!speechVars)
    BY <2>2 DEF GiveUp, Enqueue, StartPlaying, Arrived, IInv, TypeOK
  <2>3. CASE Collect
    BY <2>3 DEF Collect, Arrived
  <2>4. CASE FinishPlaying
    <3>1. current \in Jobs /\ conn[current] = "queued"
      BY <2>4, QueueAssumption
      DEF FinishPlaying, IInv, TypeOK, Accounted, Somewhere
    <3>2. \A i \in DOMAIN played : played[i] # current
      BY DEF IInv, Apart
    <3>3. SeqOf[current] = Len(played) % Modulus
      BY <2>4 DEF FinishPlaying, IInv, Counts
    <3>4. played' = Append(played, current) /\ Arrived' = Arrived /\ current \in Arrived
      BY <2>4, <3>1 DEF FinishPlaying, Arrived
    <3> QED
      BY <3>1, <3>2, <3>3, <3>4 DEF Abstract!Next, Abstract!Speak
  <2>5. CASE UNCHANGED vars
    BY <2>5 DEF vars, Arrived
  <2> QED
    BY <2>1, <2>2, <2>3, <2>4, <2>5 DEF Next
<1> QED
  BY <1>1, <1>2, Invariance, PTL DEF Spec, SpeaksInOrder, Abstract!Spec
=============================================================================
