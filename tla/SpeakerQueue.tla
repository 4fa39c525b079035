---------------------------- MODULE SpeakerQueue ----------------------------
(***************************************************************************)
(* The speaker socket of cloud/audio_socket.go.  Every connection carries  *)
(* one numbered sentence and is read by a goroutine of its own, so that    *)
(* sentences arrive in any order; they pass through the channel spkQueue   *)
(* to one player goroutine, which keeps them in a sorted buffer and plays  *)
(* the one whose number is next.  What playing a sentence does is left to  *)
(* a model of its own; here it begins and ends.                            *)
(***************************************************************************)
EXTENDS Naturals, Sequences, FiniteSets

CONSTANTS Jobs,        \* the connections, each with its sentence
          SeqOf,       \* the number a connection sends first
          Capacity,    \* buffer of spkQueue (16 in the code)
          Modulus,     \* numbers are counted modulo this (2^32 in the code)
          None         \* no sentence

ASSUME QueueAssumption ==
  /\ Modulus \in Nat \ {0}
  /\ Capacity \in Nat \ {0}
  /\ SeqOf \in [Jobs -> 0..(Modulus - 1)]
  /\ None \notin Jobs

VARIABLES conn,       \* what the goroutine of each connection is doing
          spkQueue,   \* the channel's contents
          buffer,     \* the player's sentences, without the one it plays; the
                      \* code's slice, sorted by number, as a set
          nextSeq,
          current,    \* the sentence being played, or None
          played      \* history: the sentences played, in that order

vars == <<conn, spkQueue, buffer, nextSeq, current, played>>

-----------------------------------------------------------------------------
\* Connections.

\* The whole sentence was read and is not empty.
Receive(j) ==
  /\ conn[j] = "reading"
  /\ conn' = [conn EXCEPT ![j] = "enqueuing"]
  /\ UNCHANGED <<spkQueue, buffer, nextSeq, current, played>>

\* The header could not be read, or there were no samples.
GiveUp(j) ==
  /\ conn[j] = "reading"
  /\ conn' = [conn EXCEPT ![j] = "dropped"]
  /\ UNCHANGED <<spkQueue, buffer, nextSeq, current, played>>

\* Mutant: a sentence that finds the channel full is dropped.
EnqueueOrDrop(j) ==
  /\ conn[j] = "enqueuing"
  /\ conn' = [conn EXCEPT ![j] = "queued"]
  /\ spkQueue' = IF Len(spkQueue) < Capacity THEN Append(spkQueue, j) ELSE spkQueue
  /\ UNCHANGED <<buffer, nextSeq, current, played>>

\* Mutant: the channel takes one sentence more than it has room for.
EnqueueBeyondCapacity(j) ==
  /\ conn[j] = "enqueuing"
  /\ Len(spkQueue) <= Capacity
  /\ spkQueue' = Append(spkQueue, j)
  /\ conn' = [conn EXCEPT ![j] = "queued"]
  /\ UNCHANGED <<buffer, nextSeq, current, played>>

Enqueue(j) ==
  /\ conn[j] = "enqueuing"
  /\ Len(spkQueue) < Capacity
  /\ spkQueue' = Append(spkQueue, j)
  /\ conn' = [conn EXCEPT ![j] = "queued"]
  /\ UNCHANGED <<buffer, nextSeq, current, played>>

-----------------------------------------------------------------------------
\* The player.

\* The front of the sorted slice.  The sort is not stable: of several sentences
\* with one number any may be in front.
Front == {j \in buffer : \A k \in buffer : SeqOf[j] <= SeqOf[k]}

\* Mutant: the player does not wait for the sentences before.
PlayableAnyway == {j \in Front : SeqOf[j] >= nextSeq}

Playable == {j \in Front : SeqOf[j] = nextSeq}

\* Mutant: the channel is looked at only when the buffer is empty.
CollectWhenEmpty ==
  /\ current = None
  /\ Playable = {}
  /\ buffer = {}
  /\ spkQueue # <<>>
  /\ buffer' = buffer \cup {Head(spkQueue)}
  /\ spkQueue' = Tail(spkQueue)
  /\ UNCHANGED <<conn, nextSeq, current, played>>

\* One turn of the outer loop: it takes a sentence from the channel, waiting
\* for one if the buffer is empty and polling if it is not.  A poll that finds
\* nothing changes nothing.
Collect ==
  /\ current = None
  /\ Playable = {}
  /\ spkQueue # <<>>
  /\ buffer' = buffer \cup {Head(spkQueue)}
  /\ spkQueue' = Tail(spkQueue)
  /\ UNCHANGED <<conn, nextSeq, current, played>>

\* The inner loop calls spkPlay with the sentence in front if it is the next...
StartPlaying(j) ==
  /\ current = None
  /\ j \in Playable
  /\ current' = j
  /\ buffer' = buffer \ {j}
  /\ UNCHANGED <<conn, spkQueue, nextSeq, played>>

\* Mutant: the number is not counted on.
FinishWithoutCounting ==
  /\ current # None
  /\ played' = Append(played, current)
  /\ current' = None
  /\ UNCHANGED <<conn, spkQueue, buffer, nextSeq>>

\* ... and counts on when it returns, played or failed.
FinishPlaying ==
  /\ current # None
  /\ played' = Append(played, current)
  /\ nextSeq' = (nextSeq + 1) % Modulus
  /\ current' = None
  /\ UNCHANGED <<conn, spkQueue, buffer>>

-----------------------------------------------------------------------------
Init ==
  /\ conn = [j \in Jobs |-> "reading"]
  /\ spkQueue = <<>>
  /\ buffer = {}
  /\ nextSeq = 0
  /\ current = None
  /\ played = <<>>

Next ==
  \/ \E j \in Jobs : Receive(j) \/ GiveUp(j) \/ Enqueue(j) \/ StartPlaying(j)
  \/ Collect
  \/ FinishPlaying

Spec == Init /\ [][Next]_vars

\* Goroutines that can run do run, and spkPlay returns (SpeakerStream shows
\* when it does).  Nobody is obliged to send.
Fairness ==
  /\ \A j \in Jobs : WF_vars(Enqueue(j))
  /\ WF_vars(Collect)
  /\ WF_vars(\E j \in Jobs : StartPlaying(j))
  /\ WF_vars(FinishPlaying)

FairSpec == Spec /\ Fairness

-----------------------------------------------------------------------------
TypeOK ==
  /\ conn \in [Jobs -> {"reading", "enqueuing", "queued", "dropped"}]
  /\ spkQueue \in Seq(Jobs)
  /\ Len(spkQueue) <= Capacity
  /\ buffer \subseteq Jobs
  /\ nextSeq \in 0..(Modulus - 1)
  /\ current \in Jobs \cup {None}
  /\ played \in Seq(Jobs)

\* Where a sentence that went into the channel is: there, in the player's
\* buffer, in its hands, or played.
Whereabouts(j) ==
  {<<"spkQueue", i>> : i \in {k \in DOMAIN spkQueue : spkQueue[k] = j}}
  \cup {<<"buffer", 0>> : x \in buffer \cap {j}}
  \cup {<<"current", 0>> : x \in {current} \cap {j}}
  \cup {<<"played", i>> : i \in {k \in DOMAIN played : played[k] = j}}

\* A sentence is at exactly one place once its goroutine put it into the
\* channel and at none before: a full channel, a gap in the numbers, a repeated
\* number or a slow player neither loses nor doubles it.
NothingLost ==
  \A j \in Jobs : Cardinality(Whereabouts(j)) = IF conn[j] = "queued" THEN 1 ELSE 0

\* No connection waits for ever for room in the channel: the player empties it
\* also while it misses a number and can play nothing.
NeverJams == \A j \in Jobs : (conn[j] = "enqueuing") ~> (conn[j] = "queued")

Arrived == {j \in Jobs : conn[j] \in {"enqueuing", "queued"}}

\* As long as no number arrives twice, a sentence is played once all those
\* numbered before it have arrived, in whatever order they do.
GaplessIsPlayed ==
  [](\A j, k \in Arrived : SeqOf[j] = SeqOf[k] => j = k)
    => \A n \in 0..(Modulus - 1) :
         (0..n \subseteq {SeqOf[j] : j \in Arrived}) ~> (Len(played) > n)

-----------------------------------------------------------------------------
\* The queue implements in-order speech.
Abstract == INSTANCE Speech WITH accepted <- Arrived, spoken <- played

SpeaksInOrder == Abstract!Spec
=============================================================================
