---------------------------- MODULE LRUKReplacer ----------------------------
(***************************************************************************)
(* buffer/lru_k_replacer.cpp: any sequence of Victim, Pin and Unpin calls. *)
(* Every method holds latch_, so a call is one step.  The whole sequence   *)
(* of accesses is kept as a history variable, against which the at most K  *)
(* timestamps the code keeps per frame are judged.                         *)
(***************************************************************************)
EXTENDS Integers, Sequences, FiniteSets

CONSTANTS NumFrames,    \* frames of the buffer pool
          K,            \* k_
          MaxAccesses   \* bound on curr_timestamp_

ASSUME LRUKAssumption == NumFrames \in Nat \ {0} /\ K \in Nat \ {0} /\ MaxAccesses \in Nat

VARIABLES curr_timestamp,   \* curr_timestamp_
          access_history,   \* access_history_: most recent first, <<>> when absent
          evictable,        \* the keys of evictable_
          curr_size,        \* curr_size_
          answer,           \* what the last call returned, NO_ANSWER for Pin and Unpin
          accesses          \* history: the timestamps of every access to a frame
                            \* since it was last chosen as a victim

vars == <<curr_timestamp, access_history, evictable, curr_size, answer, accesses>>

Frames == 0 .. NumFrames - 1

INVALID_FRAME_ID == -1
NO_ANSWER == -2

TypeOK ==
  /\ curr_timestamp \in 0 .. MaxAccesses
  /\ \A f \in Frames :
       /\ Len(access_history[f]) <= K
       /\ \A i \in 1 .. Len(access_history[f]) : access_history[f][i] \in 1 .. curr_timestamp
  /\ evictable \subseteq Frames
  /\ curr_size \in Int
  /\ answer \in Frames \cup {INVALID_FRAME_ID, NO_ANSWER}
  /\ accesses \in [Frames -> SUBSET (1 .. curr_timestamp)]

Init ==
  /\ curr_timestamp = 0
  /\ access_history = [f \in Frames |-> <<>>]
  /\ evictable = {}
  /\ curr_size = 0
  /\ answer = NO_ANSWER
  /\ accesses = [f \in Frames |-> {}]

\* Push the new timestamp in front and keep the last K.
RecordAccess(f) ==
  /\ curr_timestamp < MaxAccesses
  /\ curr_timestamp' = curr_timestamp + 1
  /\ access_history' =
       [access_history EXCEPT
          ![f] = LET pushed == <<curr_timestamp + 1>> \o @
                 IN  SubSeq(pushed, 1, IF Len(pushed) > K THEN K ELSE Len(pushed))]
  /\ accesses' = [accesses EXCEPT ![f] = @ \cup {curr_timestamp + 1}]

\* The infinite distance std::numeric_limits<size_t>::max().
Infinity == MaxAccesses + 1

GetKDistance(f) ==
  LET history == access_history[f]
  IN  IF Len(history) < K THEN Infinity
      ELSE curr_timestamp - history[Len(history)]

\* The frames the loop over evictable_ may settle on: one of largest distance,
\* the first it meets.  evictable_ is a std::unordered_map, so its order, and
\* with it the choice among equals, is arbitrary.
Candidates ==
  {f \in evictable : \A g \in evictable : GetKDistance(g) <= GetKDistance(f)}

\* The early return on curr_size_, and the loop that finds nothing.
VictimEmptyHanded ==
  /\ curr_size = 0 \/ evictable = {}
  /\ answer' = INVALID_FRAME_ID
  /\ UNCHANGED <<curr_timestamp, access_history, evictable, curr_size, accesses>>

VictimChoosesKeepingHistory(f) ==
  /\ curr_size # 0
  /\ f \in Candidates
  /\ evictable' = evictable \ {f}
  /\ curr_size' = curr_size - 1
  /\ answer' = f
  /\ accesses' = [accesses EXCEPT ![f] = {}]
  /\ UNCHANGED <<curr_timestamp, access_history>>

\* The victim leaves both maps: its history is forgotten.
VictimChooses(f) ==
  /\ curr_size # 0
  /\ f \in Candidates
  /\ evictable' = evictable \ {f}
  /\ access_history' = [access_history EXCEPT ![f] = <<>>]
  /\ curr_size' = curr_size - 1
  /\ answer' = f
  /\ accesses' = [accesses EXCEPT ![f] = {}]
  /\ UNCHANGED curr_timestamp

PinCountsAlways(f) ==
  /\ RecordAccess(f)
  /\ evictable' = evictable \ {f}
  /\ curr_size' = curr_size - 1
  /\ answer' = NO_ANSWER

Pin(f) ==
  /\ RecordAccess(f)
  /\ evictable' = evictable \ {f}
  /\ curr_size' = IF f \in evictable THEN curr_size - 1 ELSE curr_size
  /\ answer' = NO_ANSWER

\* A frame that is already evictable is left alone: no access is recorded.
Unpin(f) ==
  /\ f \notin evictable
  /\ RecordAccess(f)
  /\ evictable' = evictable \cup {f}
  /\ curr_size' = curr_size + 1
  /\ answer' = NO_ANSWER

Next ==
  \/ VictimEmptyHanded
  \/ \E f \in Frames : VictimChooses(f) \/ Pin(f) \/ Unpin(f)

Spec == Init /\ [][Next]_vars

-----------------------------------------------------------------------------
\* The interface replacer.h promises.
Promise == INSTANCE Replacer

\* LRUKReplacer keeps the promise of the interface: every call is a step the
\* abstract replacer could have taken, so Victim returns an evictable frame
\* whenever there is one, and curr_size_ never hides it.
ImplementsReplacer == Promise!Spec

\* The K-th most recent access to a frame since it was last evicted, from the
\* full sequence of accesses; defined when there are K.
KthRecent(f) == CHOOSE t \in accesses[f] : Cardinality({u \in accesses[f] : u >= t}) = K

\* Does frame f come before frame g in the order the header promises?  Fewer
\* than K accesses come first; both with K, the older K-th access comes first.
Precedes(f, g) ==
  \/ Cardinality(accesses[f]) < K
  \/ Cardinality(accesses[g]) >= K /\ KthRecent(f) <= KthRecent(g)

\* The victim has the largest backward K-distance over the whole access
\* sequence, although the code keeps only K timestamps per frame and drops the
\* history of every frame it evicts.
VictimHasLargestDistance ==
  [][\A f \in Frames : VictimChooses(f) => \A g \in evictable : Precedes(f, g)]_vars
=============================================================================
