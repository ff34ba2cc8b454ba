---------------------------- MODULE ClockPolicy ----------------------------
(***************************************************************************)
(* The second-chance algorithm of buffer/clock_replacer.cpp, as operators  *)
(* on the state r of one ClockReplacer:                                    *)
(*   r.hand       clock_hand_                                              *)
(*   r.evictable  the frames whose FrameState.evictable is set             *)
(*   r.ref_bit    the frames whose FrameState.ref_bit is set               *)
(*   r.size       size_, the number Victim tests before it sweeps          *)
(***************************************************************************)
EXTENDS Integers, FiniteSets

CONSTANT NumFrames      \* num_frames_, the size of the buffer pool

ASSUME NumFramesAssumption == NumFrames \in Nat \ {0}

Frames == 0 .. NumFrames - 1

INVALID_FRAME_ID == -1

ReplacerState ==
  [hand : Frames, evictable : SUBSET Frames, ref_bit : SUBSET Frames, size : Int]

ClockEmpty == [hand |-> 0, evictable |-> {}, ref_bit |-> {}, size |-> 0]

-----------------------------------------------------------------------------
(* Mutated forms: an Unpin that counts a frame twice, a sweep that grants  *)
(* the second chance without taking the reference bit away, a hand that    *)
(* leaves the clock.                                                       *)

ClockUnpinCountsTwice(r, f) ==
  [r EXCEPT !.evictable = @ \cup {f}, !.ref_bit = @ \cup {f}, !.size = @ + 1]

-----------------------------------------------------------------------------
\* Pin: only a frame that is evictable changes anything.
ClockPin(r, f) ==
  IF f \in r.evictable
  THEN [r EXCEPT !.evictable = @ \ {f}, !.ref_bit = @ \cup {f}, !.size = @ - 1]
  ELSE r

\* Unpin: the frame becomes evictable with its reference bit set.
ClockUnpin(r, f) ==
  IF f \in r.evictable
  THEN r
  ELSE [r EXCEPT !.evictable = @ \cup {f}, !.ref_bit = @ \cup {f}, !.size = @ + 1]

\* The frame the hand points at after k moves, and the moves after which it
\* points at a frame that can be evicted at once.
Slot(r, k) == (r.hand + k) % NumFrames

EvictableOffsets(r) == {k \in Frames : Slot(r, k) \in r.evictable \ r.ref_bit}

\* Victim sweeps the clock ONCE: scanned < num_frames_.
VictimFound(r) == r.size # 0 /\ EvictableOffsets(r) # {}

VictimOffset(r) ==
  CHOOSE k \in EvictableOffsets(r) : \A j \in EvictableOffsets(r) : k <= j

VictimFrame(r) == Slot(r, VictimOffset(r))

\* The frames given a second chance by a sweep that stops after k moves.
Swept(r, k) == {f \in r.evictable : \E j \in 0 .. k - 1 : f = Slot(r, j)}

SweepKeepsRefBit(r) ==
  IF VictimFound(r)
  THEN [r EXCEPT !.hand = (VictimFrame(r) + 1) % NumFrames,
                 !.evictable = @ \ {VictimFrame(r)},
                 !.size = @ - 1]
  ELSE r

SweepRunsOffTheEnd(r) ==
  IF VictimFound(r)
  THEN [r EXCEPT !.hand = VictimFrame(r) + 1,
                 !.evictable = @ \ {VictimFrame(r)},
                 !.ref_bit = @ \ Swept(r, VictimOffset(r)),
                 !.size = @ - 1]
  ELSE IF r.size = 0 THEN r
  ELSE [r EXCEPT !.ref_bit = @ \ r.evictable]

\* The state Victim leaves behind, whether it found a frame or not.  A sweep
\* that finds none has cleared every reference bit it met and has come back to
\* where it started.
AfterVictim(r) ==
  IF VictimFound(r)
  THEN [r EXCEPT !.hand = (VictimFrame(r) + 1) % NumFrames,
                 !.evictable = @ \ {VictimFrame(r)},
                 !.ref_bit = @ \ Swept(r, VictimOffset(r)),
                 !.size = @ - 1]
  ELSE IF r.size = 0 THEN r
  ELSE [r EXCEPT !.ref_bit = @ \ r.evictable]
=============================================================================
