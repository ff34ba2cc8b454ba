------------------------------ MODULE Replacer ------------------------------
(***************************************************************************)
(* What the interface buffer/replacer.h promises to the buffer pool: a     *)
(* replacer tracks the set of evictable frames, and Victim removes one of  *)
(* them whenever there is one.  Which frame is chosen is the business of   *)
(* the policy (ClockReplacer, LRUKReplacer) and is left open here.         *)
(***************************************************************************)
EXTENDS Integers

CONSTANT NumFrames

VARIABLES evictable,   \* the frames that may be chosen as a victim
          answer       \* what the last call returned, NO_ANSWER for Pin and Unpin

Frames == 0 .. NumFrames - 1

INVALID_FRAME_ID == -1
NO_ANSWER == -2

Init == evictable = {} /\ answer = NO_ANSWER

Victim ==
  \/ \E f \in evictable : evictable' = evictable \ {f} /\ answer' = f
  \/ evictable = {} /\ answer' = INVALID_FRAME_ID /\ UNCHANGED evictable

Pin(f) == evictable' = evictable \ {f} /\ answer' = NO_ANSWER

Unpin(f) == evictable' = evictable \cup {f} /\ answer' = NO_ANSWER

Next == Victim \/ \E f \in Frames : Pin(f) \/ Unpin(f)

Spec == Init /\ [][Next]_<<evictable, answer>>
=============================================================================
