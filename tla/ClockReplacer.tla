--------------------------- MODULE ClockReplacer ---------------------------
(***************************************************************************)
(* buffer/clock_replacer.cpp as a component of its own: any sequence of    *)
(* Victim, Pin and Unpin calls.  Every method holds latch_, so a call is   *)
(* one step.                                                               *)
(***************************************************************************)
EXTENDS ClockPolicy

VARIABLES clock,      \* the state of the ClockReplacer
          answer,     \* what the last call of Victim returned
          missed      \* history: the last call was a Victim that returned
                      \* false although some frame was evictable

clock_vars == <<clock, answer, missed>>

ClockTypeOK ==
  /\ clock \in ReplacerState
  /\ answer \in Frames \cup {INVALID_FRAME_ID}
  /\ missed \in BOOLEAN

ClockInit ==
  /\ clock = ClockEmpty
  /\ answer = INVALID_FRAME_ID
  /\ missed = FALSE

Victim ==
  /\ clock' = AfterVictim(clock)
  /\ answer' = IF VictimFound(clock) THEN VictimFrame(clock) ELSE INVALID_FRAME_ID
  /\ missed' = (~VictimFound(clock) /\ clock.evictable # {})

Pin(f) ==
  /\ clock' = ClockPin(clock, f)
  /\ missed' = FALSE
  /\ UNCHANGED answer

Unpin(f) ==
  /\ clock' = ClockUnpin(clock, f)
  /\ missed' = FALSE
  /\ UNCHANGED answer

ClockNext == Victim \/ \E f \in Frames : Pin(f) \/ Unpin(f)

ClockSpec == ClockInit /\ [][ClockNext]_clock_vars

\* The pool keeps asking for frames: without that, no frame is ever evicted.
ClockFairSpec == ClockSpec /\ WF_clock_vars(Victim)

-----------------------------------------------------------------------------
\* size_ counts the evictable frames.  Victim returns at once when size_ is 0,
\* so a counter that drifts either hides evictable frames or makes the sweep
\* hunt for frames that are not there.
SizeCountsEvictable == clock.size = Cardinality(clock.evictable)

\* A Victim that failed although frames were evictable has spent their second
\* chance: called again, with nothing pinned or unpinned in between, it
\* returns a frame.  One retry is always enough.
OneRetryIsEnough == missed => VictimFound(clock)

\* The clock starves nobody: while victims keep being asked for, a frame that
\* is evictable is evicted, or pinned again, in the end.
EveryFrameGetsItsTurn ==
  \A f \in Frames : f \in clock.evictable ~> f \notin clock.evictable

\* What the pool relies on: size_ is the number of evictable frames, and a
\* Victim that found none leaves the reference bits so that the next one finds one.
ClockSound == ClockTypeOK /\ SizeCountsEvictable /\ OneRetryIsEnough
=============================================================================
