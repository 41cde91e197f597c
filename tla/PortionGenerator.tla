--------------------------- MODULE PortionGenerator ---------------------------
(***************************************************************************)
(* How many sets the next portion of a load generates                      *)
(* (snowfakery_run_until.py, PortionGenerator): from min_batch_size up by  *)
(* a tenth at each request, never more than max_batch_size nor than what   *)
(* is missing to the target.  The caller keeps the count of sets created   *)
(* and passes it in, because portions may fail and may create more sets    *)
(* than they were asked for.                                               *)
(***************************************************************************)
EXTENDS Integers

CONSTANTS Target,        \* sets to create
          MinBatchSize,  \* MIN_PORTION_SIZE
          MaxBatchSize,  \* MAX_PORTION_SIZE
          Overshoot,     \* sets a portion may create beyond its size
          MaxRequests    \* bound: portions requested

ASSUME PortionAssumption ==
  /\ Target \in Nat
  /\ MinBatchSize \in Nat \ {0}
  /\ MaxBatchSize \in Nat \ {0}
  /\ Overshoot \in Nat
  /\ MaxRequests \in Nat

Least(a, b) == IF a <= b THEN a ELSE b
Greatest(a, b) == IF a >= b THEN a ELSE b

gap(created) == Target - created

\* Mutant: done only when more than the target was created.
doneBeyond(created) == gap(created) < 0

done(created) == gap(created) <= 0

\* Mutant: the portion is not cut to what is missing.
next_batchUncut(created, nextSize) == Greatest(Least(nextSize, MaxBatchSize), 0)

next_batch(created, nextSize) ==
  Greatest(Least(gap(created), Least(nextSize, MaxBatchSize)), 0)

\* Mutant: a tenth of the size instead of a tenth more.
GrownToATenth(nextSize) == nextSize \div 10

\* int(next_batch_size * 1.1)
Grown(nextSize) == (nextSize * 11) \div 10

-----------------------------------------------------------------------------
(* A caller that counts every portion as created as soon as it is handed   *)
(* out, adds what a portion turns out to have created beyond its size, and *)
(* takes what a failed portion created out of the count again.             *)

VARIABLES created,          \* sets_created_so_far, as the caller counts it
          next_batch_size,
          requests,         \* calls of next_batch so far
          corrected,        \* portions found to have created more
          extra             \* what they created beyond their size, in all

portionVars == <<created, next_batch_size, requests, corrected, extra>>

PortionInit ==
  /\ created = 0
  /\ next_batch_size = MinBatchSize
  /\ requests = 0
  /\ corrected = 0
  /\ extra = 0

\* Asking again when nothing is missing is allowed: the portion is empty, and
\* the next one larger all the same.
NextBatch ==
  /\ requests < MaxRequests
  /\ created' = created + next_batch(created, next_batch_size)
  /\ next_batch_size' = Grown(next_batch_size)
  /\ requests' = requests + 1
  /\ UNCHANGED <<corrected, extra>>

Overshot(n) ==
  /\ corrected < requests
  /\ created' = created + n
  /\ extra' = extra + n
  /\ corrected' = corrected + 1
  /\ UNCHANGED <<next_batch_size, requests>>

Failed(n) ==
  /\ n <= created
  /\ created' = created - n
  /\ UNCHANGED <<next_batch_size, requests, corrected, extra>>

PortionNext ==
  \/ NextBatch
  \/ \E n \in 1..Overshoot : Overshot(n)
  \/ \E n \in 1..Target : Failed(n)

PortionSpec == PortionInit /\ [][PortionNext]_portionVars

-----------------------------------------------------------------------------
PortionTypeOK ==
  /\ created \in Nat
  /\ next_batch_size \in Nat \ {0}
  /\ requests \in Nat
  /\ corrected \in Nat
  /\ extra \in Nat

\* Whatever failed and was asked for again, the sets counted never exceed the
\* target by more than what the portions overshot: data.md's "you might
\* overshoot" is bounded by the portions handed out, not by the target.
OvershootBound ==
  /\ created <= Target + extra
  /\ extra <= Overshoot * corrected
  /\ corrected <= requests

\* As long as sets are missing the next portion is not empty.  An empty portion
\* ends assign_work_to_channels as "All scheduled portions generated", so one
\* handed out too early would leave _loop waiting for work nobody starts.
NeverStalls == ~done(created) => next_batch(created, next_batch_size) > 0

\* What the loader relies on: never more than was asked for and overshot, and
\* never an empty portion while sets are missing.
PortionsAreSound == PortionTypeOK /\ OvershootBound /\ NeverStalls
=============================================================================
