-------------------------------- MODULE Rng --------------------------------
(***************************************************************************)
(* The shared PRNG of engine/random.go.  main creates one RNG and hands it *)
(* to the market engine, every simulator and the stress controller, so    *)
(* several goroutines call it at once.                                    *)
(*                                                                         *)
(* The PCG state is abstracted to its index in the stream (pos): every    *)
(* Uint32 call reads the state and steps it under the mutex, so the index *)
(* names the draw, and two draws are distinct values exactly when their   *)
(* indices differ (the 64-bit LCG has period 2^64, far beyond any bound). *)
(* A Gaussian value is named by the pair of draws it came from and by     *)
(* which half of the polar pair it is.                                     *)
(***************************************************************************)
EXTENDS Naturals, Bags, BagsExt

CONSTANTS
  Callers,     \* goroutines that call Gaussian concurrently
  MaxDraws     \* bound: Uint32 calls in a behaviour

VARIABLES
  pos,        \* the stream index of the PCG state (r.state)
  hasSpare,   \* r.hasSpare
  spare,      \* r.spare
  gpc,        \* caller -> where it is inside Gaussian
  gu, gv,     \* caller -> the draws of its current polar pair
  returned    \* ghost: the bag of Gaussian values handed to callers

rngVars == <<pos, hasSpare, spare, gpc, gu, gv, returned>>

\* A Gaussian value: the two draws of its polar pair and the half it is.
Value(u, v, half) == <<u, v, half>>
NoValue == Value(0, 0, "none")
GValues == {Value(u, v, h) : u, v \in 0..MaxDraws, h \in {"u", "v"}}

(***************************************************************************)
(* Gaussian.  The first lock section takes the spare if there is one;     *)
(* otherwise the lock is released and the polar loop draws u and v with   *)
(* two Float64 calls (each a locked Uint32) until s is in (0,1); then the *)
(* lock is taken again to cache v*s, and u*s is returned.                 *)
(***************************************************************************)
\* Mutation: the spare is read under the lock but the flag is not cleared.
GaussianCheckKeepSpare(c) ==
  /\ gpc[c] = "out"
  /\ IF hasSpare
       THEN /\ returned' = BagAdd(returned, spare)
            /\ UNCHANGED <<hasSpare, spare, gpc>>
       ELSE /\ gpc' = [gpc EXCEPT ![c] = "u"]
            /\ UNCHANGED <<hasSpare, spare, returned>>
  /\ UNCHANGED <<pos, gu, gv>>

\* Lines 82-89: the spare, or on to the loop.
GaussianCheck(c) ==
  /\ gpc[c] = "out"
  /\ IF hasSpare
       THEN /\ hasSpare' = FALSE
            /\ returned' = BagAdd(returned, spare)
            /\ UNCHANGED <<spare, gpc>>
       ELSE /\ gpc' = [gpc EXCEPT ![c] = "u"]
            /\ UNCHANGED <<hasSpare, spare, returned>>
  /\ UNCHANGED <<pos, gu, gv>>

\* Float64 for u: one locked Uint32.
DrawU(c) ==
  /\ gpc[c] = "u" /\ pos < MaxDraws
  /\ gu' = [gu EXCEPT ![c] = pos]
  /\ pos' = pos + 1
  /\ gpc' = [gpc EXCEPT ![c] = "v"]
  /\ UNCHANGED <<hasSpare, spare, gv, returned>>

\* Float64 for v, then the loop test: s outside (0,1) draws again.
DrawV(c) ==
  /\ gpc[c] = "v" /\ pos < MaxDraws
  /\ gv' = [gv EXCEPT ![c] = pos]
  /\ pos' = pos + 1
  /\ \E next \in {"u", "store"} : gpc' = [gpc EXCEPT ![c] = next]
  /\ UNCHANGED <<hasSpare, spare, gu, returned>>

\* Lines 103-108: cache v*s, return u*s.
GaussianStore(c) ==
  /\ gpc[c] = "store"
  /\ spare' = Value(gu[c], gv[c], "v")
  /\ hasSpare' = TRUE
  /\ returned' = BagAdd(returned, Value(gu[c], gv[c], "u"))
  /\ gpc' = [gpc EXCEPT ![c] = "out"]
  /\ UNCHANGED <<pos, gu, gv>>

\* Any other locked Uint32: Intn, IntRange, Float64 or WeightedPick of the
\* simulators, and the stress controller's spike test and durations.
Draw ==
  /\ pos < MaxDraws
  /\ pos' = pos + 1
  /\ UNCHANGED <<hasSpare, spare, gpc, gu, gv, returned>>

GaussianStep(c) ==
  GaussianCheck(c) \/ DrawU(c) \/ DrawV(c) \/ GaussianStore(c)

\* NewRNG: no spare.
RngInit ==
  /\ pos = 0
  /\ hasSpare = FALSE
  /\ spare = NoValue
  /\ gpc = [c \in Callers |-> "out"]
  /\ gu = [c \in Callers |-> 0]
  /\ gv = [c \in Callers |-> 0]
  /\ returned = EmptyBag

-----------------------------------------------------------------------------
RngTypeOK ==
  /\ pos \in 0..MaxDraws
  /\ hasSpare \in BOOLEAN
  /\ spare \in GValues \cup {NoValue}
  /\ gpc \in [Callers -> {"out", "u", "v", "store"}]
  /\ gu \in [Callers -> 0..MaxDraws] /\ gv \in [Callers -> 0..MaxDraws]
  /\ BagToSet(returned) \subseteq GValues

\* No Gaussian value reaches two callers, or one caller twice: the spare is
\* taken and cleared in one lock section, and every polar pair comes from
\* draws no other call saw, however the two lock sections of concurrent
\* Gaussian calls interleave.
GaussianValuesFresh ==
  \A x \in BagToSet(returned) : CopiesIn(x, returned) = 1
=============================================================================
