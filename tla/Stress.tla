------------------------------- MODULE Stress -------------------------------
(***************************************************************************)
(* The stress symbol's runner (main.go stressRunner) and its controller   *)
(* (engine/stress.go, StressController.Tick), composed with the shared    *)
(* PRNG.  Tick calls rng.Gaussian without any other lock held, while the  *)
(* symbol runners' market engine calls rng.Gaussian under the engine's    *)
(* mutex: the two are the concurrent Gaussian callers of Rng.             *)
(*                                                                         *)
(* Intensity is held in tenths (0..10).  Its next value is any tenth: the *)
(* sine term sweeps [0,1] and the Gaussian random walk is unbounded, so   *)
(* the model lets every tick land anywhere, before the clamp.  Whether a  *)
(* phase has run past its random duration is a nondeterministic choice at *)
(* each tick; the duration draw itself is one PRNG draw.                  *)
(***************************************************************************)
EXTENDS Rng, Integers

CONSTANTS
  MarketCaller, StressCaller,  \* the two Gaussian callers
  CalmMinMs, CalmMaxMs,        \* StressConfig, from the stress-* flags
  ActiveMinMs, ActiveMaxMs,
  BurstMinMs, BurstMaxMs

ASSUME Callers = {MarketCaller, StressCaller} /\ MarketCaller # StressCaller
ASSUME /\ 0 <= CalmMinMs /\ CalmMinMs <= CalmMaxMs
       /\ 0 <= ActiveMinMs /\ ActiveMinMs <= ActiveMaxMs
       /\ 0 <= BurstMinMs /\ BurstMinMs <= BurstMaxMs

VARIABLES
  spc,          \* stressRunner: "loop" before Tick, "gauss" inside Gaussian
  phase,        \* sc.phase
  intensity,    \* sc.intensity, in tenths
  interval,     \* the interval Tick returned last, in ms
  numActions,   \* the action count Tick returned last
  events        \* burst system events broadcast

vars == <<rngVars, spc, phase, intensity, interval, numActions, events>>

Phases == {"calm", "active", "burst"}

\* Go's float-to-int conversion truncates toward zero.
Trunc(a, b) == IF a >= 0 THEN a \div b ELSE -((-a) \div b)

\* Mutation: the clamp keeps only its lower bound.
ClampNoUpper(i) == IF i < 0 THEN 0 ELSE i

\* The clamp of intensity to [0, 1].
Clamp(i) == IF i < 0 THEN 0 ELSE IF i > 10 THEN 10 ELSE i

\* updatePhase: the band the intensity is in.
PhaseFor(i) == IF i < 3 THEN "calm" ELSE IF i < 7 THEN "active" ELSE "burst"

Window(p) ==
  CASE p = "calm"   -> <<CalmMinMs, CalmMaxMs>>
    [] p = "active" -> <<ActiveMinMs, ActiveMaxMs>>
    [] p = "burst"  -> <<BurstMinMs, BurstMaxMs>>

\* The switch of Tick: ms = max - (max-min)*intensity, truncated, at
\* least one millisecond; actions 1 + int(i), 3 + int(2i), 5 + int(5i).
IntervalFor(p, i) ==
  LET w == Window(p)
      ms == Trunc(w[2] * 10 - (w[2] - w[1]) * i, 10)
  IN IF ms < 1 THEN 1 ELSE ms

ActionsFor(p, i) ==
  CASE p = "calm"   -> 1 + i \div 10
    [] p = "active" -> 3 + (2 * i) \div 10
    [] p = "burst"  -> 5 + (5 * i) \div 10

(***************************************************************************)
(* One stressRunner iteration: Tick up to its Gaussian call, the Gaussian *)
(* call itself (Rng's steps for StressCaller), then the rest of Tick and  *)
(* of the loop body: the walk and clamp, the spike draw, the phase        *)
(* transition with its duration draw, the interval and action count, the  *)
(* burst event, and the sleep.  The simulator's draws in Step are Rng's   *)
(* Draw steps.                                                            *)
(***************************************************************************)
\* The market engine's Gaussian calls: GenerateSectorShocks draws one per
\* sector and Tick one idiosyncratic shock, each holding the engine's
\* mutex, so at most one engine call is inside Gaussian at a time.
MarketGaussian == GaussianStep(MarketCaller)

TickStart ==
  /\ spc = "loop"
  /\ GaussianCheck(StressCaller)
  /\ spc' = "gauss"
  /\ UNCHANGED <<phase, intensity, interval, numActions, events>>

\* Mutation: the interval and action count are computed before the phase
\* transition, from the phase that just ended.
TickEndStalePhase ==
  /\ spc = "gauss" /\ gpc[StressCaller] = "out"
  /\ \E raw \in -1..11, spike, expired \in BOOLEAN :
       LET i == IF spike THEN 10 ELSE Clamp(raw)
           p == IF expired THEN PhaseFor(i) ELSE phase
       IN /\ pos + (IF expired THEN 2 ELSE 1) <= MaxDraws
          /\ pos' = pos + (IF expired THEN 2 ELSE 1)
          /\ intensity' = i /\ phase' = p
          /\ interval' = IntervalFor(phase, i)
          /\ numActions' = ActionsFor(phase, i)
          /\ events' = events + (IF p = "burst" /\ i > 9 THEN 1 ELSE 0)
  /\ spc' = "loop"
  /\ UNCHANGED <<hasSpare, spare, gpc, gu, gv, returned>>

TickEnd ==
  /\ spc = "gauss" /\ gpc[StressCaller] = "out"
  /\ \E raw \in -1..11, spike, expired \in BOOLEAN :
       LET i == IF spike THEN 10 ELSE Clamp(raw)
           p == IF expired THEN PhaseFor(i) ELSE phase
       IN /\ pos + (IF expired THEN 2 ELSE 1) <= MaxDraws
          /\ pos' = pos + (IF expired THEN 2 ELSE 1)
          /\ intensity' = i /\ phase' = p
          /\ interval' = IntervalFor(p, i)
          /\ numActions' = ActionsFor(p, i)
          /\ events' = events + (IF p = "burst" /\ i > 9 THEN 1 ELSE 0)
  /\ spc' = "loop"
  /\ UNCHANGED <<hasSpare, spare, gpc, gu, gv, returned>>

\* The draw bound is reached: the model stops drawing.
Done ==
  /\ pos + 2 > MaxDraws
  /\ UNCHANGED vars

Init ==
  /\ RngInit
  /\ spc = "loop"
  /\ phase = "calm"
  /\ intensity = 0
  /\ interval = CalmMaxMs
  /\ numActions = 1
  /\ events = 0

Next ==
  \/ TickStart
  \/ spc = "gauss" /\ (DrawU(StressCaller) \/ DrawV(StressCaller)
                       \/ GaussianStore(StressCaller))
     /\ UNCHANGED <<spc, phase, intensity, interval, numActions, events>>
  \/ TickEnd
  \/ (MarketGaussian \/ Draw)
     /\ UNCHANGED <<spc, phase, intensity, interval, numActions, events>>
  \/ Done

Spec == Init /\ [][Next]_vars

-----------------------------------------------------------------------------
TypeOK ==
  /\ RngTypeOK
  /\ spc \in {"loop", "gauss"}
  /\ phase \in Phases
  /\ intensity \in 0..10
  /\ interval \in Nat /\ numActions \in Nat /\ events \in Nat

\* What Tick hands to the runner stays inside the phase's configured tick
\* window (at least 1 ms) and the action range its comments give (calm
\* 1-2, active 3-5, burst 5-10), whatever the random walk did.  The clamp of
\* intensity to [0,1] keeps the formula in range, and the interval is
\* computed after updatePhase, from the phase the runner is now in.
TickWithinPhase ==
  LET w == Window(phase) IN
  /\ interval \in (IF w[1] < 1 THEN 1 ELSE w[1])..(IF w[2] < 1 THEN 1 ELSE w[2])
  /\ numActions \in CASE phase = "calm"   -> 1..2
                      [] phase = "active" -> 3..5
                      [] phase = "burst"  -> 5..10
=============================================================================
