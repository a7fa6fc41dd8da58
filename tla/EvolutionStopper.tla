-------------------------- MODULE EvolutionStopper --------------------------
(***************************************************************************)
(* The betting martingale that freezes the evolution of a category's policy,*)
(* src/open_dream_rsi/evolution.py, and the cycles that feed it in           *)
(* AutoRSIRuntime.run_once, src/open_dream_rsi/loop.py.  Rationals are pairs *)
(* of integers; lam is one half.                                             *)
(***************************************************************************)
EXTENDS Integers, Sequences, FiniteSets, SequencesExt

CONSTANTS
  Categories,
  Calibration,    \* calibration
  MinRounds,      \* min_rounds
  Threshold,      \* threshold
  MaxRounds       \* bound: rounds in a category's history

VARIABLES
  stopper,        \* category -> [history, wealth, p0, frozen, alarm]
  inCycle,
  attempted,      \* attempted_categories of the cycle
  promoted        \* _cycle_policy_promoted

vars == <<stopper, inCycle, attempted, promoted>>

Rational(n, d) == [num |-> n, den |-> d]
Times(x, y) == Rational(x.num * y.num, x.den * y.den)
Below(x, y) == x.num * y.den < y.num * x.den
Larger(x, y) == IF Below(x, y) THEN y ELSE x
Smaller(x, y) == IF Below(x, y) THEN x ELSE y

Fresh == [history |-> <<>>, wealth |-> Rational(1, 1), p0 |-> Rational(0, 1),
          frozen |-> FALSE, alarm |-> 0]

Init ==
  /\ stopper = [c \in Categories |-> Fresh]
  /\ inCycle = FALSE /\ attempted = {} /\ promoted = {}

-----------------------------------------------------------------------------
(* EvolutionStopper.observe.                                                *)

Hits(s) == Cardinality({i \in DOMAIN s : s[i]})
Misses(s) == Len(s) - Hits(s)

\* The rate of the calibration rounds, kept within 0.5 and 0.99.
Null(s) == Smaller(Larger(Rational(Hits(s), Len(s)), Rational(1, 2)), Rational(99, 100))

FactorOnHits(x, p0) ==    \* Mutant of Factor: the bet is on promotions.
  IF ~x THEN Rational(1, 2)
  ELSE Rational(2 * p0.den - p0.num, 2 * (p0.den - p0.num))

\* 1 - lam + lam * (1 - x) / (1 - p0)
Factor(x, p0) ==
  IF x THEN Rational(1, 2)
  ELSE Rational(2 * p0.den - p0.num, 2 * (p0.den - p0.num))

Alarm(st) ==
  IF Len(st.history) >= MinRounds /\ ~Below(st.wealth, Rational(Threshold, 1))
  THEN [st EXCEPT !.frozen = TRUE, !.alarm = Len(st.history)]
  ELSE st

Observe(st, x) ==
  LET s == Append(st.history, x)
  IN IF st.frozen THEN st
     ELSE Alarm([st EXCEPT
            !.history = s,
            !.p0 = IF Len(s) = Calibration THEN Null(s) ELSE @,
            !.wealth = IF Len(s) > Calibration THEN Times(@, Factor(x, st.p0)) ELSE @])

-----------------------------------------------------------------------------
(* The cycles.                                                              *)

BeginCycle ==
  /\ ~inCycle
  /\ inCycle' = TRUE /\ attempted' = {}
  /\ UNCHANGED <<stopper, promoted>>

\* A task of the category; its policy is regenerated only while it is not frozen.
WorkOnTask(c, promotes) ==
  /\ inCycle
  /\ promotes => ~stopper[c].frozen
  /\ attempted' = attempted \cup {c}
  /\ promoted' = IF promotes THEN promoted \cup {c} ELSE promoted
  /\ UNCHANGED <<stopper, inCycle>>

\* A task raises and the cycle ends early: what was promoted stays noted.
Abort ==
  /\ inCycle
  /\ inCycle' = FALSE /\ attempted' = {}
  /\ UNCHANGED <<stopper, promoted>>

EndCycle ==
  /\ inCycle
  /\ \A c \in attempted : stopper[c].frozen \/ Len(stopper[c].history) < MaxRounds
  /\ stopper' = [c \in Categories |-> IF c \in attempted
                                      THEN Observe(stopper[c], c \in promoted)
                                      ELSE stopper[c]]
  /\ promoted' = {} /\ attempted' = {}
  /\ inCycle' = FALSE

\* The process is started again: the wealth is not kept.
Restart ==
  /\ stopper' = [c \in Categories |-> Fresh]
  /\ inCycle' = FALSE /\ attempted' = {} /\ promoted' = {}

Next ==
  \/ BeginCycle
  \/ \E c \in Categories, promotes \in BOOLEAN : WorkOnTask(c, promotes)
  \/ Abort \/ EndCycle \/ Restart

Spec == Init /\ [][Next]_vars

-----------------------------------------------------------------------------
TypeOK ==
  /\ \A c \in Categories :
       /\ stopper[c].history \in Seq(BOOLEAN)
       /\ stopper[c].wealth \in [num : Nat, den : Nat \ {0}]
       /\ stopper[c].frozen \in BOOLEAN
       /\ stopper[c].alarm \in 0..MaxRounds
  /\ inCycle \in BOOLEAN
  /\ attempted \subseteq Categories /\ promoted \subseteq Categories

\* A category is frozen for good reason only (evolution.py:60-75): the round of
\* the alarm promoted nothing, and since the calibration it has missed five rounds
\* more than it has promoted, or its calibration promoted every time and a round
\* has missed since.  One that never promotes is frozen after eight bets, not
\* before and not later.
FreezeEarned ==
  \A c \in Categories :
    LET st == stopper[c]
        s == st.history
        first == SubSeq(s, 1, Calibration)
        bets == SubSeq(s, Calibration + 1, Len(s))
    IN /\ st.frozen =>
            /\ st.alarm = Len(s) /\ ~Last(s)
            /\ IF Misses(first) = 0 THEN Misses(bets) > 0
               ELSE Misses(bets) >= Hits(bets) + 5
       /\ Hits(s) = 0 => (st.frozen <=> Len(bets) >= 8)
=============================================================================
