------------------------------ MODULE Rollout -------------------------------
(***************************************************************************)
(* The counterfactual replay that judges an exploration policy, and the     *)
(* generation that promotes one, src/open_dream_rsi/core/policygen.py: a    *)
(* recorded tree is shown to the policy node by node, as its own picks      *)
(* reveal it, and every pick pays a recorded score.                         *)
(*                                                                          *)
(* The loop of the replay exists twice in the code: in the script a child    *)
(* process runs for a program, and in process for the greedy baseline ("keep *)
(* in sync!").  The two are translated apart.                                *)
(*                                                                          *)
(* A policy is the picks it makes.  Scores and objectives are integers, in  *)
(* twentieths; the objectives compared with each other belong to replays of *)
(* one horizon, so they are compared before the division by it.             *)
(***************************************************************************)
EXTENDS Integers, Sequences, FiniteSets, FiniteSetsExt

CONSTANTS
  MaxNodes,          \* bound on the nodes of a recorded tree
  Scores,            \* the scores of its attempts
  SeedScores,        \* the scores of its seed, without and with a recipe
  Sources,           \* programs
  None,              \* no program, no tree node
  MinHorizon,        \* MIN_HORIZON
  MinValidity,       \* MIN_VALIDITY, in tenths
  Diversity,         \* DIVERSITY_BETA
  Efficiency,        \* EFFICIENCY_BETA
  MaxRepair          \* max_repair

ASSUME ConstantsAssumption ==
  /\ MaxNodes \in Nat \ {0} /\ Scores \subseteq Nat
  /\ SeedScores \subseteq Nat /\ 0 \in SeedScores
  /\ None \notin Sources /\ None \notin Nat
  /\ MinHorizon \in Nat \ {0} /\ MinValidity \in 0..10
  /\ Diversity \in Nat /\ Efficiency \in Nat /\ MaxRepair \in Nat

VARIABLES
  parent,      \* the recorded tree: node -> parent, 0 for the seed
  score,       \* node -> its verifier score
  incumbent,   \* the category's program, or None
  phase,       \* idle, incumbent, greedy, ask, candidate, done
  candidate,   \* the program that is replayed
  cursor,      \* node -> how often the replay has expanded it
  picks,       \* the picks of this replay, None for an invalid one
  rewards,     \* what they paid
  bar,         \* incumbent_score, times the horizon
  greedy,      \* history: the greedy replay when the bar is its score
  greedyPaid,  \* history: what its picks paid
  calls,       \* calls to the model in this generation
  result       \* the promoted program, or None

world == <<parent, score, incumbent>>
replay == <<candidate, cursor, picks, rewards>>
floor == <<bar, greedy, greedyPaid>>
vars == <<world, phase, replay, floor, calls, result>>

-----------------------------------------------------------------------------
(* The recorded world: nodes are numbered as they were recorded, so that a  *)
(* child comes after its parent.                                            *)

Nodes == DOMAIN parent
Kids(n) == {k \in Nodes : parent[k] = n}
ChildIndex(k) == Cardinality({j \in Kids(parent[k]) : j < k})
Steps == Cardinality({n \in Nodes : parent[n] # 0})
AnyScore == Scores \cup SeedScores
Horizon == IF Steps > MinHorizon THEN Steps ELSE MinHorizon

Init ==
  /\ \E size \in 1..MaxNodes :
       /\ parent \in {p \in [1..size -> 0..size - 1] :
                        p[1] = 0 /\ \A n \in 2..size : p[n] \in 1..n - 1}
       /\ score \in {s \in [1..size -> AnyScore] :
                       s[1] \in SeedScores /\ \A n \in 2..size : s[n] \in Scores}
  /\ incumbent \in Sources \cup {None}
  /\ phase = "idle"
  /\ candidate = None
  /\ cursor = [n \in Nodes |-> 0]
  /\ picks = <<>> /\ rewards = <<>>
  /\ bar = 0 /\ greedy = <<>> /\ greedyPaid = <<>>
  /\ calls = 0
  /\ result = None

-----------------------------------------------------------------------------
(* One step of the replay in the child (_ROLLOUT_HARNESS).                  *)

\* A node is visible once its parent has been expanded past its index.
Revealed(cur) == {n \in Nodes : parent[n] = 0 \/ cur[parent[n]] > ChildIndex(n)}

AsOfForward(cur) ==      \* Mutant of AsOf: parents before their children.
  LET size == Cardinality(Nodes)
      pass[i \in 0..size] ==
        IF i = 0 THEN score
        ELSE LET asof == pass[i - 1]
             IN [asof EXCEPT ![i] = Max({@} \cup {asof[k] : k \in Kids(i) \cap Revealed(cur)})]
  IN pass[size]

\* The outcome of each node as of now: one pass from the last node to the
\* first, each taking the best of its revealed children.
AsOf(cur) ==
  LET size == Cardinality(Nodes)
      pass[i \in 0..size] ==
        IF i = 0 THEN score
        ELSE LET asof == pass[i - 1]
                 n == size + 1 - i
             IN [asof EXCEPT ![n] = Max({@} \cup {asof[k] : k \in Kids(n) \cap Revealed(cur)})]
  IN pass[size]

\* The entries of the frontier the policy is shown.
Visible(cur) ==
  LET asof == AsOf(cur)
  IN {[node_id |-> n, score |-> score[n], children |-> cur[n], outcome |-> asof[n]]
        : n \in Revealed(cur)}

RewardOfLast(cur, n) ==  \* Mutant of Reward: every expansion pays the last child.
  IF Kids(n) # {} THEN score[Max(Kids(n))] ELSE score[n]

\* The next recorded child, the last one when they are exhausted, the node's own
\* score when it was never expanded.
Reward(cur, n) ==
  IF \E k \in Kids(n) : ChildIndex(k) = cur[n]
  THEN score[CHOOSE k \in Kids(n) : ChildIndex(k) = cur[n]]
  ELSE IF Kids(n) # {} THEN score[Max(Kids(n))] ELSE score[n]

-----------------------------------------------------------------------------
(* The same step in process (_simulate_step_rewards).  The pass over the     *)
(* outcomes is left out there: the greedy policy reads the scores only.      *)

SimulatedReveal(cur) ==
  {1} \cup {n \in Nodes \ {1} : ChildIndex(n) < cur[parent[n]]}

NextKids(cur, n) == {k \in Kids(n) : ChildIndex(k) = cur[n]}

SimulatedRewardOnce(cur, n) ==  \* Mutant of SimulatedReward: one copy of the loop edited.
  IF NextKids(cur, n) # {} THEN score[Min(NextKids(cur, n))] ELSE score[n]

SimulatedReward(cur, n) ==
  IF Kids(n) = {} THEN score[n]
  ELSE IF NextKids(cur, n) # {} THEN score[Min(NextKids(cur, n))]
  ELSE score[Max(Kids(n))]

\* The greedy policy expands the best visible score, the first of equal ones.
GreedyPick(cur) ==
  CHOOSE n \in SimulatedReveal(cur) :
    \A k \in SimulatedReveal(cur) : score[n] > score[k] \/ (score[n] = score[k] /\ n <= k)

-----------------------------------------------------------------------------
(* The objective of a finished replay.                                      *)

Total(rs) ==
  LET sum[i \in 0..Len(rs)] == IF i = 0 THEN 0 ELSE sum[i - 1] + rs[i]
  IN sum[Len(rs)]

Objective(ps, rs) ==
  LET valid == {i \in 1..Len(ps) : ps[i] # None}
      distinct == Cardinality({ps[i] : i \in valid})
      fresh == Cardinality({<<ps[i], rs[i]>> : i \in valid})
  IN Total(rs) + Diversity * distinct - Efficiency * (Len(rs) - fresh)

\* The share of invalid picks is compared with 1.0 - MIN_VALIDITY in floating
\* point, where a share of exactly 20 percent is above it.
TooInvalid(ps) ==
  LET invalid == Cardinality({i \in 1..Len(ps) : ps[i] = None})
  IN invalid > 0 /\ 10 * invalid >= (10 - MinValidity) * Len(ps)

-----------------------------------------------------------------------------
(* The generation.                                                          *)

Load(p) ==               \* p is copied into the sandbox, its replay begins
  /\ candidate' = p
  /\ cursor' = [n \in Nodes |-> 0]
  /\ picks' = <<>> /\ rewards' = <<>>

\* With fewer than two recorded steps there is nothing to judge by.
TooYoung ==
  /\ phase = "idle" /\ Steps < 2
  /\ phase' = "done"
  /\ UNCHANGED <<world, replay, floor, calls, result>>

\* The incumbent is replayed again on today's tree.
BeginIncumbent ==
  /\ phase = "idle" /\ Steps >= 2 /\ incumbent # None
  /\ phase' = "incumbent"
  /\ Load(incumbent)
  /\ UNCHANGED <<world, floor, calls, result>>

UseGreedy == phase' = "greedy" /\ Load(None)

BeginGreedy ==
  /\ phase = "idle" /\ Steps >= 2 /\ incumbent = None
  /\ UseGreedy
  /\ UNCHANGED <<world, floor, calls, result>>

\* The replay of the greedy policy, in process.
GreedyStep ==
  /\ phase = "greedy" /\ Len(picks) < Horizon
  /\ LET n == GreedyPick(cursor)
     IN /\ picks' = Append(picks, n)
        /\ rewards' = Append(rewards, SimulatedReward(cursor, n))
        /\ cursor' = [cursor EXCEPT ![n] = @ + 1]
  /\ UNCHANGED <<world, phase, candidate, floor, calls, result>>

GreedyScored ==
  /\ phase = "greedy" /\ Len(picks) = Horizon
  /\ phase' = "ask"
  /\ bar' = Objective(picks, rewards) /\ greedy' = picks /\ greedyPaid' = rewards
  /\ Load(None)
  /\ UNCHANGED <<world, calls, result>>

\* The call to the model raises: the generation ends, uncharged.
ReplyRaises ==
  /\ phase = "ask"
  /\ phase' = "done"
  /\ UNCHANGED <<world, replay, floor, calls, result>>

\* One call and max_repair repairs.
RetryOrEnd(n) == phase' = IF n <= MaxRepair THEN "ask" ELSE "done"

\* No code block, or a program the static gate refuses.
ReplyUnusable ==
  /\ phase = "ask"
  /\ calls' = calls + 1
  /\ RetryOrEnd(calls')
  /\ UNCHANGED <<world, replay, floor, result>>

ReplyProgram(p) ==
  /\ phase = "ask"
  /\ calls' = calls + 1
  /\ phase' = "candidate"
  /\ Load(p)
  /\ UNCHANGED <<world, floor, result>>

-----------------------------------------------------------------------------
(* The steps of a replay.                                                   *)

Running == phase \in {"incumbent", "candidate"} /\ Len(picks) < Horizon

PickNode(n) ==
  /\ Running /\ n \in Revealed(cursor)
  /\ picks' = Append(picks, n)
  /\ rewards' = Append(rewards, Reward(cursor, n))
  /\ cursor' = [cursor EXCEPT ![n] = @ + 1]
  /\ UNCHANGED <<world, phase, candidate, floor, calls, result>>

\* Anything but the id of a visible node.
PickInvalid ==
  /\ Running
  /\ picks' = Append(picks, None)
  /\ rewards' = Append(rewards, 0)
  /\ UNCHANGED <<world, phase, candidate, cursor, floor, calls, result>>

\* The replay of the incumbent has no score: the greedy one is the floor.  A
\* candidate without a score is a rejected attempt.
NoScore ==
  /\ \/ phase = "incumbent" /\ UseGreedy
     \/ phase = "candidate" /\ RetryOrEnd(calls) /\ UNCHANGED replay
  /\ UNCHANGED <<world, floor, calls, result>>

\* The policy raises, the child crashes, times out or is not spawned.
ReplayFails == Running /\ NoScore

FinishedLate ==          \* Mutant of Finished: an off-by-one.
  phase \in {"incumbent", "candidate"} /\ Len(picks) > Horizon

Finished == phase \in {"incumbent", "candidate"} /\ Len(picks) = Horizon

BelowValidity == Finished /\ TooInvalid(picks) /\ NoScore

IncumbentScored ==
  /\ phase = "incumbent" /\ Finished /\ ~TooInvalid(picks)
  /\ phase' = "ask"
  /\ bar' = Objective(picks, rewards)
  /\ Load(None)
  /\ UNCHANGED <<world, greedy, greedyPaid, calls, result>>

Beats(obj) == obj > bar

\* A candidate that has a score ends the generation, promoted or not.
CandidateScored ==
  /\ phase = "candidate" /\ Finished /\ ~TooInvalid(picks)
  /\ phase' = "done"
  /\ result' = IF candidate # incumbent /\ Beats(Objective(picks, rewards))
               THEN candidate ELSE None
  /\ UNCHANGED <<world, replay, floor, calls>>

Next ==
  \/ TooYoung \/ BeginIncumbent \/ BeginGreedy \/ GreedyStep \/ GreedyScored
  \/ ReplyRaises \/ ReplyUnusable \/ \E p \in Sources : ReplyProgram(p)
  \/ \E n \in Nodes : PickNode(n)
  \/ PickInvalid \/ ReplayFails \/ BelowValidity
  \/ IncumbentScored \/ CandidateScored

Spec == Init /\ [][Next]_vars

\* Every call of the generator returns: chat and the child have timeouts.
FairSpec == Spec /\ WF_vars(Next)

-----------------------------------------------------------------------------
(* Properties                                                               *)

TypeOK ==
  /\ incumbent \in Sources \cup {None} /\ candidate \in Sources \cup {None}
  /\ phase \in {"idle", "incumbent", "greedy", "ask", "candidate", "done"}
  /\ cursor \in [Nodes -> Nat]
  /\ picks \in Seq(Nodes \cup {None}) /\ rewards \in Seq(AnyScore)
  /\ Len(picks) = Len(rewards)
  /\ bar \in Int /\ greedy \in Seq(Nodes) /\ greedyPaid \in Seq(AnyScore)
  /\ calls \in 0..MaxRepair + 1
  /\ result \in Sources \cup {None}

\* Descends(k, n): n is k or an ancestor of k.
Descends(k, n) ==
  LET up[j \in Nodes] == j = n \/ (parent[j] # 0 /\ up[parent[j]]) IN up[k]

\* What the policy is told of a branch is the best score its own path has
\* revealed there, never one it has not reached, whatever it has expanded in
\* which order (policygen.py:405-407, the prefix rule).
OutcomesFromRevealed ==
  \A e \in Visible(cursor) :
    e.outcome = Max({score[k] : k \in {j \in Revealed(cursor) : Descends(j, e.node_id)}})

\* An expansion reveals at most one node, pays exactly the score of the node it
\* reveals, and nothing revealed is hidden again before the next replay begins:
\* the rule of visibility and the rule of payment, written apart
\* (policygen.py:496-532), agree.
RevealsWhatItPays ==
  [][Len(rewards') = Len(rewards) + 1 =>
       /\ Revealed(cursor) \subseteq Revealed(cursor')
       /\ \A k \in Revealed(cursor') \ Revealed(cursor) :
            /\ Revealed(cursor') = Revealed(cursor) \cup {k}
            /\ rewards'[Len(rewards')] = score[k]]_vars

\* The two copies of the loop agree (policygen.py:206-282 and 479-533): for as
\* long as a program does what the greedy replay did, it is paid what the greedy
\* replay was paid and is shown the node the greedy replay picked next.  In the
\* end it ties, and a tie is not evidence: a program that does nothing but what
\* the baseline does is never promoted over it.
OnGreedyPath == greedy # <<>> /\ \A i \in DOMAIN picks : picks[i] = greedy[i]

ReplaysAgree ==
  OnGreedyPath =>
    /\ \A i \in DOMAIN picks : rewards[i] = greedyPaid[i]
    /\ Len(picks) < Horizon => greedy[Len(picks) + 1] \in Revealed(cursor)
    /\ result = None

\* A generation ends, whatever the model answers and whatever its programs do.
GenerationEnds == <>(phase = "done")
=============================================================================
