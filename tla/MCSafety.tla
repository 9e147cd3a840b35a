------------------------------ MODULE MCSafety ------------------------------
(***************************************************************************)
(* The parts that are asked for safety alone, for TLC: the race for the    *)
(* lane (RunControl without fairness or patience), what a round computes   *)
(* (Ranking) and its collapse detector (Diversity).  They share no state:  *)
(* the first state says which of the three runs.                           *)
(***************************************************************************)
EXTENDS MCRunControl, Ranking, Diversity

VARIABLE part        \* the part that runs

svars == <<part, vars, rankingVars, diverseVars>>

SafetyInit == part \in {"lane", "ranking", "diversity"} /\ Init /\ RankingInit /\ DiversityInit

SafetyNext ==
  \/ part = "lane" /\ Next /\ UNCHANGED <<part, rankingVars, diverseVars>>
  \/ part = "ranking" /\ RankingNext /\ UNCHANGED <<part, vars, diverseVars>>
  \/ part = "diversity" /\ DiversityNext /\ UNCHANGED <<part, vars, rankingVars>>

SafetySpec == SafetyInit /\ [][SafetyNext]_svars

\* round(10 * k * (1 - expected_score)) with the logistic curve's cubic
\* approximation, which is exact to a tenth at the ratings reached here.
MCGain(k, d) ==
  (k * (5000000 - d * 1439 + (d * d * d) \div 25164) + 500000) \div 1000000
=============================================================================
