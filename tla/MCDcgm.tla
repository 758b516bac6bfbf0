------------------------------- MODULE MCDcgm -------------------------------
(* The goroutines of the dcgm receiver (DcgmScraper), or what it makes of  *)
(* the samples of one field (DcgmStats).  The first does not look into the *)
(* answers of DCGM, and the second is a function of them, so each          *)
(* behaviour of this model is of one of the two.                           *)
EXTENDS DcgmScraper, DcgmStats

VARIABLE counting  \* which of the two this behaviour is

MCInit == counting \in BOOLEAN /\ Init /\ StatsInit

MCNext ==
  /\ UNCHANGED counting
  /\ \/ ~counting /\ Next /\ UNCHANGED statsVars
     \/ counting /\ StatsNext /\ UNCHANGED vars

MCSpec == MCInit /\ [][MCNext]_<<vars, statsVars, counting>> /\ (~counting => Fairness)
=============================================================================
