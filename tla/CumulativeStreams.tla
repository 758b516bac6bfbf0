-------------------------- MODULE CumulativeStreams --------------------------
(***************************************************************************)
(* What the consumer of a cumulative monotonic sum may rely on: the points *)
(* of one stream form intervals that share a start time, inside an         *)
(* interval neither the time nor the value goes back, and a new interval   *)
(* opens only where the previous one ended.  NormalizeSums implements it.  *)
(***************************************************************************)
EXTENDS Naturals

CONSTANTS Streams,   \* identities of the time series
          None       \* no point was sent yet

VARIABLE sent        \* last point sent downstream, per stream

Interval == [start: Nat, end: Nat, val: Nat]

Init == sent = [s \in Streams |-> None]

(* A point that opens an interval: the first one, or one that starts where *)
(* the last interval ended or later.                                       *)
Open(s, p) ==
  /\ p.start < p.end
  /\ sent[s] # None => sent[s].end <= p.start
  /\ sent' = [sent EXCEPT ![s] = p]

(* A point that extends the current interval.                              *)
Extend(s, p) ==
  /\ sent[s] # None
  /\ p.start = sent[s].start
  /\ sent[s].end <= p.end
  /\ sent[s].val <= p.val
  /\ sent' = [sent EXCEPT ![s] = p]

Next == \E s \in Streams :
          LET p == sent'[s] IN p \in Interval /\ (Open(s, p) \/ Extend(s, p))

Spec == Init /\ [][Next]_sent
=============================================================================
