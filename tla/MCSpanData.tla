------------------------------ MODULE MCSpanData ------------------------------
(* Model checking of what is recorded on spans.                            *)
EXTENDS SpanData, TLC

CONSTANTS s1, s2, s3

ClockTimes == -1..2

Symmetry == Permutations(Spans)

AllLocal == \A s \in Spans : data[s].kind = "local"

(* Bound: when something is recorded, all times are 1 and spans are local; *)
(* when nothing is, there are one span of any kind or two local ones.      *)
RecordOrWait ==
  \/ /\ calls = 0 /\ \A s \in Spans : knows[s] = {}
     /\ \/ Cardinality(In("none")) = 2
        \/ In("none") # {} /\ AllLocal
  \/ /\ clock = 1 /\ given = {} /\ setBack = {}
     /\ AllLocal /\ \A s \in Spans \ In("none") :
          data[s].start = 1 /\ data[s].end = IF place[s] = "finished_spans" THEN 1 ELSE 0
=============================================================================
