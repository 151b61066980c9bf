------------------------------- MODULE SeqNum -------------------------------
(***************************************************************************)
(* The comparisons of helper.c: sequence numbers are unsigned integers     *)
(* that wrap around at SeqMod (2^32 in the code), and the metric is either *)
(* one of which more is better (ETX_MUL, PDR) or one of which less is.     *)
(***************************************************************************)
EXTENDS Integers

CONSTANTS
    SeqMod,       \* number of sequence numbers
    MaxMetric,    \* AODV_MAX_METRIC
    MoreIsBetter  \* metric_type is AODV_METRIC_ETX_MUL or AODV_METRIC_PDR

ASSUME SeqModAssumption ==
    /\ SeqMod \in Nat
    /\ SeqMod >= 4
    /\ MaxMetric \in Nat
    /\ MoreIsBetter \in BOOLEAN

SeqNo  == 0..(SeqMod - 1)
Metric == 0..MaxMetric

(* UINT32_MAX, which aodv_forward puts into a RERR. *)
SEQ_MAX == SeqMod - 1

(* UINT32_MAX >> 1 *)
HalfSeq == (SeqMod - 1) \div 2

(* i - j in unsigned arithmetic. *)
SeqDiff(i, j) == IF i >= j THEN i - j ELSE i - j + SeqMod

(* > 0 iff i is newer than j. *)
hf_comp_u32(i, j) ==
    IF i = j THEN 0 ELSE IF SeqDiff(i, j) < HalfSeq THEN 1 ELSE -1

(* ++ on a sequence number. *)
SeqSucc(i) == IF i = SeqMod - 1 THEN 0 ELSE i + 1

(* > 0 iff i is better than j. *)
hf_comp_metric(i, j) == IF MoreIsBetter THEN i - j ELSE j - i
=============================================================================
