-------------------------- MODULE ReportingProofs --------------------------
(***************************************************************************)
(* Proofs about Reporting, for any investigations, replies and findings:   *)
(* the learned corpus, what the page may say, and the replay of a batch.   *)
(***************************************************************************)
EXTENDS Reporting, FiniteSetTheorems, SequenceTheorems, TLAPS

-----------------------------------------------------------------------------
(* Where an investigation can be.                                          *)

Places == {"plan", "work", "report", "verify", "learn"} \cup Learning \cup Ended

-----------------------------------------------------------------------------
(* The learned corpus.                                                     *)

New(rec) == \A k \in DOMAIN stored : stored[k].cause # rec.cause

LearnedInv ==
  /\ pc \in [Investigations -> Places]
  /\ pending = [i \in Investigations |-> pending[i]]
  /\ \E R : stored \in Seq(R)
  /\ alone =>
       /\ \A i, j \in Investigations : pc[i] \in Learning /\ pc[j] \in Learning => i = j
       /\ \A k, n \in DOMAIN stored : stored[k].cause = stored[n].cause => k = n
       /\ (\A i \in Investigations : pc[i] # "write") => file = Holding(stored)
       /\ \A i \in Investigations :
            /\ pc[i] = "append" => \E rec : pending[i] = <<rec>> /\ New(rec)
            /\ pc[i] \in {"truncate", "write"} =>
                 \E rec : pending[i] = Append(stored, rec) /\ New(rec)
            /\ pc[i] = "write" => file = Torn

LEMMA LearnedInit == Init => LearnedInv
<1> SUFFICES ASSUME Init PROVE LearnedInv OBVIOUS
<1>1. stored \in Seq({}) /\ DOMAIN stored = {} BY EmptySeq DEF Init
<1> QED BY <1>1 DEF Init, LearnedInv, Places, Ended, Learning

LEMMA LearnedStep == LearnedInv /\ [Next]_vars => LearnedInv'
<1> SUFFICES ASSUME LearnedInv, [Next]_vars PROVE LearnedInv' OBVIOUS
<1> USE DEF LearnedInv
<1>1. ASSUME NEW i \in Investigations, Plan(i) \/ Work(i) \/ Report(i) \/ Verify(i) PROVE LearnedInv'
  <2>1. pc' \in [Investigations -> Places] /\ pc[i] \notin Learning /\ pc'[i] \notin Learning
        /\ \A j \in Investigations : j # i => pc'[j] = pc[j]
    BY <1>1 DEF Plan, Work, Report, Verify, Goto, Places, Learning, Ended
  <2>2. UNCHANGED <<file, stored, pending, alone>>
    BY <1>1 DEF Plan, Work, Report, Verify, corpus
  <2> QED BY <2>1, <2>2 DEF New, Learning
<1>2. ASSUME NEW i \in Investigations, Look(i) PROVE LearnedInv'
  <2> USE DEF Look, Goto, Learning, Places, Ended
  <2>1. CASE Worthy(report[i]) /\ ~Known(report[i])
    <3> DEFINE rec == [cause |-> report[i].cause, seq |-> Len(ReadJson(file)), run |-> i]
    <3>1. pc' = [pc EXCEPT ![i] = "append"] /\ pending' = [pending EXCEPT ![i] = <<rec>>]
          /\ UNCHANGED <<file, stored>> /\ alone' = (alone /\ \A j \in Investigations : pc[j] \notin Learning)
      BY <1>2, <2>1
    <3>2. SUFFICES ASSUME alone, \A j \in Investigations : pc[j] \notin Learning
                   PROVE  LearnedInv'
      BY <3>1
    <3>3. file = Holding(stored) BY <3>2
    <3>4. New(rec) BY <2>1, <3>3 DEF New, Known, Priors, ReadJson, Holding, Torn
    <3>5. pending'[i] = <<rec>> BY <3>1
    <3> HIDE DEF rec
    <3>6. /\ pc' \in [Investigations -> Places] /\ pc'[i] = "append"
          /\ \A j \in Investigations : j # i => pc'[j] \notin Learning
      BY <3>1, <3>2
    <3>7. pending' = [j \in Investigations |-> pending'[j]] BY <3>1
    <3>8. \A r : New(r)' <=> New(r) BY <3>1 DEF New
    <3> QED BY <3>1, <3>3, <3>4, <3>5, <3>6, <3>7, <3>8
  <2>2. CASE ~(Worthy(report[i]) /\ ~Known(report[i]))
    <3>1. /\ pc[i] = "learn" /\ pc' = [pc EXCEPT ![i] = "done"]
          /\ UNCHANGED <<file, stored, pending, alone>>
      BY <1>2, <2>2
    <3> QED BY <3>1 DEF New
  <2> QED BY <2>1, <2>2
<1>3. ASSUME NEW i \in Investigations, AppendRecord(i) PROVE LearnedInv'
  <2> USE DEF Learning, Places, Ended
  <2>1. /\ pc[i] = "append" /\ pc' = [pc EXCEPT ![i] = "truncate"]
        /\ pending' = [pending EXCEPT ![i] = ReadJson(file) \o @]
        /\ UNCHANGED <<file, stored, alone>>
    BY <1>3 DEF AppendRecord, Goto
  <2>2. SUFFICES ASSUME alone PROVE LearnedInv' BY <2>1
  <2>3. PICK rec : pending[i] = <<rec>> /\ New(rec) BY <2>1, <2>2
  <2>4. file = Holding(stored) BY <2>1, <2>2
  <2>5. PICK R : stored \in Seq(R) OBVIOUS
  <2>6. ReadJson(file) \o pending[i] = Append(stored, rec)
    <3>1. ReadJson(file) = stored BY <2>4 DEF ReadJson, Holding, Torn
    <3>2. stored \in Seq(R \cup {rec}) BY <2>5, SeqMonotonic
    <3>3. Append(stored, rec) = stored \o <<rec>> BY <3>2, AppendIsConcat
    <3> QED BY <2>3, <3>1, <3>3
  <2>7. pending'[i] = Append(stored, rec) BY <2>1, <2>6
  <2>8. /\ pc' \in [Investigations -> Places] /\ pc'[i] = "truncate"
        /\ \A j \in Investigations : j # i => pc'[j] \notin Learning
    BY <2>1, <2>2
  <2>9. pending' = [j \in Investigations |-> pending'[j]] BY <2>1
  <2>10. \A r : New(r)' <=> New(r) BY <2>1 DEF New
  <2> QED BY <2>1, <2>2, <2>3, <2>4, <2>7, <2>8, <2>9, <2>10
<1>4. ASSUME NEW i \in Investigations, Truncate(i) PROVE LearnedInv'
  BY <1>4 DEF Truncate, Goto, New, Learning, Places, Ended
<1>5. ASSUME NEW i \in Investigations, WriteText(i) PROVE LearnedInv'
  <2> USE DEF Learning, Places, Ended
  <2>1. /\ pc[i] = "write" /\ pc' = [pc EXCEPT ![i] = "done"]
        /\ pending' = [pending EXCEPT ![i] = <<>>]
        /\ file' = Holding(pending[i]) /\ stored' = Append(stored, pending[i][Len(pending[i])])
        /\ UNCHANGED alone
    BY <1>5 DEF WriteText, Goto
  <2>2. PICK R : stored \in Seq(R) OBVIOUS
  <2>3. \E S : stored' \in Seq(S)
    <3> DEFINE rec == pending[i][Len(pending[i])]
    <3>1. stored \in Seq(R \cup {rec}) BY <2>2, SeqMonotonic
    <3> QED BY <2>1, <3>1
  <2>4. SUFFICES ASSUME alone PROVE LearnedInv' BY <2>1, <2>3
  <2>5. PICK rec : pending[i] = Append(stored, rec) /\ New(rec) BY <2>1, <2>4
  <2>6. stored \in Seq(R \cup {rec}) BY <2>2, SeqMonotonic
  <2>7. /\ Len(stored) \in Nat /\ DOMAIN stored = 1 .. Len(stored)
        /\ DOMAIN pending[i] = 1 .. Len(stored) + 1 /\ Len(pending[i]) = Len(stored) + 1
        /\ pending[i][Len(stored) + 1] = rec
        /\ \A k \in 1 .. Len(stored) : pending[i][k] = stored[k]
    BY <2>5, <2>6
  <2>8. stored' = pending[i] BY <2>1, <2>5, <2>7
  <2>9. \A k, n \in DOMAIN stored' : stored'[k].cause = stored'[n].cause => k = n
    BY <2>4, <2>5, <2>7, <2>8 DEF New
  <2>10. file' = Holding(stored') BY <2>1, <2>8
  <2>11. \A j \in Investigations : pc'[j] \notin Learning BY <2>1, <2>4
  <2> QED BY <2>1, <2>3, <2>9, <2>10, <2>11
<1>6. ASSUME NEW i \in Investigations, WriteFails(i) PROVE LearnedInv'
  BY <1>6 DEF WriteFails, Goto, New, Learning, Places, Ended
<1>7. ASSUME Crash PROVE LearnedInv'
  <2>1. /\ pc' \in [Investigations -> Places]
        /\ \A j \in Investigations : pc'[j] \notin Learning
        /\ pending' = [i \in Investigations |-> pending'[i]]
        /\ alone' = (alone /\ file # Torn) /\ UNCHANGED <<file, stored>>
    BY <1>7 DEF Crash, Places, Learning, Ended
  <2> QED BY <2>1 DEF Learning
<1>8. ASSUME Replay PROVE LearnedInv'
  BY <1>8 DEF Replay, corpus, Learning, Places, Ended, New
<1>9. CASE UNCHANGED vars
  BY <1>9 DEF vars, run, corpus, New
<1> QED BY <1>1, <1>2, <1>3, <1>4, <1>5, <1>6, <1>7, <1>8, <1>9 DEF Next

(* The learned corpus holds what was stored, one entry for a cause, unless *)
(* two runs learned at once or one was cut off between emptying the file   *)
(* and writing it (incident_memory.py:155-201).                            *)
THEOREM CorpusIsIntact == Spec => []LearnedIsIntact
<1>1. LearnedInv => LearnedIsIntact BY DEF LearnedInv, LearnedIsIntact
<1> QED BY <1>1, LearnedInit, LearnedStep, PTL DEF Spec
-----------------------------------------------------------------------------
(* Ranks and lists.                                                        *)

Below(S, R, k) == {j \in S : <<j, k>> \in R}

\* In a strict order of a finite set there is one element of each rank.
LEMMA EveryRank ==
  ASSUME NEW S, IsFiniteSet(S), NEW R,
         \A k \in S : <<k, k>> \notin R,
         \A j, k \in S : j # k => <<j, k>> \in R \/ <<k, j>> \in R,
         \A j, k, l \in S : <<j, k>> \in R /\ <<k, l>> \in R => <<j, l>> \in R,
         NEW n \in 1 .. Cardinality(S)
  PROVE  \E k \in S : Cardinality(Below(S, R, k)) = n - 1
<1> DEFINE N == Cardinality(S)
           rank == [k \in S |-> Cardinality(Below(S, R, k)) + 1]
<1>0. N \in Nat BY FS_CardinalityType
<1>1. ASSUME NEW k \in S
      PROVE  IsFiniteSet(Below(S, R, k)) /\ Cardinality(Below(S, R, k)) \in 0 .. N - 1
  <2>1. IsFiniteSet(S \ {k}) /\ Cardinality(S \ {k}) = N - 1 BY FS_RemoveElement
  <2>2. Below(S, R, k) \in SUBSET (S \ {k}) BY DEF Below
  <2>3. IsFiniteSet(Below(S, R, k)) /\ Cardinality(Below(S, R, k)) <= N - 1
    BY <2>1, <2>2, FS_Subset
  <2>4. Cardinality(Below(S, R, k)) \in Nat BY <2>3, FS_CardinalityType
  <2> QED BY <1>0, <2>3, <2>4
<1>2. ASSUME NEW j \in S, NEW k \in S, <<j, k>> \in R
      PROVE  Cardinality(Below(S, R, j)) # Cardinality(Below(S, R, k))
  <2>1. Below(S, R, j) \in SUBSET Below(S, R, k) /\ j \in Below(S, R, k) /\ j \notin Below(S, R, j)
    BY <1>2 DEF Below
  <2>2. IsFiniteSet(Below(S, R, k)) BY <1>1
  <2> QED BY <2>1, <2>2, FS_Subset
<1> HIDE DEF N
<1>3. rank \in [S -> 1 .. N]
  <2> SUFFICES ASSUME NEW k \in S PROVE Cardinality(Below(S, R, k)) + 1 \in 1 .. N OBVIOUS
  <2> QED BY <1>0, <1>1
<1>4. ASSUME NEW j \in S, NEW k \in S, rank[j] = rank[k] PROVE j = k
  <2>1. Cardinality(Below(S, R, j)) \in Int /\ Cardinality(Below(S, R, k)) \in Int
    <3>1. Cardinality(Below(S, R, j)) \in 0 .. N - 1 /\ Cardinality(Below(S, R, k)) \in 0 .. N - 1
      BY <1>1
    <3> QED BY <3>1, <1>0
  <2>2. Cardinality(Below(S, R, j)) = Cardinality(Below(S, R, k)) BY <1>4, <2>1
  <2> QED BY <2>2, <1>2
<1> HIDE DEF rank
<1>5. rank \in Injection(S, 1 .. N)
  <2>1. \A j, k \in S : rank[j] = rank[k] => j = k BY <1>4
  <2> QED BY <1>3, <2>1 DEF Injection, IsInjective
<1>6. IsFiniteSet(1 .. N) /\ Cardinality(1 .. N) = Cardinality(S)
  BY <1>0, FS_Interval DEF N
<1>7. rank \in Surjection(S, 1 .. N) BY <1>5, <1>6, FS_Injection
<1>8. PICK k \in S : rank[k] = n BY <1>7 DEF Surjection, N
<1>9. Cardinality(Below(S, R, k)) \in 0 .. N - 1 BY <1>1
<1>10. rank[k] = Cardinality(Below(S, R, k)) + 1 BY DEF rank
<1> QED BY <1>0, <1>8, <1>9, <1>10

LEMMA ListsAre ==
  ASSUME NEW list, Listed(list)
  PROVE  /\ Len(list) \in Nat /\ DOMAIN list = 1 .. Len(list) /\ IsFiniteSet(DOMAIN list)
<1>1. Len(list) \in Nat /\ DOMAIN list = 1 .. Len(list) BY LenProperties DEF Listed
<1> QED BY <1>1, FS_Interval

LEMMA SequencesAreLists ==
  ASSUME NEW S, NEW list \in Seq(S)
  PROVE  Listed(list)
<1>1. Len(list) \in Nat /\ list \in [1 .. Len(list) -> {list[k] : k \in DOMAIN list}]
  BY LenProperties
<1> QED BY <1>1, SeqDef DEF Listed

LEMMA AtIs ==
  ASSUME NEW list, Listed(list), NEW places \in SUBSET DOMAIN list
  PROVE  At(list, places) \in Seq({list[k] : k \in places})
<1>1. IsFiniteSet(DOMAIN list) /\ DOMAIN list \subseteq Nat BY ListsAre
<1>2. IsFiniteSet(places) BY <1>1, FS_Subset
<1>3. Cardinality(places) \in Nat BY <1>2, FS_CardinalityType
<1> DEFINE R == {p \in Nat \X Nat : p[1] < p[2]}
<1>4. ASSUME NEW n \in 1 .. Cardinality(places)
      PROVE  \E k \in places : Cardinality({j \in places : j < k}) = n - 1
  <2>1. \A j, k \in places : <<j, k>> \in R <=> j < k BY <1>1
  <2> HIDE DEF R
  <2>2. \E k \in places : Cardinality(Below(places, R, k)) = n - 1
    <3>1. \A j, k \in places : j # k => <<j, k>> \in R \/ <<k, j>> \in R BY <1>1, <2>1
    <3>2. \A k \in places : <<k, k>> \notin R BY <1>1, <2>1
    <3>3. \A j, k, l \in places : <<j, k>> \in R /\ <<k, l>> \in R => <<j, l>> \in R
      BY <1>1, <2>1
    <3> QED BY <1>2, <3>1, <3>2, <3>3, EveryRank
  <2>3. PICK k \in places : Cardinality(Below(places, R, k)) = n - 1 BY <2>2
  <2>4. Below(places, R, k) = {j \in places : j < k} BY <2>1 DEF Below
  <2> QED BY <2>3, <2>4
<1>5. \A n \in 1 .. Cardinality(places) :
         list[CHOOSE k \in places : Cardinality({j \in places : j < k}) = n - 1]
           \in {list[k] : k \in places}
  BY <1>4
<1>6. At(list, places) \in [1 .. Cardinality(places) -> {list[k] : k \in places}]
  BY <1>5 DEF At
<1> QED BY <1>3, <1>6, SeqDef

LEMMA UpToIs ==
  ASSUME NEW S, NEW list \in Seq(S), NEW n \in Nat
  PROVE  UpTo(n, list) \in Seq(S)
<1> DEFINE m == IF Len(list) < n THEN Len(list) ELSE n
<1>1. m \in Int /\ m <= Len(list) /\ Len(list) \in Nat OBVIOUS
<1> HIDE DEF m
<1>2. \A i \in 1 .. m : list[i] \in S BY <1>1
<1>3. SubSeq(list, 1, m) \in Seq(S) BY <1>1, <1>2, SubSeqProperties
<1> QED BY <1>3 DEF UpTo, m

LEMMA CoercedIs ==
  ASSUME NEW list, Listed(list), NEW n \in Nat
  PROVE  Listed(CoerceStrList(n, list))
<1> DEFINE places == {k \in DOMAIN list : list[k] # "empty"}
<1>1. At(list, places) \in Seq({list[k] : k \in places}) BY AtIs
<1>2. UpTo(n, At(list, places)) \in Seq({list[k] : k \in places}) BY <1>1, UpToIs
<1> QED BY <1>2, SequencesAreLists DEF CoerceStrList

-----------------------------------------------------------------------------
(* Reports: what each step makes of one.                                   *)

HypothesesAre(hypotheses) ==
  /\ Listed(hypotheses)
  /\ \A k \in DOMAIN hypotheses :
       LET h == hypotheses[k]
       IN  /\ h = [cause |-> h.cause, verdict |-> h.verdict,
                   evidence |-> h.evidence, support |-> h.support]
           /\ Listed(h.evidence) /\ h.support \in Int

Shaped(r) ==
  /\ r = [cause |-> r.cause, advised |-> r.advised, evidence |-> r.evidence,
          hypotheses |-> r.hypotheses, calibrated |-> r.calibrated,
          abstained |-> r.abstained, needs |-> r.needs, critique |-> r.critique,
          verification |-> r.verification, sandbox |-> r.sandbox, page |-> r.page]
  /\ Listed(r.evidence) /\ HypothesesAre(r.hypotheses)

\* A reply parsed is a report: of its lists nothing but items is left.
LEMMA ParsedIsShaped ==
  ASSUME NEW i \in Investigations, NEW reply \in Replies[i] \cup {NoReply}
  PROVE  LET r == ParseReport(reply)
         IN  /\ Shaped(r) /\ r.critique = "none" /\ r.verification = "none"
             /\ \A k \in DOMAIN r.hypotheses : r.hypotheses[k].support = Unprobed
<1>1. CASE reply = NoReply
  <2>1. Listed(<<>>) BY EmptySeq DEF Listed
  <2> QED BY <1>1, <2>1 DEF ParseReport, FallbackReport, Parsed, Shaped, HypothesesAre
<1>2. CASE reply # NoReply
  <2>1. /\ Listed(reply.evidence) /\ Listed(reply.hypotheses)
        /\ \A k \in DOMAIN reply.hypotheses : Listed(reply.hypotheses[k].evidence)
    BY <1>2, RepliesAssumption
  <2> DEFINE places == {k \in DOMAIN reply.hypotheses : reply.hypotheses[k].cause # NoCause}
             items == {reply.hypotheses[k] : k \in places}
             named == UpTo(10, At(reply.hypotheses, places))
             hypotheses == [k \in DOMAIN named |-> NormalizeHypothesis(named[k])]
             evidence == CoerceStrList(20, reply.evidence)
  <2>2. At(reply.hypotheses, places) \in Seq(items) BY <2>1, AtIs
  <2>3. named \in Seq(items) BY <2>2, UpToIs
  <2>4. Listed(evidence) BY <2>1, CoercedIs
  <2>5. ParseReport(reply) = Parsed(reply.cause, reply.advised, evidence, hypotheses)
    BY <1>2 DEF ParseReport, NormalizeReport
  <2>6. \A h \in items : Listed(CoerceStrList(8, h.evidence)) BY <2>1, CoercedIs
  <2> HIDE DEF items, named, evidence
  <2>7. /\ Len(named) \in Nat /\ DOMAIN named = 1 .. Len(named)
        /\ \A k \in DOMAIN named : named[k] \in items
    BY <2>3, LenProperties
  <2>8. Listed(hypotheses)
    <3>1. hypotheses \in [1 .. Len(named) -> {hypotheses[k] : k \in DOMAIN hypotheses}]
      BY <2>7
    <3> QED BY <2>7, <3>1, SeqDef DEF Listed
  <2>9. HypothesesAre(hypotheses) /\ \A k \in DOMAIN hypotheses : hypotheses[k].support = Unprobed
    <3>1. ASSUME NEW k \in DOMAIN hypotheses
          PROVE  /\ hypotheses[k] = NormalizeHypothesis(named[k])
                 /\ Listed(CoerceStrList(8, named[k].evidence))
      BY <2>6, <2>7
    <3> HIDE DEF hypotheses
    <3> QED BY <2>8, <3>1 DEF HypothesesAre, NormalizeHypothesis, Unprobed
  <2> HIDE DEF hypotheses
  <2> QED BY <2>4, <2>5, <2>9 DEF Parsed, Shaped
<1> QED BY <1>1, <1>2

Leads(hypotheses) ==
  \A k \in DOMAIN hypotheses : hypotheses[k].support <= hypotheses[1].support

\* Scored hypotheses are all there, and the first one's score is the best.
LEMMA MergedAre ==
  ASSUME NEW h, HypothesesAre(h), NEW scores \in [Targets(h) -> Scores]
  PROVE  HypothesesAre(MergeProbeScores(h, scores)) /\ Leads(MergeProbeScores(h, scores))
<1> DEFINE D == DOMAIN h
           scored == [k \in D |-> IF k \in DOMAIN scores
                                  THEN [h[k] EXCEPT !.support = scores[k]] ELSE h[k]]
           R == {q \in D \X D : \/ scored[q[1]].support > scored[q[2]].support
                                \/ scored[q[1]].support = scored[q[2]].support /\ q[1] < q[2]}
           Ahead(k) == {j \in D : \/ scored[j].support > scored[k].support
                                  \/ scored[j].support = scored[k].support /\ j < k}
           place(n) == CHOOSE k \in D : Cardinality(Ahead(k)) = n - 1
           merged == [n \in D |-> scored[place(n)]]
<1>1. /\ Len(h) \in Nat /\ D = 1 .. Len(h) /\ IsFiniteSet(D) /\ Cardinality(D) = Len(h)
  <2>1. Len(h) \in Nat /\ D = 1 .. Len(h) /\ IsFiniteSet(D) BY ListsAre DEF HypothesesAre
  <2>2. Cardinality(1 .. Len(h)) = Len(h) BY <2>1, FS_Interval
  <2> QED BY <2>1, <2>2
<1>2. ASSUME NEW k \in D
      PROVE  LET g == scored[k]
             IN  /\ g = [cause |-> g.cause, verdict |-> g.verdict,
                         evidence |-> g.evidence, support |-> g.support]
                 /\ Listed(g.evidence) /\ g.support \in Int
  <2>1. CASE k \in DOMAIN scores
    <3>1. scores[k] \in Int
      <4>1. scores[k] \in Scores BY <2>1
      <4>2. Scores \subseteq Nat BY ScoresAssumption
      <4> HIDE DEF D, scored, R, Ahead
      <4>3. scores[k] \in Nat BY <4>1, <4>2
      <4> QED BY <4>3
    <3>2. scored[k] = [cause |-> h[k].cause, verdict |-> h[k].verdict,
                       evidence |-> h[k].evidence, support |-> scores[k]]
      BY <2>1 DEF HypothesesAre
    <3> QED BY <3>1, <3>2 DEF HypothesesAre
  <2>2. CASE k \notin DOMAIN scores BY <2>2 DEF HypothesesAre
  <2> QED BY <2>1, <2>2
<1> HIDE DEF scored
<1>3. \A j, k \in D : <<j, k>> \in R <=> \/ scored[j].support > scored[k].support
                                         \/ scored[j].support = scored[k].support /\ j < k
  <2> HIDE DEF D
  <2> SUFFICES ASSUME NEW j \in D, NEW k \in D
               PROVE  <<j, k>> \in R <=> \/ scored[j].support > scored[k].support
                                         \/ scored[j].support = scored[k].support /\ j < k
    OBVIOUS
  <2> DEFINE p == <<j, k>>
  <2>1. p \in D \X D /\ p[1] = j /\ p[2] = k OBVIOUS
  <2> HIDE DEF p
  <2>2. p \in R <=> \/ scored[p[1]].support > scored[p[2]].support
                    \/ scored[p[1]].support = scored[p[2]].support /\ p[1] < p[2]
    BY <2>1
  <2>3. p \in R <=> \/ scored[j].support > scored[k].support
                    \/ scored[j].support = scored[k].support /\ j < k
    BY <2>1, <2>2
  <2> QED BY <2>3 DEF p
<1>4. MergeProbeScores(h, scores) = merged
  <2>1. DOMAIN scored = D BY DEF scored
  <2> QED BY <2>1 DEF MergeProbeScores, scored
<1>40. \A k \in D : Below(D, R, k) = Ahead(k)
  <2> HIDE DEF R
  <2> QED BY <1>3 DEF Below
<1> HIDE DEF R, Ahead
<1>5. ASSUME NEW n \in D PROVE place(n) \in D /\ Cardinality(Below(D, R, place(n))) = n - 1
  <2>1. \A k \in D : scored[k].support \in Int /\ k \in Int
    <3>1. \A k \in D : scored[k].support \in Int BY <1>2
    <3> QED BY <1>1, <3>1
  <2>2. \A j, k \in D : j # k => <<j, k>> \in R \/ <<k, j>> \in R BY <1>3, <2>1
  <2>3. \A k \in D : <<k, k>> \notin R BY <1>3, <2>1
  <2>4. \A j, k, l \in D : <<j, k>> \in R /\ <<k, l>> \in R => <<j, l>> \in R BY <1>3, <2>1
  <2>5. n \in 1 .. Cardinality(D) BY <1>1
  <2>6. \E k \in D : Cardinality(Below(D, R, k)) = n - 1
    <3> HIDE DEF D
    <3> QED BY <1>1, <2>2, <2>3, <2>4, <2>5, EveryRank
  <2>7. \E k \in D : Cardinality(Ahead(k)) = n - 1 BY <1>40, <2>6
  <2>8. place(n) \in D /\ Cardinality(Ahead(place(n))) = n - 1 BY <2>7
  <2> QED BY <1>40, <2>8
<1> HIDE DEF place
<1>6. ASSUME NEW n \in D PROVE merged[n].support <= merged[1].support
  <2>1. 1 \in D BY <1>1
  <2>2. place(n) \in D /\ place(1) \in D /\ Cardinality(Below(D, R, place(1))) = 0
    BY <1>5, <2>1
  <2>3. Below(D, R, place(1)) = {}
    <3>1. Below(D, R, place(1)) \in SUBSET D BY DEF Below
    <3>2. IsFiniteSet(Below(D, R, place(1))) BY <1>1, <3>1, FS_Subset
    <3> QED BY <2>2, <3>2, FS_EmptySet
  <2>4. <<place(n), place(1)>> \notin R BY <2>2, <2>3 DEF Below
  <2>5. scored[place(n)].support \in Int /\ scored[place(1)].support \in Int BY <1>2, <2>2
  <2> QED BY <1>3, <2>1, <2>2, <2>4, <2>5
<1>7. Listed(merged)
  <2>1. merged \in [1 .. Len(h) -> {merged[k] : k \in DOMAIN merged}] BY <1>1
  <2> QED BY <1>1, <2>1, SeqDef DEF Listed
<1>8. HypothesesAre(merged)
  <2>1. \A k \in D : merged[k] = scored[place(k)] /\ place(k) \in D BY <1>5
  <2>2. DOMAIN merged = D OBVIOUS
  <2> HIDE DEF merged
  <2>3. ASSUME NEW k \in D
        PROVE  LET g == merged[k]
               IN  /\ g = [cause |-> g.cause, verdict |-> g.verdict,
                           evidence |-> g.evidence, support |-> g.support]
                   /\ Listed(g.evidence) /\ g.support \in Int
    <3>1. merged[k] = scored[place(k)] /\ place(k) \in D BY <2>1
    <3> QED BY <1>2, <3>1
  <2> QED BY <1>7, <2>2, <2>3 DEF HypothesesAre
<1> QED BY <1>4, <1>6, <1>8 DEF Leads

LEMMA TotalIsNat ==
  ASSUME NEW r, Shaped(r)
  PROVE  Total(r) \in Nat
<1> DEFINE D == DOMAIN r.hypotheses
           own == {0} \X DOMAIN r.evidence
           of == [k \in D |-> {k} \X DOMAIN r.hypotheses[k].evidence]
           theirs == {of[k] : k \in D}
<1>1. IsFiniteSet(DOMAIN r.evidence) /\ IsFiniteSet(D)
      /\ \A k \in D : IsFiniteSet(DOMAIN r.hypotheses[k].evidence)
  BY ListsAre DEF Shaped, HypothesesAre
<1>2. IsFiniteSet(own) BY <1>1, FS_Singleton, FS_Product
<1>3. \A k \in D : IsFiniteSet(of[k]) BY <1>1, FS_Singleton, FS_Product
<1>4. {{k} \X DOMAIN r.hypotheses[k].evidence : k \in D} = theirs OBVIOUS
<1>5. IsFiniteSet(theirs)
  <2>1. of \in [D -> theirs] /\ \A t \in theirs : \E k \in D : of[k] = t OBVIOUS
  <2> HIDE DEF of, theirs
  <2>2. of \in Surjection(D, theirs) BY <2>1 DEF Surjection
  <2> QED BY <1>1, <2>2, FS_Surjection
<1>6. IsFiniteSet(UNION theirs)
  <2>1. \A t \in theirs : IsFiniteSet(t) BY <1>3
  <2> QED BY <1>5, <2>1, FS_UNION
<1>7. CitedEvidence(r) = own \cup UNION theirs BY <1>4 DEF CitedEvidence
<1> HIDE DEF own, theirs
<1> QED BY <1>2, <1>6, <1>7, FS_Union, FS_CardinalityType DEF Total

\* What a report cites, and what is judged of that, is in two of its fields.
LEMMA SameCitation ==
  ASSUME NEW r, NEW q, NEW observed,
         q.evidence = r.evidence, q.hypotheses = r.hypotheses
  PROVE  /\ Total(q) = Total(r) /\ (Validated(q) <=> Validated(r))
         /\ (Corroborated(q, observed) <=> Corroborated(r, observed))
<1>1. CitedEvidence(q) = CitedEvidence(r) BY DEF CitedEvidence
<1>2. ASSUME NEW item PROVE Occurrences(item, q) = Occurrences(item, r)
  <2>1. \A place \in CitedEvidence(r) : Item(q, place) = Item(r, place) BY DEF Item
  <2>2. {place \in CitedEvidence(q) : Item(q, place) = item}
          = {place \in CitedEvidence(r) : Item(r, place) = item}
    BY <1>1, <2>1
  <2> QED BY <2>2 DEF Occurrences
<1>3. Occurrences("seen", q) = Occurrences("seen", r)
      /\ Occurrences("unseen", q) = Occurrences("unseen", r)
  BY <1>2
<1>4. Total(q) = Total(r) BY <1>1 DEF Total
<1>5. Validated(q) <=> Validated(r) BY DEF Validated
<1>6. Corroborated(q, observed) <=> Corroborated(r, observed) BY <1>3 DEF Corroborated
<1> QED BY <1>4, <1>5, <1>6

\* What may be said of a report whose evidence was judged against what was
\* observed, and of its panel.
Judged(r, observed) ==
  /\ Shaped(r) /\ Leads(r.hypotheses)
  /\ r.calibrated \in {"high", "medium", "low"}
  /\ r.calibrated = "high" =>
       /\ Total(r) >= 3 /\ Validated(r) /\ r.cause # NoCause
       /\ Corroborated(r, observed) /\ r.critique \notin {"weakened", "refuted"}
  /\ r.abstained \in BOOLEAN
  /\ r.abstained => r.calibrated = "low"
  /\ r.critique = "refuted" \/ ~Corroborated(r, observed) => r.abstained /\ r.needs # {}

\* Two reports that differ only in what is not judged.
Alike(q, r) ==
  /\ q.cause = r.cause /\ q.evidence = r.evidence /\ q.hypotheses = r.hypotheses
  /\ q.calibrated = r.calibrated /\ q.abstained = r.abstained /\ q.needs = r.needs
  /\ q.critique = r.critique

LEMMA AlikeIsJudged ==
  ASSUME NEW q, NEW r, NEW observed, Shaped(q), Alike(q, r), Judged(r, observed)
  PROVE  Judged(q, observed)
<1>1. /\ Total(q) = Total(r) /\ (Validated(q) <=> Validated(r))
      /\ (Corroborated(q, observed) <=> Corroborated(r, observed))
  BY SameCitation DEF Alike
<1> QED BY <1>1 DEF Alike, Judged

\* What a doubt leaves of a report.
DoubtOf(q, r, gap) ==
  /\ Shaped(q) /\ q.calibrated = "low" /\ q.abstained = TRUE /\ gap \in q.needs
  /\ q.cause = r.cause /\ q.evidence = r.evidence /\ q.hypotheses = r.hypotheses
  /\ q.critique = r.critique /\ q.verification = r.verification

LEMMA DoubtedIs ==
  ASSUME NEW r, NEW gap, Shaped(r), NEW q, q = Doubted(r, gap)
  PROVE  DoubtOf(q, r, gap)
<1>1. q = [cause |-> r.cause, advised |-> r.advised, evidence |-> r.evidence,
           hypotheses |-> r.hypotheses, calibrated |-> "low",
           abstained |-> TRUE, needs |-> r.needs \cup {gap}, critique |-> r.critique,
           verification |-> r.verification, sandbox |-> r.sandbox, page |-> r.page]
  <2>1. Doubted(r, gap) = [r EXCEPT !.calibrated = "low", !.abstained = TRUE,
                                    !.needs = r.needs \cup {gap}]
    BY DEF Doubted
  <2>2. r = [cause |-> r.cause, advised |-> r.advised, evidence |-> r.evidence,
             hypotheses |-> r.hypotheses, calibrated |-> r.calibrated,
             abstained |-> r.abstained, needs |-> r.needs, critique |-> r.critique,
             verification |-> r.verification, sandbox |-> r.sandbox, page |-> r.page]
    BY DEF Shaped
  <2> QED BY <2>1, <2>2
<1> QED BY <1>1 DEF Shaped, DoubtOf

LEMMA WeighedIsJudged ==
  ASSUME NEW r, NEW observed, Shaped(r), Leads(r.hypotheses), r.critique = "none"
  PROVE  /\ Judged(Weighed(r, observed), observed)
         /\ Weighed(r, observed).critique = "none"
         /\ Weighed(r, observed).verification = r.verification
<1> DEFINE c == CalibrateConfidence(r)
           abstained == Total(r) < 2 \/ ~(Validated(r) \/ r.cause # NoCause)
           level == IF Total(r) >= 3 /\ Validated(r) /\ r.cause # NoCause THEN "high"
                    ELSE IF Total(r) >= 2 /\ (Validated(r) \/ r.cause # NoCause) THEN "medium"
                    ELSE "low"
<1>1. /\ Shaped(c) /\ c.cause = r.cause /\ c.evidence = r.evidence
      /\ c.hypotheses = r.hypotheses /\ c.critique = "none"
      /\ c.calibrated = level /\ c.abstained = abstained /\ c.verification = r.verification
  <2> DEFINE needs == IF ~abstained THEN {}
                      ELSE {n \in {"cause", "validation", "evidence"} :
                               \/ n = "cause" /\ ~(r.cause # NoCause)
                               \/ n = "validation" /\ ~Validated(r)
                               \/ n = "evidence" /\ Total(r) < 2}
  <2>2. c = [r EXCEPT !.calibrated = level, !.abstained = abstained, !.needs = needs]
    BY DEF CalibrateConfidence
  <2> HIDE DEF c, level, abstained, needs
  <2>1. c = [cause |-> r.cause, advised |-> r.advised, evidence |-> r.evidence,
             hypotheses |-> r.hypotheses, calibrated |-> level,
             abstained |-> abstained, needs |-> needs, critique |-> r.critique,
             verification |-> r.verification, sandbox |-> r.sandbox, page |-> r.page]
    BY <2>2 DEF Shaped
  <2> QED BY <2>1 DEF Shaped
<1>2. /\ Total(c) = Total(r) /\ (Validated(c) <=> Validated(r))
      /\ (Corroborated(c, observed) <=> Corroborated(r, observed))
  BY <1>1, SameCitation
<1>3. Total(r) \in Nat BY TotalIsNat
<1>4. /\ level \in {"high", "medium", "low"} /\ (abstained => level = "low")
      /\ level = "high" => Total(r) >= 3 /\ Validated(r) /\ r.cause # NoCause
  BY <1>3
<1> HIDE DEF c, abstained, level
<1>5. CASE Corroborated(c, observed)
  <2>1. Weighed(r, observed) = c BY <1>5 DEF Weighed, VerifyGrounding, c
  <2> QED BY <1>1, <1>2, <1>4, <1>5, <2>1 DEF Judged, abstained
<1>6. CASE ~Corroborated(c, observed)
  <2> DEFINE q == Doubted(c, "corroboration")
  <2>1. Weighed(r, observed) = q BY <1>6 DEF Weighed, VerifyGrounding, c
  <2>2. /\ Shaped(q) /\ q.calibrated = "low" /\ q.abstained = TRUE
        /\ "corroboration" \in q.needs /\ q.hypotheses = r.hypotheses /\ q.critique = "none"
        /\ q.verification = r.verification
    <3>1. Shaped(c) BY <1>1
    <3>2. DoubtOf(q, c, "corroboration") BY <3>1, DoubtedIs
    <3> HIDE DEF q
    <3>3. /\ Shaped(q) /\ q.calibrated = "low" /\ q.abstained = TRUE /\ "corroboration" \in q.needs
          /\ q.hypotheses = c.hypotheses /\ q.critique = c.critique
          /\ q.verification = c.verification
      BY <3>2 DEF DoubtOf
    <3> QED BY <1>1, <3>3
  <2> HIDE DEF q
  <2> QED BY <2>1, <2>2 DEF Judged
<1> QED BY <1>5, <1>6

LEMMA CriticisedIsJudged ==
  ASSUME NEW r, NEW observed, Judged(r, observed), r.critique = "none",
         NEW q \in Criticised(r)
  PROVE  Judged(q, observed) /\ q.verification = r.verification
<1>1. CASE q = r BY <1>1
<1>2. ASSUME NEW verdict, q = ApplyCritique(r, verdict),
             verdict \in {"refuted", "weakened", "upheld"}
      PROVE  Judged(q, observed) /\ q.verification = r.verification
  <2> DEFINE c == [r EXCEPT !.critique = verdict]
  <2>1. /\ Shaped(c) /\ c.critique = verdict /\ c.cause = r.cause
        /\ c.evidence = r.evidence /\ c.hypotheses = r.hypotheses
        /\ c.calibrated = r.calibrated /\ c.abstained = r.abstained /\ c.needs = r.needs
        /\ c.verification = r.verification
    BY DEF Judged, Shaped
  <2>2. /\ Total(c) = Total(r) /\ (Validated(c) <=> Validated(r))
        /\ (Corroborated(c, observed) <=> Corroborated(r, observed))
    BY <2>1, SameCitation
  <2> HIDE DEF c
  <2>3. CASE verdict = "refuted"
    <3>1. q = Doubted(c, "objection") BY <1>2, <2>3 DEF ApplyCritique, c
    <3>2. /\ Shaped(q) /\ q.calibrated = "low" /\ q.abstained = TRUE
          /\ "objection" \in q.needs /\ q.hypotheses = r.hypotheses
          /\ q.verification = r.verification
      <4>1. DoubtOf(q, c, "objection") BY <2>1, <3>1, DoubtedIs
      <4> QED BY <2>1, <4>1 DEF DoubtOf
    <3> QED BY <3>2 DEF Judged
  <2>4. CASE verdict = "weakened"
    <3>1. q = [c EXCEPT !.calibrated = Downgrade[@]]
      BY <1>2, <2>4, "weakened" # "refuted" DEF ApplyCritique, c
    <3>2. Downgrade[r.calibrated] \in {"medium", "low"}
          /\ (r.calibrated = "low" => Downgrade[r.calibrated] = "low")
      BY DEF Judged, Downgrade
    <3>3. /\ Shaped(q) /\ q.calibrated = Downgrade[r.calibrated] /\ q.critique = "weakened"
          /\ q.cause = r.cause /\ q.evidence = r.evidence /\ q.hypotheses = r.hypotheses
          /\ q.abstained = r.abstained /\ q.needs = r.needs
          /\ q.verification = r.verification
      BY <2>1, <2>4, <3>1 DEF Shaped
    <3>4. Corroborated(q, observed) <=> Corroborated(r, observed)
      BY <3>3, SameCitation
    <3> QED BY <3>2, <3>3, <3>4 DEF Judged
  <2>5. CASE verdict = "upheld"
    <3>1. q = c
      BY <1>2, <2>5, "upheld" # "refuted", "upheld" # "weakened" DEF ApplyCritique, c
    <3> QED BY <2>1, <2>2, <2>5, <3>1 DEF Judged
  <2> QED BY <1>2, <2>3, <2>4, <2>5
<1>3. \A o, b : AdversarialCritique(o, b) \in {"refuted", "weakened", "upheld"}
  BY DEF AdversarialCritique, JudgeCritique
<1> QED BY <1>1, <1>2, <1>3 DEF Criticised

-----------------------------------------------------------------------------
(* What the page says of its report, once it is written.                   *)

Says(r) ==
  /\ r.page.confidence = r.calibrated /\ r.page.cause = r.cause
  /\ r.page.needs = IF r.abstained THEN r.needs ELSE {}
  /\ r.page.review = IF r.critique \in {"weakened", "refuted"} THEN r.critique ELSE "none"
  /\ r.page.fix = "verified" => r.verification = "verified" /\ r.page.sandbox = r.sandbox

Backed(r, onTarget) ==
  r.verification = "verified" => r.sandbox = "resolved" \/ (onTarget /\ r.sandbox # "not_resolved")

LEMMA WrittenIs ==
  ASSUME NEW r, Shaped(r), NEW q, q = Written(r)
  PROVE  /\ Shaped(q) /\ Alike(q, r) /\ Says(q)
         /\ q.verification = r.verification /\ q.sandbox = r.sandbox
<1> DEFINE page == RenderPostmortem(r)
<1>1. /\ page.confidence = r.calibrated /\ page.cause = r.cause
      /\ page.needs = IF r.abstained THEN r.needs ELSE {}
      /\ page.review = IF r.critique \in {"weakened", "refuted"} THEN r.critique ELSE "none"
      /\ page.fix = IF r.verification \in {"none", "no_fix_proposed"} THEN "none" ELSE r.verification
      /\ page.sandbox = IF r.verification \in {"none", "no_fix_proposed"} THEN "none" ELSE r.sandbox
  BY DEF RenderPostmortem
<1>2. q = [r EXCEPT !.page = page] BY DEF Written
<1> HIDE DEF page
<1>3. q = [cause |-> r.cause, advised |-> r.advised, evidence |-> r.evidence,
           hypotheses |-> r.hypotheses, calibrated |-> r.calibrated,
           abstained |-> r.abstained, needs |-> r.needs, critique |-> r.critique,
           verification |-> r.verification, sandbox |-> r.sandbox, page |-> page]
  BY <1>2 DEF Shaped
<1>4. Shaped(q) BY <1>3 DEF Shaped
<1>5. Alike(q, r) BY <1>3 DEF Alike
<1>6. Says(q) BY <1>1, <1>3 DEF Says
<1> QED BY <1>3, <1>4, <1>5, <1>6

\* What a cassette holds for a reporter may have been said to another one.
AllReplies == UNION {Replies[i] : i \in Investigations}

AfterReport == {"verify", "learn", "done"} \cup Learning

PageInv ==
  /\ pc \in [Investigations -> Places]
  /\ report = [i \in Investigations |-> report[i]]
  /\ gathered = [i \in Investigations |-> gathered[i]]
  /\ \A q \in DOMAIN cassette : q.to = "report" => cassette[q] \in AllReplies
  /\ \A i \in Investigations : pc[i] \in AfterReport =>
       /\ Judged(report[i], gathered[i].observed) /\ Says(report[i])
       /\ Backed(report[i], gathered[i].onTarget)

LEMMA PageInit == Init => PageInv
BY DEF Init, PageInv, Places, AfterReport, Learning

LEMMA KeyIs == \A i, prompt : CassetteKey(Request(i, prompt)) = prompt
BY DEF CassetteKey, Request

\* A cassette keeps the other entries, and takes the answer to a prompt.
LEMMA PutIs ==
  ASSUME NEW i, NEW prompt, NEW answer, Put(i, prompt, answer), NEW q \in DOMAIN cassette'
  PROVE  \/ q \in DOMAIN cassette /\ cassette'[q] = cassette[q]
         \/ q = prompt /\ cassette'[q] = answer /\ answer # NoReply
BY KeyIs DEF Put

LEMMA PageHolds == PageInv => PageCanBeTrusted
<1> SUFFICES ASSUME PageInv, NEW i \in Investigations, pc[i] \in AfterReport
             PROVE  LET r == report[i]
                    IN  HighIsEarned(i, r) /\ DoubtIsAdmitted(i, r) /\ FixIsBacked(i, r) /\ BestLeads(r)
  BY DEF PageCanBeTrusted, AfterReport
<1> DEFINE r == report[i]
<1>1. Judged(r, gathered[i].observed) /\ Says(r) /\ Backed(r, gathered[i].onTarget)
  BY DEF PageInv
<1> HIDE DEF r
<1>2. HighIsEarned(i, r) BY <1>1 DEF HighIsEarned, Judged, Says
<1>3. DoubtIsAdmitted(i, r) BY <1>1 DEF DoubtIsAdmitted, Judged, Says
<1>4. FixIsBacked(i, r) BY <1>1 DEF FixIsBacked, Says, Backed
<1>5. BestLeads(r) BY <1>1 DEF BestLeads, Judged, Leads
<1> QED BY <1>2, <1>3, <1>4, <1>5 DEF r

LEMMA ReportIsJudged ==
  ASSUME PageInv, NEW i \in Investigations, Report(i)
  PROVE  /\ Judged(report'[i], gathered[i].observed) /\ Says(report'[i])
         /\ Backed(report'[i], gathered[i].onTarget)
<1> DEFINE observed == gathered[i].observed
           prompt == ReportPrompt(i, gathered[i])
<1>1. PICK answer \in Answers(i, prompt, Replies[i]) :
        \E probed \in Probed(ParseReport(answer)) : \E r \in Criticised(Weighed(probed, observed)) :
           report' = [report EXCEPT ![i] = Written(r)]
  BY DEF Report
<1>2. PICK probed \in Probed(ParseReport(answer)) : \E r \in Criticised(Weighed(probed, observed)) :
           report' = [report EXCEPT ![i] = Written(r)]
  BY <1>1
<1>3. PICK r \in Criticised(Weighed(probed, observed)) :
           report' = [report EXCEPT ![i] = Written(r)]
  BY <1>2
<1>4. answer \in AllReplies \cup {NoReply}
  <2>1. prompt.to = "report" BY DEF ReportPrompt
  <2> HIDE DEF prompt
  <2> QED BY <1>1, <2>1, KeyIs DEF Answers, PageInv, AllReplies
<1> DEFINE parsed == ParseReport(answer)
<1>5. /\ Shaped(parsed) /\ parsed.critique = "none" /\ parsed.verification = "none"
      /\ \A k \in DOMAIN parsed.hypotheses : parsed.hypotheses[k].support = Unprobed
  <2>1. PICK j \in Investigations : answer \in Replies[j] \cup {NoReply} BY <1>4 DEF AllReplies
  <2> HIDE DEF parsed
  <2>2. parsed = ParseReport(answer) BY DEF parsed
  <2> QED BY <2>1, <2>2, ParsedIsShaped
<1> HIDE DEF parsed
<1>6. Shaped(probed) /\ Leads(probed.hypotheses) /\ probed.critique = "none"
      /\ probed.verification = "none"
  <2>1. CASE probed = parsed
    <3>1. Leads(parsed.hypotheses)
      <4>1. DOMAIN parsed.hypotheses # {} => 1 \in DOMAIN parsed.hypotheses
        BY <1>5, ListsAre DEF Shaped, HypothesesAre
      <4>2. \A k \in DOMAIN parsed.hypotheses :
               parsed.hypotheses[k].support = -1 /\ parsed.hypotheses[1].support = -1
        BY <1>5, <4>1 DEF Unprobed
      <4> QED BY <4>2 DEF Leads
    <3> QED BY <1>5, <2>1, <3>1
  <2>2. ASSUME NEW scores \in [Targets(parsed.hypotheses) -> Scores],
               probed = [parsed EXCEPT !.hypotheses = MergeProbeScores(parsed.hypotheses, scores)]
        PROVE  Shaped(probed) /\ Leads(probed.hypotheses) /\ probed.critique = "none"
               /\ probed.verification = "none"
    <3> DEFINE merged == MergeProbeScores(parsed.hypotheses, scores)
    <3>1. HypothesesAre(merged) /\ Leads(merged) BY <1>5, MergedAre DEF Shaped
    <3> HIDE DEF merged
    <3>2. probed = [cause |-> parsed.cause, advised |-> parsed.advised, evidence |-> parsed.evidence,
                    hypotheses |-> merged, calibrated |-> parsed.calibrated,
                    abstained |-> parsed.abstained, needs |-> parsed.needs,
                    critique |-> parsed.critique, verification |-> parsed.verification,
                    sandbox |-> parsed.sandbox, page |-> parsed.page]
      BY <1>5, <2>2 DEF Shaped, merged
    <3>3. Listed(parsed.evidence) BY <1>5 DEF Shaped
    <3> QED BY <1>5, <3>1, <3>2, <3>3 DEF Shaped
  <2> QED BY <1>2, <2>1, <2>2 DEF Probed, parsed
<1>7. /\ Judged(Weighed(probed, observed), observed) /\ Weighed(probed, observed).critique = "none"
      /\ Weighed(probed, observed).verification = "none"
  BY <1>6, WeighedIsJudged
<1>8. Judged(r, observed) /\ r.verification = "none" BY <1>3, <1>7, CriticisedIsJudged
<1> DEFINE q == Written(r)
<1>9. Shaped(r) BY <1>8 DEF Judged
<1>10. /\ Shaped(q) /\ Alike(q, r) /\ Says(q) /\ q.verification = r.verification
  BY <1>9, WrittenIs
<1>11. report'[i] = q BY <1>3 DEF PageInv
<1> HIDE DEF q
<1>12. Judged(q, observed) BY <1>8, <1>10, AlikeIsJudged
<1>13. Backed(q, gathered[i].onTarget) BY <1>8, <1>10 DEF Backed
<1> QED BY <1>10, <1>11, <1>12, <1>13

Ruled(r, verdict, sandbox) == [r EXCEPT !.verification = verdict, !.sandbox = sandbox]

LEMMA RuledIs ==
  ASSUME NEW r, Shaped(r), NEW verdict, NEW sandbox, NEW c, c = Ruled(r, verdict, sandbox)
  PROVE  Shaped(c) /\ Alike(c, r) /\ c.verification = verdict /\ c.sandbox = sandbox
<1>1. c = [cause |-> r.cause, advised |-> r.advised, evidence |-> r.evidence,
           hypotheses |-> r.hypotheses, calibrated |-> r.calibrated,
           abstained |-> r.abstained, needs |-> r.needs, critique |-> r.critique,
           verification |-> verdict, sandbox |-> sandbox, page |-> r.page]
  BY DEF Shaped, Ruled
<1> QED BY <1>1 DEF Shaped, Alike

LEMMA VerifyIsJudged ==
  ASSUME PageInv, NEW i \in Investigations, Verify(i)
  PROVE  /\ Judged(report'[i], gathered[i].observed) /\ Says(report'[i])
         /\ Backed(report'[i], gathered[i].onTarget)
<1> DEFINE r == report[i]
           observed == gathered[i].observed
<1>1. Judged(r, observed) /\ Says(r) /\ Backed(r, gathered[i].onTarget) /\ Shaped(r)
  BY DEF PageInv, Verify, AfterReport, Judged
<1>2. ASSUME NEW verdict, NEW sandbox, verdict = "verified" =>
               sandbox = "resolved" \/ (gathered[i].onTarget /\ sandbox # "not_resolved"),
             report'[i] = Written([r EXCEPT !.verification = verdict, !.sandbox = sandbox])
      PROVE  /\ Judged(report'[i], observed) /\ Says(report'[i])
             /\ Backed(report'[i], gathered[i].onTarget)
  <2> DEFINE c == [r EXCEPT !.verification = verdict, !.sandbox = sandbox]
             q == Written(c)
  <2> HIDE DEF r
  <2>1. c = Ruled(r, verdict, sandbox) BY DEF Ruled
  <2> HIDE DEF c
  <2>2. Shaped(c) /\ Alike(c, r) /\ c.verification = verdict /\ c.sandbox = sandbox
    <3>1. Shaped(r) BY <1>1
    <3> QED BY <2>1, <3>1, RuledIs
  <2>4. Shaped(q) /\ Alike(q, c) /\ Says(q) /\ q.verification = c.verification /\ q.sandbox = c.sandbox
    BY <2>2, WrittenIs
  <2>5. report'[i] = q BY <1>2 DEF c
  <2> HIDE DEF q
  <2>3. Judged(c, observed) BY <1>1, <2>2, AlikeIsJudged
  <2>6. Judged(q, observed) BY <2>3, <2>4, AlikeIsJudged
  <2>7. Backed(q, gathered[i].onTarget) BY <1>2, <2>2, <2>4 DEF Backed
  <2> QED BY <2>4, <2>5, <2>6, <2>7
<1>3. CASE UNCHANGED report BY <1>1, <1>3
<1>4. CASE report' = [report EXCEPT ![i] = Written([@ EXCEPT !.verification = "no_fix_proposed"])]
  <2>1. r.sandbox = r.sandbox /\ report'[i] = Written([r EXCEPT !.verification = "no_fix_proposed"])
    BY <1>4 DEF PageInv
  <2>2. [r EXCEPT !.verification = "no_fix_proposed"]
          = [r EXCEPT !.verification = "no_fix_proposed", !.sandbox = r.sandbox]
    <3> HIDE DEF r
    <3>1. "sandbox" \in DOMAIN r /\ "verification" \in DOMAIN r BY <1>1 DEF Shaped
    <3>2. r = [x \in DOMAIN r |-> r[x]] BY <1>1 DEF Shaped
    <3> QED BY <3>1, <3>2
  <2> HIDE DEF r
  <2> QED BY <1>2, <2>1, <2>2
<1>5. ASSUME NEW answer, NEW proof,
             report' = [report EXCEPT ![i] = Written([@ EXCEPT
                           !.verification = Reconcile(NormalizeVerification(answer, TRUE),
                                                      gathered[i].onTarget, proof),
                           !.sandbox = proof])]
      PROVE  /\ Judged(report'[i], observed) /\ Says(report'[i])
             /\ Backed(report'[i], gathered[i].onTarget)
  <2> DEFINE normal == NormalizeVerification(answer, TRUE)
             verdict == Reconcile(normal, gathered[i].onTarget, proof)
  <2>1. verdict = "verified" =>
          proof = "resolved" \/ (gathered[i].onTarget /\ proof # "not_resolved")
    <3> HIDE DEF normal
    <3> QED BY DEF Reconcile
  <2>2. report'[i] = Written([r EXCEPT !.verification = verdict, !.sandbox = proof])
    BY <1>5 DEF PageInv
  <2> HIDE DEF r, verdict
  <2> QED BY <1>2, <2>1, <2>2
<1>6. \/ UNCHANGED report
      \/ report' = [report EXCEPT ![i] = Written([@ EXCEPT !.verification = "no_fix_proposed"])]
      \/ \E answer, proof :
            report' = [report EXCEPT ![i] = Written([@ EXCEPT
                          !.verification = Reconcile(NormalizeVerification(answer, TRUE),
                                                     gathered[i].onTarget, proof),
                          !.sandbox = proof])]
  BY DEF Verify
<1> QED BY <1>3, <1>4, <1>5, <1>6

LEMMA PageStep == PageInv /\ [Next]_vars => PageInv'
<1> SUFFICES ASSUME PageInv, [Next]_vars PROVE PageInv' OBVIOUS
<1> DEFINE Fits(j) == /\ Judged(report[j], gathered[j].observed) /\ Says(report[j])
                      /\ Backed(report[j], gathered[j].onTarget)
           Recalls == \A q \in DOMAIN cassette : q.to = "report" => cassette[q] \in AllReplies
<1>0. /\ pc \in [Investigations -> Places] /\ report = [i \in Investigations |-> report[i]]
      /\ gathered = [i \in Investigations |-> gathered[i]] /\ Recalls
      /\ \A i \in Investigations : pc[i] \in AfterReport => Fits(i)
  BY DEF PageInv
<1>a. ASSUME pc' \in [Investigations -> Places], report' = [i \in Investigations |-> report'[i]],
             gathered' = [i \in Investigations |-> gathered'[i]], Recalls',
             \A i \in Investigations : pc'[i] \in AfterReport => Fits(i)'
      PROVE  PageInv'
  BY <1>a DEF PageInv
<1>b. ASSUME NEW j \in Investigations, Fits(j), report'[j] = report[j], gathered'[j] = gathered[j]
      PROVE  Fits(j)'
  <2>1. Judged(report'[j], gathered'[j].observed) BY <1>b
  <2>2. Says(report'[j]) BY <1>b
  <2>3. Backed(report'[j], gathered'[j].onTarget) BY <1>b
  <2> QED BY <2>1, <2>2, <2>3
<1>c. ASSUME NEW i \in Investigations, NEW prompt, NEW answer, Put(i, prompt, answer),
             prompt.to = "report" => answer \in AllReplies \cup {NoReply}
      PROVE  Recalls'
  BY <1>0, <1>c, PutIs
<1> HIDE DEF Fits, Recalls
<1>1. ASSUME NEW i \in Investigations, Plan(i) PROVE PageInv'
  <2>1. PICK answer : Put(i, PlanPrompt(i, Priors), answer) BY <1>1 DEF Plan
  <2>2. Recalls' BY <1>c, <2>1 DEF PlanPrompt
  <2>3. /\ pc' \in [Investigations -> Places] /\ UNCHANGED <<report, gathered>>
        /\ \A j \in Investigations : pc'[j] \in AfterReport => pc[j] \in AfterReport
    BY <1>0, <1>1 DEF Plan, Goto, Places, Ended, AfterReport, Learning
  <2> QED BY <1>0, <1>a, <1>b, <2>2, <2>3
<1>2. ASSUME NEW i \in Investigations, Work(i) PROVE PageInv'
  <2>1. PICK answer : Put(i, AgentPrompt(i, gathered[i], attempts[i]), answer) BY <1>2 DEF Work
  <2>2. Recalls' BY <1>c, <2>1 DEF AgentPrompt
  <2>3. /\ pc' \in [Investigations -> Places] /\ UNCHANGED report
        /\ gathered' = [j \in Investigations |-> gathered'[j]]
        /\ \A j \in Investigations : pc'[j] \in AfterReport =>
             pc[j] \in AfterReport /\ gathered'[j] = gathered[j]
    BY <1>0, <1>2 DEF Work, Goto, Places, Ended, AfterReport, Learning
  <2> QED BY <1>0, <1>a, <1>b, <2>2, <2>3
<1>3. ASSUME NEW i \in Investigations, Report(i) PROVE PageInv'
  <2>1. PICK answer \in Answers(i, ReportPrompt(i, gathered[i]), Replies[i]) :
           Put(i, ReportPrompt(i, gathered[i]), answer)
    BY <1>3 DEF Report
  <2>2. Recalls'
    <3> DEFINE prompt == ReportPrompt(i, gathered[i])
    <3>1. prompt.to = "report" BY DEF ReportPrompt
    <3>a. answer \in Answers(i, prompt, Replies[i]) /\ Put(i, prompt, answer) BY <2>1
    <3> HIDE DEF prompt
    <3>2. answer \in AllReplies \cup {NoReply}
      BY <1>0, <3>1, <3>a, KeyIs DEF Answers, Recalls, AllReplies
    <3> QED BY <1>c, <3>1, <3>2, <3>a
  <2>3. /\ pc' \in [Investigations -> Places] /\ UNCHANGED gathered
        /\ report' = [j \in Investigations |-> report'[j]]
        /\ \A j \in Investigations : j # i =>
             pc'[j] = pc[j] /\ report'[j] = report[j]
    BY <1>0, <1>3 DEF Report, Goto, Places
  <2>4. Fits(i)' BY <1>3, <2>3, ReportIsJudged DEF Fits
  <2> QED BY <1>0, <1>a, <1>b, <2>2, <2>3, <2>4
<1>4. ASSUME NEW i \in Investigations, Verify(i) PROVE PageInv'
  <2>1. UNCHANGED cassette \/ \E answer : Put(i, VerifyPrompt(report[i], gathered[i]), answer)
    BY <1>4 DEF Verify
  <2>2. Recalls'
    <3>1. CASE UNCHANGED cassette BY <1>0, <3>1 DEF Recalls
    <3>2. ASSUME NEW answer, Put(i, VerifyPrompt(report[i], gathered[i]), answer) PROVE Recalls'
      BY <1>c, <3>2 DEF VerifyPrompt
    <3> QED BY <2>1, <3>1, <3>2
  <2>3. /\ pc' \in [Investigations -> Places] /\ UNCHANGED gathered
        /\ report' = [j \in Investigations |-> report'[j]]
        /\ \A j \in Investigations : j # i =>
             pc'[j] = pc[j] /\ report'[j] = report[j]
    BY <1>0, <1>4 DEF Verify, Goto, Places
  <2>4. Fits(i)' BY <1>4, <2>3, VerifyIsJudged DEF Fits
  <2> QED BY <1>0, <1>a, <1>b, <2>2, <2>3, <2>4
<1>5. ASSUME NEW i \in Investigations,
             Look(i) \/ AppendRecord(i) \/ Truncate(i) \/ WriteText(i) \/ WriteFails(i)
      PROVE  PageInv'
  <2>1. UNCHANGED <<report, gathered, cassette>>
    BY <1>5 DEF Look, AppendRecord, Truncate, WriteText, WriteFails, world
  <2>2. /\ pc' \in [Investigations -> Places]
        /\ \A j \in Investigations : pc'[j] \in AfterReport => pc[j] \in AfterReport
    BY <1>0, <1>5 DEF Look, AppendRecord, Truncate, WriteText, WriteFails, Goto, Places, Learning,
                      Ended, AfterReport
  <2>3. Recalls' BY <1>0, <2>1 DEF Recalls
  <2> QED BY <1>0, <1>a, <1>b, <2>1, <2>2, <2>3
<1>6. ASSUME Crash PROVE PageInv'
  <2>1. /\ pc' \in [Investigations -> Places] /\ report' = [j \in Investigations |-> report'[j]]
        /\ gathered' = [j \in Investigations |-> gathered'[j]] /\ UNCHANGED cassette
        /\ \A j \in Investigations : pc'[j] \in AfterReport =>
             pc[j] \in AfterReport /\ report'[j] = report[j] /\ gathered'[j] = gathered[j]
    BY <1>0, <1>6 DEF Crash, world, Places, Ended, AfterReport, Learning
  <2>3. Recalls' BY <1>0, <2>1 DEF Recalls
  <2> QED BY <1>0, <1>a, <1>b, <2>1, <2>3
<1>7. ASSUME Replay PROVE PageInv'
  <2>1. /\ pc' \in [Investigations -> Places] /\ report' = [j \in Investigations |-> report'[j]]
        /\ gathered' = [j \in Investigations |-> gathered'[j]] /\ UNCHANGED cassette
        /\ \A j \in Investigations : pc'[j] \notin AfterReport
    BY <1>7 DEF Replay, Places, AfterReport, Learning
  <2>3. Recalls' BY <1>0, <2>1 DEF Recalls
  <2> QED BY <1>a, <2>1, <2>3
<1>8. CASE UNCHANGED vars
  <2>1. UNCHANGED <<pc, report, gathered, cassette>> BY <1>8 DEF vars, run, world
  <2>2. Recalls' BY <1>0, <2>1 DEF Recalls
  <2> QED BY <1>0, <1>a, <1>b, <2>1, <2>2
<1> QED BY <1>1, <1>2, <1>3, <1>4, <1>5, <1>6, <1>7, <1>8 DEF Next

(* Whatever calls fail on the way to a page and however often its fix is   *)
(* revised, the page says no more of the cause, the evidence, the panel    *)
(* and the fix than what stands behind it (nodes.py:454-871, 1114-1149).   *)
THEOREM PagesCanBeTrusted == Spec => []PageCanBeTrusted
BY PageInit, PageStep, PageHolds, PTL DEF Spec

-----------------------------------------------------------------------------
(* A run under a cassette, with no reproducer.  What it asks, and where an *)
(* answer takes it, depends on where it is, its report, what it gathered   *)
(* and its passes alone; what comes after the verdict changes none of it.  *)

Stage(place) == IF place \in {"learn", "done"} \cup Learning THEN "learned" ELSE place
Stand(stage, r, found, n) == [at |-> stage, report |-> r, gathered |-> found, attempts |-> n]
Local(i) == Stand(Stage(pc[i]), report[i], gathered[i], attempts[i])
Start == Stand("plan", NoReport, NoReply, 0)

Open(x) == x.at \in {"plan", "work", "report", "verify"}
Silent(x) == x.at = "verify" /\ (~settings.verify \/ ~HasFix(x.report, x.gathered))

Prompt(i, x) ==
  IF x.at = "plan" THEN PlanPrompt(i, {})
  ELSE IF x.at = "work" THEN AgentPrompt(i, x.gathered, x.attempts)
  ELSE IF x.at = "report" THEN ReportPrompt(i, x.gathered)
  ELSE VerifyPrompt(x.report, x.gathered)

AfterPlan(x, a) ==
  Stand(IF a = NoReply THEN "failed" ELSE "work", x.report, x.gathered, x.attempts)
AfterWork(x, a) ==
  Stand(IF a = NoReply THEN "failed" ELSE "report", x.report, Accumulated(x.gathered, a), x.attempts)
AfterReporter(x, a) ==
  Stand("verify", Written(Weighed(ParseReport(a), x.gathered.observed)), x.gathered, x.attempts)
AfterSilence(x) ==
  Stand("learned",
     IF settings.verify THEN Written([x.report EXCEPT !.verification = "no_fix_proposed"])
     ELSE x.report,
     x.gathered, x.attempts)
Verdict(x, a) == Reconcile(NormalizeVerification(a, TRUE), x.gathered.onTarget, "none")
Retries(x, a) ==
  Verdict(x, a) = "unverified" /\ x.attempts < settings.attempts /\ ~x.gathered.over
AfterVerdict(x, a) ==
  Stand(IF Retries(x, a) THEN "work" ELSE "learned",
     Written([x.report EXCEPT !.verification = Verdict(x, a), !.sandbox = "none"]),
     x.gathered, IF Retries(x, a) THEN x.attempts + 1 ELSE x.attempts)

After(x, a) ==
  IF x.at = "plan" THEN AfterPlan(x, a)
  ELSE IF x.at = "work" THEN AfterWork(x, a)
  ELSE IF x.at = "report" THEN AfterReporter(x, a)
  ELSE IF Silent(x) THEN AfterSilence(x) ELSE AfterVerdict(x, a)

\* A step that i has taken: it was answered so, or asked nothing.
Moves(i, x, y) ==
  Open(x) /\ \E a : (Silent(x) \/ <<Prompt(i, x), i, a>> \in heard) /\ y = After(x, a)

\* What it went through in n steps.
Path(i, s, n) == s[0] = Start /\ \A k \in 0 .. n - 1 : Moves(i, s[k], s[k + 1])

Recalled(q) == IF q \in DOMAIN cassette THEN cassette[q] ELSE NoReply

Exempt == settings.learn /\ stored # <<>>

CorpusInv ==
  /\ \E R : stored \in Seq(R)
  /\ stored = <<>> => file \in {Torn, Holding(<<>>)}
  /\ stored # <<>> => settings.learn
  /\ \A i \in Investigations : pc[i] \in Learning => settings.learn

RunInv ==
  /\ pc \in [Investigations -> Places] /\ attempts \in [Investigations -> Nat]
  /\ report = [i \in Investigations |-> report[i]]
  /\ gathered = [i \in Investigations |-> gathered[i]]

\* The cassette holds one of the answers that were heard, where one was.
CassetteInv ==
  /\ \A q \in DOMAIN cassette : cassette[q] # NoReply /\ \E i : <<q, i, cassette[q]>> \in heard
  /\ \A e \in heard : e[3] # NoReply => e[1] \in DOMAIN cassette

RecordInv ==
  mode = "record" /\ ~settings.sandbox /\ ~Exempt =>
    \A i \in Investigations : \E s : \E n \in Nat : Path(i, s, n) /\ s[n] = Local(i)

\* How a run that ends in x is recorded.
Records(i, x) ==
  /\ x.at \in {"learned", "failed"}
  /\ recorded[i] = [pc |-> IF x.at = "learned" THEN "done" ELSE "failed", report |-> x.report]

ReplayInv ==
  mode = "replay" /\ ~settings.sandbox /\ ~Exempt =>
    \A i \in Investigations : ~Clashed(i) =>
      \E s : \E m \in Nat : \E n \in 0 .. m :
        Path(i, s, m) /\ Records(i, s[m]) /\ s[n] = Local(i)

PathInv ==
  /\ mode \in {"off", "record", "replay"}
  /\ RunInv /\ CorpusInv /\ CassetteInv /\ RecordInv /\ ReplayInv

LEMMA PathInit == Init => PathInv
<1> SUFFICES ASSUME Init PROVE PathInv OBVIOUS
<1>1. RunInv BY DEF Init, RunInv, Places
<1>2. stored \in Seq({}) BY EmptySeq DEF Init
<1>3. CorpusInv BY <1>2 DEF Init, CorpusInv, Learning
<1>4. DOMAIN cassette = {} BY EmptySeq DEF Init
<1>5. CassetteInv BY <1>4 DEF CassetteInv, Init
<1>6. mode \in {"off", "record"} BY SettingsAssumption DEF Init
<1>7. RecordInv
  <2> SUFFICES ASSUME NEW i \in Investigations
               PROVE  \E s : \E n \in Nat : Path(i, s, n) /\ s[n] = Local(i)
    BY DEF RecordInv
  <2> DEFINE s == [k \in {0} |-> Start]
  <2>1. s[0] = Start OBVIOUS
  <2>2. Local(i) = Start BY DEF Init, Local, Start, Stage, Learning
  <2> HIDE DEF s
  <2>3. Path(i, s, 0) BY <2>1 DEF Path
  <2> QED BY <2>1, <2>2, <2>3
<1>8. ReplayInv BY <1>6 DEF ReplayInv
<1> QED BY <1>1, <1>3, <1>5, <1>6, <1>7, <1>8 DEF PathInv

-----------------------------------------------------------------------------
(* The steps of a run.                                                     *)

Calling(i) == Plan(i) \/ Work(i) \/ Report(i) \/ Verify(i)
Learns(i) == Look(i) \/ AppendRecord(i) \/ Truncate(i) \/ WriteText(i) \/ WriteFails(i)

LEMMA CallingIs ==
  ASSUME RunInv, NEW i \in Investigations, Calling(i)
  PROVE  /\ RunInv' /\ UNCHANGED <<settings, mode, recorded, corpus>>
         /\ \A j \in Investigations \ {i} :
              /\ pc'[j] = pc[j] /\ report'[j] = report[j]
              /\ gathered'[j] = gathered[j] /\ attempts'[j] = attempts[j]
         /\ pc[i] \notin Learning /\ pc'[i] \notin Learning
         /\ UNCHANGED <<cassette, heard>> \/ \E prompt, answer : Put(i, prompt, answer)
<1> USE DEF Calling
<1>1. UNCHANGED <<settings, mode, recorded, corpus>>
  BY DEF Plan, Work, Report, Verify
<1>2. /\ pc[i] \in {"plan", "work", "report", "verify"}
      /\ \E place \in {"work", "report", "verify", "learn", "failed"} : pc' = [pc EXCEPT ![i] = place]
  BY DEF Plan, Work, Report, Verify, Goto
<1>3. /\ UNCHANGED report \/ \E r : report' = [report EXCEPT ![i] = r]
      /\ UNCHANGED gathered \/ \E found : gathered' = [gathered EXCEPT ![i] = found]
  BY DEF Plan, Work, Report, Verify
<1>4. UNCHANGED attempts \/ attempts' = [attempts EXCEPT ![i] = @ + 1]
  BY DEF Plan, Work, Report, Verify
<1>5. \A j \in Investigations \ {i} :
        /\ pc'[j] = pc[j] /\ report'[j] = report[j]
        /\ gathered'[j] = gathered[j] /\ attempts'[j] = attempts[j]
  BY <1>2, <1>3, <1>4 DEF RunInv
<1>6. pc[i] \notin Learning /\ pc'[i] \notin Learning
  BY <1>2 DEF RunInv, Learning
<1>7. RunInv'
  <2>1. pc' \in [Investigations -> Places] BY <1>2 DEF RunInv, Places, Ended
  <2>2. attempts' \in [Investigations -> Nat] BY <1>4 DEF RunInv
  <2>3. /\ report' = [j \in Investigations |-> report'[j]]
        /\ gathered' = [j \in Investigations |-> gathered'[j]]
    BY <1>3 DEF RunInv
  <2> QED BY <2>1, <2>2, <2>3 DEF RunInv
<1>8. UNCHANGED <<cassette, heard>> \/ \E prompt, answer : Put(i, prompt, answer)
  BY DEF Plan, Work, Report, Verify
<1> QED BY <1>1, <1>5, <1>6, <1>7, <1>8

LEMMA CorpusStep == RunInv /\ CorpusInv /\ [Next]_vars => CorpusInv'
<1> SUFFICES ASSUME RunInv, CorpusInv, [Next]_vars PROVE CorpusInv' OBVIOUS
<1> USE DEF Learning
<1>1. ASSUME NEW i \in Investigations, Calling(i) PROVE CorpusInv'
  <2>1. /\ UNCHANGED <<settings, file, stored>>
        /\ \A j \in Investigations : pc'[j] \in Learning => pc[j] \in Learning
    BY <1>1, CallingIs DEF corpus
  <2> QED BY <2>1 DEF CorpusInv
<1>2. ASSUME NEW i \in Investigations,
             Look(i) \/ AppendRecord(i) \/ Truncate(i) \/ WriteFails(i)
      PROVE  CorpusInv'
  <2>1. /\ UNCHANGED <<settings, stored>> /\ file' \in {file, Torn}
        /\ \A j \in Investigations : pc'[j] \in Learning => pc[j] \in Learning \/ settings.learn
    BY <1>2 DEF Look, AppendRecord, Truncate, WriteFails, Goto, world, Worthy, RunInv
  <2> QED BY <2>1 DEF CorpusInv
<1>3. ASSUME NEW i \in Investigations, WriteText(i) PROVE CorpusInv'
  <2>1. PICK R : stored \in Seq(R) BY DEF CorpusInv
  <2> DEFINE rec == pending[i][Len(pending[i])]
  <2>2. stored' = Append(stored, rec) /\ pc[i] = "write" /\ UNCHANGED settings
        /\ \A j \in Investigations : pc'[j] \in Learning => pc[j] \in Learning
    BY <1>3 DEF WriteText, world, Goto, RunInv
  <2> HIDE DEF rec
  <2>3. stored \in Seq(R \cup {rec}) BY <2>1, SeqMonotonic
  <2>4. stored' \in Seq(R \cup {rec}) /\ stored' # <<>> BY <2>2, <2>3, AppendProperties
  <2>5. settings.learn BY <2>2 DEF CorpusInv
  <2> QED BY <2>2, <2>4, <2>5 DEF CorpusInv
<1>4. ASSUME Crash \/ Replay PROVE CorpusInv'
  <2>1. /\ UNCHANGED <<settings, file, stored>>
        /\ \A j \in Investigations : pc'[j] \notin Learning
    BY <1>4 DEF Crash, Replay, world, corpus, Ended
  <2> QED BY <2>1 DEF CorpusInv
<1>5. CASE UNCHANGED vars BY <1>5 DEF vars, run, corpus, world, CorpusInv
<1> QED BY <1>1, <1>2, <1>3, <1>4, <1>5 DEF Next, Calling

LEMMA CassetteStep == CassetteInv /\ RunInv /\ [Next]_vars => CassetteInv'
<1> SUFFICES ASSUME CassetteInv, RunInv, [Next]_vars PROVE CassetteInv' OBVIOUS
<1>1. ASSUME UNCHANGED <<cassette, heard>> PROVE CassetteInv' BY <1>1 DEF CassetteInv
<1>2. ASSUME NEW i, NEW prompt, NEW answer, Put(i, prompt, answer) PROVE CassetteInv'
  <2>1. CASE mode = "record" /\ answer # NoReply
    <3>1. /\ cassette' = [q \in DOMAIN cassette \cup {prompt} |->
                            IF q = prompt THEN answer ELSE cassette[q]]
          /\ heard' = heard \cup {<<prompt, i, answer>>}
      BY <1>2, <2>1, KeyIs DEF Put
    <3> DEFINE e == <<prompt, i, answer>>
    <3>2. e[1] = prompt /\ e[3] = answer /\ e \in heard' BY <3>1
    <3>3. \A q \in DOMAIN cassette' :
            cassette'[q] # NoReply /\ \E j : <<q, j, cassette'[q]>> \in heard'
      <4> SUFFICES ASSUME NEW q \in DOMAIN cassette'
                   PROVE  cassette'[q] # NoReply /\ \E j : <<q, j, cassette'[q]>> \in heard'
        OBVIOUS
      <4>1. CASE q = prompt
        <5>1. cassette'[q] = answer BY <3>1, <4>1
        <5> QED BY <2>1, <3>2, <4>1, <5>1
      <4>2. CASE q # prompt
        <5>1. q \in DOMAIN cassette /\ cassette'[q] = cassette[q] BY <3>1, <4>2
        <5> QED BY <3>1, <5>1 DEF CassetteInv
      <4> QED BY <4>1, <4>2
    <3> HIDE DEF e
    <3>4. \A d \in heard' : d[3] # NoReply => d[1] \in DOMAIN cassette'
      BY <3>1, <3>2 DEF CassetteInv, e
    <3> QED BY <3>3, <3>4 DEF CassetteInv
  <2>2. CASE mode = "record" /\ answer = NoReply
    <3>1. cassette' = cassette /\ heard' = heard \cup {<<prompt, i, answer>>}
      BY <1>2, <2>2, KeyIs DEF Put
    <3> DEFINE e == <<prompt, i, answer>>
    <3>2. e[3] = answer /\ heard' = heard \cup {e} BY <3>1
    <3> HIDE DEF e
    <3> QED BY <2>2, <3>1, <3>2 DEF CassetteInv
  <2>3. CASE mode # "record" BY <1>1, <1>2, <2>3 DEF Put
  <2> QED BY <2>1, <2>2, <2>3
<1>3. ASSUME NEW i \in Investigations, Calling(i) PROVE CassetteInv'
  BY <1>1, <1>2, <1>3, CallingIs
<1>4. ASSUME NEW i \in Investigations, Learns(i) PROVE CassetteInv'
  BY <1>1, <1>4 DEF Learns, Look, AppendRecord, Truncate, WriteText, WriteFails, world
<1>5. CASE Crash \/ Replay BY <1>1, <1>5 DEF Crash, Replay, world
<1>6. CASE UNCHANGED vars BY <1>1, <1>6 DEF vars, world
<1> QED BY <1>3, <1>4, <1>5, <1>6 DEF Next, Calling, Learns

\* What a run is answered when it calls, and where it goes from there.
LEMMA CallTakes ==
  ASSUME RunInv, mode \in {"record", "replay"}, ~settings.sandbox,
         NEW i \in Investigations, Calling(i), Plan(i) => Priors = {}
  PROVE  /\ Open(Local(i))
         /\ \E a :
              /\ Local(i)' = After(Local(i), a)
              /\ \/ Silent(Local(i)) /\ UNCHANGED <<cassette, heard>>
                 \/ /\ Put(i, Prompt(i, Local(i)), a)
                    /\ \E possible : a \in Answers(i, Prompt(i, Local(i)), possible)
<1> DEFINE x == Local(i)
<1>0. x = Stand(Stage(pc[i]), report[i], gathered[i], attempts[i]) BY DEF Local
<1>1. CASE Plan(i)
  <2>1. x.at = "plan" /\ pc[i] = "plan" BY <1>0, <1>1 DEF Plan, Stand, Stage, Learning
  <2>2. Prompt(i, x) = PlanPrompt(i, Priors) BY <1>1, <2>1 DEF Prompt
  <2>3. PICK a \in Answers(i, PlanPrompt(i, Priors), {"plan"}) :
           /\ Put(i, PlanPrompt(i, Priors), a)
           /\ Goto(i, IF a = NoReply THEN "failed" ELSE "work")
    BY <1>1 DEF Plan
  <2>4. /\ UNCHANGED <<report, gathered, attempts>>
        /\ pc'[i] = IF a = NoReply THEN "failed" ELSE "work"
    BY <1>1, <2>3 DEF Plan, Goto, RunInv
  <2>5. Local(i)' = After(x, a)
    BY <1>0, <2>1, <2>4 DEF Local, After, AfterPlan, Stand, Stage, Learning
  <2> QED BY <2>1, <2>2, <2>3, <2>5 DEF Open
<1>2. CASE Work(i)
  <2>1. x.at = "work" /\ pc[i] = "work" BY <1>0, <1>2 DEF Work, Stand, Stage, Learning
  <2>2. Prompt(i, x) = AgentPrompt(i, gathered[i], attempts[i])
    BY <1>0, <2>1 DEF Prompt, Stand
  <2>3. PICK a \in Answers(i, AgentPrompt(i, gathered[i], attempts[i]), Findings[i]) :
           /\ Put(i, AgentPrompt(i, gathered[i], attempts[i]), a)
           /\ gathered' = [gathered EXCEPT ![i] = Accumulated(@, a)]
           /\ Goto(i, IF a = NoReply THEN "failed" ELSE "report")
    BY <1>2 DEF Work
  <2>4. /\ UNCHANGED <<report, attempts>> /\ gathered'[i] = Accumulated(gathered[i], a)
        /\ pc'[i] = IF a = NoReply THEN "failed" ELSE "report"
    BY <1>2, <2>3 DEF Work, Goto, RunInv
  <2>5. Local(i)' = After(x, a)
    BY <1>0, <2>1, <2>4 DEF Local, After, AfterWork, Stand, Stage, Learning
  <2> QED BY <2>1, <2>2, <2>3, <2>5 DEF Open
<1>3. CASE Report(i)
  <2>1. x.at = "report" /\ pc[i] = "report" BY <1>0, <1>3 DEF Report, Stand, Stage, Learning
  <2>2. Prompt(i, x) = ReportPrompt(i, gathered[i]) BY <1>0, <2>1 DEF Prompt, Stand
  <2>3. PICK a \in Answers(i, ReportPrompt(i, gathered[i]), Replies[i]) :
           /\ Put(i, ReportPrompt(i, gathered[i]), a)
           /\ \E probed \in Probed(ParseReport(a)) :
                 \E r \in Criticised(Weighed(probed, gathered[i].observed)) :
                    report' = [report EXCEPT ![i] = Written(r)]
    BY <1>3 DEF Report
  <2>4. \A r : Probed(r) = {r} /\ Criticised(r) = {r}
    BY DEF Probed, Probes, Criticised, Prosecutes
  <2>5. report' = [report EXCEPT ![i] = Written(Weighed(ParseReport(a), gathered[i].observed))]
    BY <2>3, <2>4
  <2>6. /\ UNCHANGED <<gathered, attempts>> /\ pc'[i] = "verify"
        /\ report'[i] = Written(Weighed(ParseReport(a), gathered[i].observed))
    BY <1>3, <2>5 DEF Report, Goto, RunInv
  <2>7. Local(i)' = After(x, a)
    BY <1>0, <2>1, <2>6 DEF Local, After, AfterReporter, Stand, Stage, Learning
  <2> QED BY <2>1, <2>2, <2>3, <2>7 DEF Open
<1>4. CASE Verify(i)
  <2>0. pc[i] = "verify" BY <1>4 DEF Verify
  <2>1. x.at = "verify" BY <1>0, <2>0 DEF Stand, Stage, Learning
  <2>a. UNCHANGED gathered BY <1>4 DEF Verify
  <2>b. x.report = report[i] /\ x.gathered = gathered[i] /\ x.attempts = attempts[i]
    BY <1>0 DEF Stand
  <2>2. CASE ~settings.verify
    <3>1. UNCHANGED <<report, attempts, cassette, heard>> /\ pc'[i] = "learn"
      BY <1>4, <2>2 DEF Verify, Goto, RunInv
    <3>2. Silent(x) BY <2>1, <2>2 DEF Silent
    <3>3. Local(i)' = After(x, NoReply)
      BY <1>0, <2>1, <2>2, <2>a, <3>1, <3>2 DEF Local, After, AfterSilence, Stand, Stage, Learning
    <3> QED BY <2>1, <3>1, <3>2, <3>3 DEF Open
  <2>3. CASE settings.verify /\ ~HasFix(report[i], gathered[i])
    <3>1. /\ UNCHANGED <<attempts, cassette, heard>> /\ pc'[i] = "learn"
          /\ report'[i] = Written([report[i] EXCEPT !.verification = "no_fix_proposed"])
      BY <1>4, <2>3 DEF Verify, Goto, RunInv
    <3>2. Silent(x) BY <2>1, <2>3, <2>b DEF Silent
    <3>3. Local(i)' = After(x, NoReply)
      BY <1>0, <2>1, <2>3, <2>a, <3>1, <3>2 DEF Local, After, AfterSilence, Stand, Stage, Learning
    <3> QED BY <2>1, <3>1, <3>2, <3>3 DEF Open
  <2>4. CASE settings.verify /\ HasFix(report[i], gathered[i])
    <3>1. Proofs(i) = {"none"} BY DEF Proofs
    <3>2. PICK a \in Answers(i, VerifyPrompt(report[i], gathered[i]), VerifyVerdicts \cup {"odd"}) :
             \E proof \in Proofs(i) :
               LET verdict == Reconcile(NormalizeVerification(a, TRUE), gathered[i].onTarget, proof)
               IN  /\ Put(i, VerifyPrompt(report[i], gathered[i]), a)
                   /\ report' = [report EXCEPT ![i] =
                                   Written([@ EXCEPT !.verification = verdict, !.sandbox = proof])]
                   /\ IF CanRetry(i, verdict)
                      THEN attempts' = [attempts EXCEPT ![i] = @ + 1] /\ Goto(i, "work")
                      ELSE Goto(i, "learn") /\ UNCHANGED attempts
      BY <1>4, <2>4 DEF Verify
    <3> DEFINE verdict == Reconcile(NormalizeVerification(a, TRUE), gathered[i].onTarget, "none")
    <3>3. /\ Put(i, VerifyPrompt(report[i], gathered[i]), a)
          /\ report' = [report EXCEPT ![i] =
                          Written([@ EXCEPT !.verification = verdict, !.sandbox = "none"])]
          /\ IF CanRetry(i, verdict)
             THEN attempts' = [attempts EXCEPT ![i] = @ + 1] /\ Goto(i, "work")
             ELSE Goto(i, "learn") /\ UNCHANGED attempts
      BY <3>1, <3>2
    <3>4. verdict = Verdict(x, a) BY <2>b DEF Verdict
    <3> HIDE DEF verdict
    <3>5. CanRetry(i, verdict) <=> Retries(x, a) BY <2>b, <3>4 DEF CanRetry, Retries
    <3>6. /\ report'[i] = Written([report[i] EXCEPT !.verification = Verdict(x, a), !.sandbox = "none"])
          /\ Retries(x, a) => attempts'[i] = attempts[i] + 1 /\ pc'[i] = "work"
          /\ ~Retries(x, a) => attempts'[i] = attempts[i] /\ pc'[i] = "learn"
      BY <3>3, <3>4, <3>5 DEF Goto, RunInv
    <3>7. ~Silent(x) BY <2>4, <2>b DEF Silent
    <3>8. Local(i)' = After(x, a)
      <4>1. After(x, a) = AfterVerdict(x, a) BY <2>1, <3>7 DEF After
      <4>2. CASE Retries(x, a)
        BY <2>a, <2>b, <3>6, <4>1, <4>2 DEF Local, AfterVerdict, Stand, Stage, Learning
      <4>3. CASE ~Retries(x, a)
        BY <2>a, <2>b, <3>6, <4>1, <4>3 DEF Local, AfterVerdict, Stand, Stage, Learning
      <4> QED BY <4>2, <4>3
    <3>9. Prompt(i, x) = VerifyPrompt(report[i], gathered[i]) BY <2>1, <2>b DEF Prompt
    <3> QED BY <2>1, <3>2, <3>3, <3>8, <3>9 DEF Open
  <2> QED BY <2>2, <2>3, <2>4
<1> QED BY <1>1, <1>2, <1>3, <1>4 DEF Calling

\* While the corpus is empty no plan starts from it.
LEMMA NoPriors == CorpusInv /\ ~Exempt => Priors = {}
BY DEF CorpusInv, Exempt, Priors, ReadJson, Holding, Torn

LEMMA MovesStay ==
  ASSUME UNCHANGED settings, heard \subseteq heard', NEW i, NEW x, NEW y, Moves(i, x, y)
  PROVE  Moves(i, x, y)'
<1>1. PICK a : (Silent(x) \/ <<Prompt(i, x), i, a>> \in heard) /\ y = After(x, a) BY DEF Moves
<1>2. (Silent(x))' <=> Silent(x) BY DEF Silent
<1>3. (Prompt(i, x))' = Prompt(i, x)
  BY DEF Prompt, PlanPrompt, AgentPrompt, ReportPrompt, VerifyPrompt
<1>4. (After(x, a))' = After(x, a)
  <2>1. (AfterVerdict(x, a))' = AfterVerdict(x, a) BY DEF AfterVerdict, Retries, Verdict
  <2>2. (AfterSilence(x))' = AfterSilence(x) BY DEF AfterSilence
  <2> QED BY <1>2, <2>1, <2>2 DEF After
<1>5. Open(x) BY DEF Moves
<1> QED BY <1>1, <1>2, <1>3, <1>4, <1>5 DEF Moves

LEMMA PathStays ==
  ASSUME UNCHANGED settings, heard \subseteq heard', NEW i, NEW s, NEW n, Path(i, s, n)
  PROVE  Path(i, s, n)'
BY MovesStay DEF Path

LEMMA HeardGrows == \A i, prompt, answer : Put(i, prompt, answer) => heard \subseteq heard'
BY DEF Put

\* One more step.
LEMMA PathGrows ==
  ASSUME NEW i, NEW s, NEW n \in Nat, Path(i, s, n)', NEW y, Moves(i, s[n], y)'
  PROVE  \E t : Path(i, t, n + 1)' /\ t[n + 1] = y
<1> DEFINE t == [k \in 0 .. n + 1 |-> IF k = n + 1 THEN y ELSE s[k]]
<1>1. /\ t[n + 1] = y /\ t[0] = s[0] /\ \A k \in 0 .. n : t[k] = s[k] OBVIOUS
<1> HIDE DEF t
<1>2. ASSUME NEW k \in 0 .. n PROVE Moves(i, t[k], t[k + 1])'
  <2>1. CASE k = n BY <1>1, <2>1
  <2>2. CASE k # n
    <3>1. k \in 0 .. n - 1 /\ k + 1 \in 0 .. n BY <2>2
    <3>2. t[k] = s[k] /\ t[k + 1] = s[k + 1] BY <1>1, <3>1
    <3> QED BY <3>1, <3>2 DEF Path
  <2> QED BY <2>1, <2>2
<1>3. 0 .. (n + 1) - 1 = 0 .. n OBVIOUS
<1> QED BY <1>1, <1>2, <1>3 DEF Path

LEMMA RecordStep ==
  ASSUME PathInv, NEW i \in Investigations, Calling(i) PROVE RecordInv'
<1>0. RunInv /\ CorpusInv /\ RecordInv BY DEF PathInv
<1>1. /\ UNCHANGED <<settings, mode, stored>>
      /\ \A j \in Investigations \ {i} :
           /\ pc'[j] = pc[j] /\ report'[j] = report[j]
           /\ gathered'[j] = gathered[j] /\ attempts'[j] = attempts[j]
      /\ UNCHANGED <<cassette, heard>> \/ \E prompt, answer : Put(i, prompt, answer)
  BY <1>0, CallingIs DEF corpus
<1>2. heard \subseteq heard' BY <1>1, HeardGrows
<1> SUFFICES ASSUME mode = "record", ~settings.sandbox, ~Exempt, NEW j \in Investigations
             PROVE  \E s : \E n \in Nat : Path(j, s, n)' /\ s[n] = Local(j)'
  BY <1>1 DEF RecordInv, Exempt
<1>3. PICK s : \E n \in Nat : Path(j, s, n) /\ s[n] = Local(j) BY <1>0 DEF RecordInv
<1>4. PICK n \in Nat : Path(j, s, n) /\ s[n] = Local(j) BY <1>3
<1>5. Path(j, s, n)' BY <1>1, <1>2, <1>4, PathStays
<1>6. CASE j # i
  <2>1. Local(j)' = Local(j) BY <1>1, <1>6 DEF Local
  <2> QED BY <1>4, <1>5, <2>1
<1>7. CASE j = i
  <2> DEFINE x == Local(i)
  <2>b. PICK y : y = Local(i)' OBVIOUS
  <2>1. Open(x) /\ \E a : /\ y = After(x, a)
                          /\ \/ Silent(x) /\ UNCHANGED <<cassette, heard>>
                             \/ Put(i, Prompt(i, x), a)
    BY <1>0, <2>b, CallTakes, NoPriors
  <2>2. PICK a : /\ y = After(x, a)
                 /\ \/ Silent(x) /\ UNCHANGED <<cassette, heard>>
                    \/ Put(i, Prompt(i, x), a)
    BY <2>1
  <2>3. Silent(x) \/ <<Prompt(i, x), i, a>> \in heard' BY <2>2 DEF Put
  <2>a. s[n] = x BY <1>4, <1>7
  <2> HIDE DEF x
  <2>4. (Silent(s[n]))' <=> Silent(s[n]) BY <1>1 DEF Silent
  <2>5. (Prompt(i, s[n]))' = Prompt(i, s[n])
    BY <1>1 DEF Prompt, PlanPrompt, AgentPrompt, ReportPrompt, VerifyPrompt
  <2>6. (After(s[n], a))' = After(s[n], a)
    BY <1>1, <2>4 DEF After, AfterVerdict, Retries, Verdict, AfterSilence
  <2>7. Moves(i, s[n], y)'
    <3>1. y = (After(s[n], a))' BY <2>2, <2>6, <2>a
    <3> QED BY <2>1, <2>3, <2>4, <2>5, <2>a, <3>1 DEF Moves
  <2>8. Path(i, s, n)' BY <1>5, <1>7
  <2>9. PICK t : Path(i, t, n + 1)' /\ t[n + 1] = y BY <2>7, <2>8, PathGrows
  <2> QED BY <1>7, <2>9, <2>b
<1> QED BY <1>6, <1>7

\* An answer that was never given otherwise is what the cassette recalls.
LEMMA RecalledIs ==
  ASSUME CassetteInv, NEW i, ~Clashed(i), NEW q, NEW a, <<q, i, a>> \in heard
  PROVE  Recalled(q) = a
<1> DEFINE e == <<q, i, a>>
<1>1. e \in heard /\ e[1] = q /\ e[2] = i /\ e[3] = a OBVIOUS
<1> HIDE DEF e
<1>2. CASE q \in DOMAIN cassette
  <2>1. PICK j : <<q, j, cassette[q]>> \in heard BY <1>2 DEF CassetteInv
  <2> DEFINE f == <<q, j, cassette[q]>>
  <2>2. f \in heard /\ f[1] = q /\ f[3] = cassette[q] BY <2>1
  <2> HIDE DEF f
  <2>3. a = cassette[q] BY <1>1, <2>2 DEF Clashed
  <2> QED BY <1>2, <2>3 DEF Recalled
<1>3. CASE q \notin DOMAIN cassette
  <2>1. a = NoReply BY <1>1, <1>3 DEF CassetteInv
  <2> QED BY <1>3, <2>1 DEF Recalled
<1> QED BY <1>2, <1>3

\* A run is replayed along the path it was recorded on.
LEMMA ReplayStep ==
  ASSUME PathInv, NEW i \in Investigations, Calling(i) PROVE ReplayInv'
<1>0. RunInv /\ CorpusInv /\ CassetteInv /\ ReplayInv BY DEF PathInv
<1>1. /\ UNCHANGED <<settings, mode, stored, recorded>>
      /\ \A j \in Investigations \ {i} :
           /\ pc'[j] = pc[j] /\ report'[j] = report[j]
           /\ gathered'[j] = gathered[j] /\ attempts'[j] = attempts[j]
      /\ UNCHANGED <<cassette, heard>> \/ \E prompt, answer : Put(i, prompt, answer)
  BY <1>0, CallingIs DEF corpus
<1>2. mode = "replay" => UNCHANGED <<cassette, heard>> BY <1>1 DEF Put
<1> SUFFICES ASSUME mode = "replay", ~settings.sandbox, ~Exempt,
                    NEW j \in Investigations, ~Clashed(j)
             PROVE  \E s : \E m \in Nat : \E n \in 0 .. m :
                      Path(j, s, m)' /\ Records(j, s[m])' /\ s[n] = Local(j)'
  BY <1>1, <1>2 DEF ReplayInv, Exempt, Clashed
<1>3. PICK s : \E m \in Nat : \E n \in 0 .. m :
         Path(j, s, m) /\ Records(j, s[m]) /\ s[n] = Local(j)
  BY <1>0 DEF ReplayInv
<1>4. PICK m \in Nat : \E n \in 0 .. m : Path(j, s, m) /\ Records(j, s[m]) /\ s[n] = Local(j)
  BY <1>3
<1>5. PICK n \in 0 .. m : Path(j, s, m) /\ Records(j, s[m]) /\ s[n] = Local(j) BY <1>4
<1>6. Path(j, s, m)' BY <1>1, <1>2, <1>5, PathStays
<1>7. Records(j, s[m])' BY <1>1, <1>5 DEF Records
<1>8. CASE j # i
  <2>1. Local(j)' = Local(j) BY <1>1, <1>8 DEF Local
  <2> QED BY <1>5, <1>6, <1>7, <2>1
<1>9. CASE j = i
  <2> DEFINE x == Local(i)
  <2>1. Open(x) /\ \E a : /\ Local(i)' = After(x, a)
                          /\ \/ Silent(x)
                             \/ \E possible : a \in Answers(i, Prompt(i, x), possible)
    BY <1>0, CallTakes, NoPriors
  <2>2. PICK a : /\ Local(i)' = After(x, a)
                 /\ \/ Silent(x)
                    \/ \E possible : a \in Answers(i, Prompt(i, x), possible)
    BY <2>1
  <2>3. s[n] = x BY <1>5, <1>9
  <2> HIDE DEF x
  <2>4. n < m
    <3>1. ~Open(s[m]) BY <1>5 DEF Records, Open
    <3> QED BY <1>5, <2>1, <2>3, <3>1
  <2>5. n \in 0 .. m - 1 /\ n + 1 \in 0 .. m BY <2>4
  <2>6. Moves(i, s[n], s[n + 1]) BY <1>5, <1>9, <2>5 DEF Path
  <2>7. PICK b : (Silent(x) \/ <<Prompt(i, x), i, b>> \in heard) /\ s[n + 1] = After(x, b)
    BY <2>3, <2>6 DEF Moves
  <2>8. After(x, a) = After(x, b)
    <3>1. CASE Silent(x) BY <3>1 DEF After, Silent
    <3>2. CASE ~Silent(x)
      <4>1. a = Recalled(Prompt(i, x)) BY <2>2, <3>2, KeyIs DEF Answers, Recalled
      <4>2. b = Recalled(Prompt(i, x)) BY <1>0, <1>9, <2>7, <3>2, RecalledIs
      <4> QED BY <4>1, <4>2
    <3> QED BY <3>1, <3>2
  <2>9. s[n + 1] = Local(j)' BY <1>9, <2>2, <2>7, <2>8
  <2> QED BY <1>6, <1>7, <2>5, <2>9
<1> QED BY <1>8, <1>9

\* What comes after the verdict changes nothing of the path.
LEMMA LearningStep ==
  ASSUME PathInv, NEW i \in Investigations, Learns(i)
  PROVE  RunInv' /\ RecordInv' /\ ReplayInv' /\ UNCHANGED mode
<1> DEFINE Late == {"learn", "done"} \cup Learning
<1>0. RunInv BY DEF PathInv
<1>1. /\ UNCHANGED <<report, gathered, attempts, settings, mode, recorded, heard>>
      /\ pc[i] \in Late
      /\ \E place \in Late : pc' = [pc EXCEPT ![i] = place]
  BY DEF Learns, Look, AppendRecord, Truncate, WriteText, WriteFails, Goto, world, Learning
<1>2. RunInv' BY <1>0, <1>1 DEF RunInv, Places, Learning, Ended
<1>3. \A j \in Investigations : Local(j)' = Local(j)
  <2>1. \A j \in Investigations : pc'[j] = pc[j] \/ (pc[j] \in Late /\ pc'[j] \in Late)
    BY <1>0, <1>1 DEF RunInv
  <2>2. \A j \in Investigations : Stage(pc'[j]) = Stage(pc[j]) BY <2>1 DEF Stage
  <2> QED BY <1>1, <2>2 DEF Local
<1>4. Exempt => Exempt'
  <2>1. stored # <<>> => stored' # <<>>
    <3>1. CASE WriteText(i)
      <4>1. PICK R : stored \in Seq(R) BY DEF PathInv, CorpusInv
      <4> DEFINE rec == pending[i][Len(pending[i])]
      <4>2. stored' = Append(stored, rec) BY <3>1 DEF WriteText
      <4> HIDE DEF rec
      <4>3. stored \in Seq(R \cup {rec}) BY <4>1, SeqMonotonic
      <4> QED BY <4>2, <4>3, AppendProperties
    <3>2. CASE ~WriteText(i) BY <3>2 DEF Learns, Look, AppendRecord, Truncate, WriteFails
    <3> QED BY <3>1, <3>2
  <2> QED BY <1>1, <2>1 DEF Exempt
<1>5. \A j, s, n : Path(j, s, n) => Path(j, s, n)' BY <1>1, PathStays
<1>6. \A j, x : Records(j, x) => Records(j, x)' BY <1>1 DEF Records
<1>7. \A j : Clashed(j)' <=> Clashed(j) BY <1>1 DEF Clashed
<1>8. RecordInv'
  <2> SUFFICES ASSUME mode = "record", ~settings.sandbox, ~Exempt, NEW j \in Investigations
               PROVE  \E s : \E n \in Nat : Path(j, s, n)' /\ s[n] = Local(j)'
    BY <1>1, <1>4 DEF RecordInv
  <2>1. \E s : \E n \in Nat : Path(j, s, n) /\ s[n] = Local(j) BY DEF PathInv, RecordInv
  <2> QED BY <1>3, <1>5, <2>1
<1>9. ReplayInv'
  <2> SUFFICES ASSUME mode = "replay", ~settings.sandbox, ~Exempt,
                      NEW j \in Investigations, ~Clashed(j)
               PROVE  \E s : \E m \in Nat : \E n \in 0 .. m :
                        Path(j, s, m)' /\ Records(j, s[m])' /\ s[n] = Local(j)'
    BY <1>1, <1>4, <1>7 DEF ReplayInv
  <2>1. \E s : \E m \in Nat : \E n \in 0 .. m :
           Path(j, s, m) /\ Records(j, s[m]) /\ s[n] = Local(j)
    BY DEF PathInv, ReplayInv
  <2> QED BY <1>3, <1>5, <1>6, <2>1
<1> QED BY <1>1, <1>2, <1>8, <1>9

\* The recorded batch is a path that ends; the replay is at its beginning.
LEMMA ReplayBegins ==
  ASSUME PathInv, Replay
  PROVE  RunInv' /\ RecordInv' /\ ReplayInv' /\ mode' = "replay"
<1>1. /\ mode = "record" /\ mode' = "replay" /\ UNCHANGED <<settings, stored, heard>>
      /\ pc' = [i \in Investigations |-> "plan"]
      /\ report' = [i \in Investigations |-> NoReport]
      /\ gathered' = [i \in Investigations |-> NoReply]
      /\ attempts' = [i \in Investigations |-> 0]
      /\ recorded' = [i \in Investigations |-> [pc |-> pc[i], report |-> report[i]]]
      /\ \A i \in Investigations : pc[i] \in {"done", "failed"}
  BY DEF Replay, Ended, corpus
<1>2. RunInv' BY <1>1 DEF RunInv, Places
<1>3. RecordInv' BY <1>1 DEF RecordInv
<1>4. ReplayInv'
  <2> SUFFICES ASSUME ~settings.sandbox, ~Exempt, NEW i \in Investigations
               PROVE  \E s : \E m \in Nat : \E n \in 0 .. m :
                        Path(i, s, m)' /\ Records(i, s[m])' /\ s[n] = Local(i)'
    BY <1>1 DEF ReplayInv, Exempt
  <2>1. PICK s : \E n \in Nat : Path(i, s, n) /\ s[n] = Local(i)
    BY <1>1 DEF PathInv, RecordInv
  <2>2. PICK m \in Nat : Path(i, s, m) /\ s[m] = Local(i) BY <2>1
  <2>3. Path(i, s, m)' BY <1>1, <2>2, PathStays
  <2>4. s[0] = Local(i)'
    <3>1. s[0] = Start BY <2>2 DEF Path
    <3>2. Local(i)' = Start BY <1>1 DEF Local, Start, Stage, Learning
    <3> QED BY <3>1, <3>2
  <2>5. Records(i, s[m])'
    <3>1. recorded'[i] = [pc |-> pc[i], report |-> report[i]] BY <1>1
    <3>2. Local(i).at = Stage(pc[i]) /\ Local(i).report = report[i] BY DEF Local, Stand
    <3>3. CASE pc[i] = "done"
      <4>1. Stage(pc[i]) = "learned" BY <3>3 DEF Stage
      <4> QED BY <2>2, <3>1, <3>2, <3>3, <4>1 DEF Records
    <3>4. CASE pc[i] = "failed"
      <4>1. Stage(pc[i]) = "failed" BY <3>4 DEF Stage, Learning
      <4> QED BY <2>2, <3>1, <3>2, <3>4, <4>1 DEF Records
    <3> QED BY <1>1, <3>3, <3>4
  <2>6. 0 \in 0 .. m OBVIOUS
  <2> QED BY <2>3, <2>4, <2>5, <2>6
<1> QED BY <1>1, <1>2, <1>3, <1>4

LEMMA PathStep == PathInv /\ [Next]_vars => PathInv'
<1> SUFFICES ASSUME PathInv, [Next]_vars PROVE PathInv' OBVIOUS
<1>0. RunInv /\ CorpusInv /\ CassetteInv /\ mode \in {"off", "record", "replay"} BY DEF PathInv
<1>1. CorpusInv' /\ CassetteInv' BY <1>0, CorpusStep, CassetteStep
<1>2. ASSUME NEW i \in Investigations, Calling(i) PROVE PathInv'
  <2>1. RunInv' /\ UNCHANGED mode BY <1>0, <1>2, CallingIs
  <2> QED BY <1>0, <1>1, <1>2, <2>1, RecordStep, ReplayStep DEF PathInv
<1>3. ASSUME NEW i \in Investigations, Learns(i) PROVE PathInv'
  BY <1>0, <1>1, <1>3, LearningStep DEF PathInv
<1>4. ASSUME Crash PROVE PathInv'
  <2>1. mode = "off" /\ UNCHANGED mode BY <1>4 DEF Crash, world
  <2>2. RunInv' BY <1>0, <1>4 DEF Crash, RunInv, Places, Ended
  <2>3. RecordInv' /\ ReplayInv' BY <2>1 DEF RecordInv, ReplayInv
  <2> QED BY <1>0, <1>1, <2>1, <2>2, <2>3 DEF PathInv
<1>5. ASSUME Replay PROVE PathInv' BY <1>1, <1>5, ReplayBegins DEF PathInv
<1>6. CASE UNCHANGED vars
  <2>1. /\ UNCHANGED <<pc, report, gathered, attempts, stored, settings, mode, recorded, heard>>
        /\ UNCHANGED cassette
    BY <1>6 DEF vars, run, corpus, world
  <2>2. RunInv' BY <1>0, <2>1 DEF RunInv
  <2>3. \A j, s, n : Path(j, s, n) => Path(j, s, n)' BY <2>1, PathStays
  <2>4. \A j : Local(j)' = Local(j) /\ (Clashed(j)' <=> Clashed(j)) BY <2>1 DEF Local, Clashed
  <2>5. \A j, x : Records(j, x) => Records(j, x)' BY <2>1 DEF Records
  <2>6. Exempt' <=> Exempt BY <2>1 DEF Exempt
  <2>7. RecordInv' BY <2>1, <2>3, <2>4, <2>6 DEF PathInv, RecordInv
  <2>8. ReplayInv'
    <3> SUFFICES ASSUME mode = "replay", ~settings.sandbox, ~Exempt,
                        NEW j \in Investigations, ~Clashed(j)
                 PROVE  \E s : \E m \in Nat : \E n \in 0 .. m :
                          Path(j, s, m)' /\ Records(j, s[m])' /\ s[n] = Local(j)'
      BY <2>1, <2>4, <2>6 DEF ReplayInv
    <3>1. \E s : \E m \in Nat : \E n \in 0 .. m :
             Path(j, s, m) /\ Records(j, s[m]) /\ s[n] = Local(j)
      BY DEF PathInv, ReplayInv
    <3> QED BY <2>3, <2>4, <2>5, <3>1
  <2> QED BY <1>0, <1>1, <2>1, <2>2, <2>7, <2>8 DEF PathInv
<1> QED BY <1>2, <1>3, <1>4, <1>5, <1>6 DEF Next, Calling, Learns

\* A replay that ends has come to the end of its path.
LEMMA PathEnds == PathInv => ReplayReproduces
<1> SUFFICES ASSUME PathInv, mode = "replay", ~settings.sandbox,
                    NEW i \in Investigations, pc[i] \in {"done", "failed"},
                    ~Clashed(i), ~Exempt
             PROVE  recorded[i] = [pc |-> pc[i], report |-> report[i]]
  BY DEF ReplayReproduces, Ended, Exempt
<1>1. PICK s : \E m \in Nat : \E n \in 0 .. m :
         Path(i, s, m) /\ Records(i, s[m]) /\ s[n] = Local(i)
  BY DEF PathInv, ReplayInv
<1>2. PICK m \in Nat : \E n \in 0 .. m : Path(i, s, m) /\ Records(i, s[m]) /\ s[n] = Local(i)
  BY <1>1
<1>3. PICK n \in 0 .. m : Path(i, s, m) /\ Records(i, s[m]) /\ s[n] = Local(i) BY <1>2
<1>4. Local(i).at = Stage(pc[i]) /\ Local(i).report = report[i] BY DEF Local, Stand
<1>5. /\ pc[i] = "done" => Stage(pc[i]) = "learned"
      /\ pc[i] = "failed" => Stage(pc[i]) = "failed"
  BY DEF Stage, Learning
<1>6. n = m
  <2>1. ~Open(s[n]) BY <1>3, <1>4, <1>5 DEF Open
  <2>2. n < m => Open(s[n]) BY <1>3 DEF Path, Moves
  <2> QED BY <1>3, <2>1, <2>2
<1>7. Records(i, Local(i)) BY <1>3, <1>6
<1> QED BY <1>4, <1>5, <1>7 DEF Records

(* A run of a batch that is replayed from its cassette ends as it was      *)
(* recorded, with the same report, however many passes and failed calls it *)
(* had, unless one of its prompts was answered in two ways, the corpus     *)
(* grew or a reproducer was run (replay.py:53-160, nodes.py:101-118).      *)
THEOREM ReplaysReproduce == Spec => []ReplayReproduces
BY PathInit, PathStep, PathEnds, PTL DEF Spec
=============================================================================
