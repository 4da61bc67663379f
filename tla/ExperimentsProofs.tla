--------------------------- MODULE ExperimentsProofs ---------------------------
(***************************************************************************)
(* Proofs about Experiments, for prompt and tool experiments, any number   *)
(* of them, any verdicts of the t-test, any minimum of samples and every   *)
(* bound.                                                                  *)
(***************************************************************************)
EXTENDS Experiments, InformerCacheProofs, FiniteSetTheorems, TLAPS

(***************************************************************************)
(* Types.                                                                  *)
(***************************************************************************)

\* The versions of the objects, and the newest and oldest of them.
LEMMA ObjectFacts ==
    ASSUME TypeOK
    PROVE  /\ ad \in Seq(Agents) /\ Len(ad) > 0
           /\ Stored(ad) \in Agents /\ Cached(ad) \in Agents
           /\ ex \in Families(Experiments, Variants)
           /\ \A e \in Experiments :
                /\ ex[e] \in Seq(Variants) /\ Len(ex[e]) > 0
                /\ Stored(ex[e]) \in Variants /\ Cached(ex[e]) \in Variants
<1>1. ad \in Seq(Agents) /\ Len(ad) > 0
  BY DEF TypeOK
<1>2. Stored(ad) \in Agents /\ Cached(ad) \in Agents
  BY <1>1, EndFacts
<1>3. ex \in Families(Experiments, Variants)
  BY DEF TypeOK, Families
<1>4. ASSUME NEW e \in Experiments
      PROVE  /\ ex[e] \in Seq(Variants) /\ Len(ex[e]) > 0
             /\ Stored(ex[e]) \in Variants /\ Cached(ex[e]) \in Variants
  BY <1>3, FamilyFacts DEF Families
<1> QED
  BY <1>1, <1>2, <1>3, <1>4

\* The empty objects, and the copies as a step changes them.
LEMMA CopyFacts ==
    ASSUME TypeOK
    PROVE  /\ NewAgent \in Agents /\ NewVariant \in Variants
           /\ \A n \in Experiments \cup {None}, a \in Agents : [a EXCEPT !.name = n] \in Agents
           /\ \A h \in SUBSET (1..MaxScores) : [me EXCEPT !.history = h] \in Agents
           /\ \A e \in Variants : [e EXCEPT !.phase = "deleted"] \in Variants
<1>1. NewAgent \in Agents /\ NewVariant \in Variants
  BY DEF NewAgent, NewVariant, Agents, Variants, Phases, Existing
<1>2. \A n \in Experiments \cup {None}, a \in Agents : [a EXCEPT !.name = n] \in Agents
  BY DEF Agents
<1>3. \A h \in SUBSET (1..MaxScores) : [me EXCEPT !.history = h] \in Agents
  <2>1. me \in Agents
    BY DEF TypeOK
  <2> QED
    BY <2>1 DEF Agents
<1>4. \A e \in Variants : [e EXCEPT !.phase = "deleted"] \in Variants
  BY DEF Variants, Phases
<1> QED
  BY <1>1, <1>2, <1>3, <1>4

\* What is about to be written when an experiment starts.
LEMMA BegunFacts ==
    ASSUME TypeOK, NEW e \in Variants
    PROVE  /\ Begun(e) \in Variants
           /\ Begun(e).phase = "Testing" /\ Begun(e).started = judged
<1>1. judged \in Int
  BY SamplesAssumption DEF TypeOK
<1> QED
  BY <1>1 DEF Begun, Variants, Phases, Existing

\* The history a reconcile goes on with holds scores the judge has sent.
LEMMA HistoryFacts ==
    ASSUME TypeOK, ReconcileEvalHistory
    PROVE  \/ UNCHANGED me
           \/ \E h \in SUBSET (1..MaxScores) :
                /\ me' = [me EXCEPT !.history = h]
                /\ h \subseteq me.history \cup 1..judged
<1>1. ASSUME NEW batch \in Batches, NEW kept \in Rings(me.history \cup batch)
      PROVE  kept \in SUBSET (1..MaxScores) /\ kept \subseteq me.history \cup 1..judged
  <2>1. batch \subseteq Unread
    <3>. HIDE DEF Unread
    <3> QED
      BY DEF Batches
  <2>2. kept \subseteq me.history \cup batch
    BY DEF Rings
  <2>3. me.history \in SUBSET (1..MaxScores) /\ 1..judged \subseteq 1..MaxScores
    BY SamplesAssumption DEF TypeOK, Agents
  <2> QED
    BY <2>1, <2>2, <2>3 DEF Unread
<1>2. CASE UNCHANGED me
  BY <1>2
<1>3. CASE \E batch \in Batches : \E kept \in Rings(me.history \cup batch) :
             me' = [me EXCEPT !.history = kept]
  <2>1. PICK batch \in Batches :
          \E kept \in Rings(me.history \cup batch) : me' = [me EXCEPT !.history = kept]
    BY <1>3
  <2>2. PICK kept \in Rings(me.history \cup batch) : me' = [me EXCEPT !.history = kept]
    BY <2>1
  <2>3. kept \in SUBSET (1..MaxScores) /\ kept \subseteq me.history \cup 1..judged
    BY <1>1
  <2> QED
    BY <2>2, <2>3
<1> QED
  BY <1>2, <1>3 DEF ReconcileEvalHistory

\* No more scores of a history are from before and from after a start than the judge
\* sent before and after it.
LEMMA ScoreCounts ==
    ASSUME TypeOK, NEW e \in Variants
    PROVE  /\ VariantScores(e) \in Nat /\ ControlScores(e) \in Nat
           /\ ControlScores(e) >= MinControl => e.started >= MinControl
           /\ me.history \subseteq 1..judged /\ VariantScores(e) >= MinSamples
                => judged - e.started >= MinSamples
<1>. DEFINE after == {k \in me.history : k > e.started}
            before == {k \in me.history : k <= e.started}
<1>1. /\ me.history \in SUBSET (1..MaxScores) /\ e.started \in Int
      /\ MinSamples \in Nat \ {0} /\ MaxScores \in Nat /\ judged \in Nat
  BY SamplesAssumption DEF TypeOK, Agents, Variants
<1>2. VariantScores(e) = Cardinality(after) /\ ControlScores(e) = Cardinality(before)
  BY DEF VariantScores, ControlScores
<1>3. after \in SUBSET (1..MaxScores) /\ before \in SUBSET (1..MaxScores)
  BY <1>1
<1>4. before \in SUBSET (1..e.started)
  BY <1>1
<1>5. me.history \subseteq 1..judged => after \in SUBSET ((e.started + 1)..judged)
  BY <1>1
<1>. HIDE DEF after, before
<1>6. Cardinality(after) \in Nat /\ Cardinality(before) \in Nat
  <2>1. IsFiniteSet(1..MaxScores)
    BY <1>1, FS_Interval
  <2>2. IsFiniteSet(after) /\ IsFiniteSet(before)
    BY <1>3, <2>1, FS_Subset
  <2> QED
    BY <2>2, FS_CardinalityType
<1>7. Cardinality(before) >= MinControl => e.started >= MinControl
  <2>1. /\ IsFiniteSet(1..e.started)
        /\ Cardinality(1..e.started) = IF 1 > e.started THEN 0 ELSE e.started - 1 + 1
    BY <1>1, FS_Interval
  <2>2. Cardinality(before) <= Cardinality(1..e.started)
    BY <1>4, <2>1, FS_Subset
  <2> QED
    BY <1>1, <1>6, <2>1, <2>2 DEF MinControl
<1>8. ASSUME me.history \subseteq 1..judged, Cardinality(after) >= MinSamples
      PROVE  judged - e.started >= MinSamples
  <2>1. /\ IsFiniteSet((e.started + 1)..judged)
        /\ Cardinality((e.started + 1)..judged)
             = IF e.started + 1 > judged THEN 0 ELSE judged - (e.started + 1) + 1
    BY <1>1, FS_Interval
  <2>2. Cardinality(after) <= Cardinality((e.started + 1)..judged)
    BY <1>5, <1>8, <2>1, FS_Subset
  <2> QED
    BY <1>1, <1>6, <1>8, <2>1, <2>2
<1> QED
  BY <1>2, <1>6, <1>7, <1>8

\* What is about to be written when an experiment is evaluated: a decision rests on
\* enough scores on both sides.
LEMMA EvaluateFacts ==
    ASSUME TypeOK, NEW e \in Variants
    PROVE  /\ Evaluate(e) \in Variants
           /\ Evaluate(e).started = e.started
           /\ \/ Evaluate(e).phase = e.phase
              \/ /\ Evaluate(e).phase \in Decided
                 /\ e.started >= MinControl
                 /\ me.history \subseteq 1..judged => judged - e.started >= MinSamples
<1>. DEFINE progress == [e EXCEPT !.scores = VariantScores(e)]
<1>1. VariantScores(e) \in Nat /\ ControlScores(e) \in Nat /\ MinSamples \in Nat
  BY ScoreCounts, SamplesAssumption
<1>2. /\ progress \in Variants
      /\ progress.phase = e.phase /\ progress.started = e.started
  BY <1>1 DEF Variants
<1>3. CASE VariantScores(e) < MinSamples \/ ControlScores(e) < MinControl
  <2>1. Evaluate(e) = progress
    BY <1>3 DEF Evaluate
  <2> QED
    BY <1>2, <2>1
<1>4. CASE ~(VariantScores(e) < MinSamples \/ ControlScores(e) < MinControl)
  <2>1. VariantScores(e) >= MinSamples /\ ControlScores(e) >= MinControl
    BY <1>1, <1>4 DEF MinControl
  <2>2. PICK d \in Decided : Evaluate(e) = [progress EXCEPT !.phase = d]
    BY <1>4 DEF Evaluate, Decided
  <2>. HIDE DEF progress
  <2>3. /\ Evaluate(e) \in Variants /\ Evaluate(e).phase = d
        /\ Evaluate(e).started = e.started
    BY <1>2, <2>2 DEF Variants, Phases, Existing
  <2> QED
    BY <2>1, <2>3, ScoreCounts
<1> QED
  BY <1>3, <1>4

\* The ring keeps a sequence of its entries, and drops the same ones whether the older
\* ones were dropped before or not.
LEMMA RingFacts ==
    ASSUME NEW S, NEW r \in Seq(S), NEW x \in S, NEW n \in Nat \ {0}
    PROVE  /\ LastOf(r, n) \in Seq(S)
           /\ LastOf(Append(LastOf(r, n), x), n) = LastOf(Append(r, x), n)
<1>. DEFINE t == LastOf(r, n)
            m == IF Len(r) > n THEN Len(r) - n ELSE 0
<1>1. /\ m \in Nat /\ m <= Len(r) /\ Len(r) \in Nat
      /\ t = SubSeq(r, m + 1, Len(r))
  BY DEF LastOf
<1>. HIDE DEF t, m
<1>2. /\ t \in Seq(S) /\ Len(t) = Len(r) - m
      /\ \A i \in 1..Len(t) : t[i] = r[m + i]
  <2>1. SubSeq(r, m + 1, Len(r)) \in Seq(S)
    BY <1>1, SubSeqProperties
  <2>2. /\ Len(t) = Len(r) - m
        /\ \A i \in 1..Len(t) : t[i] = r[m + i]
    BY <1>1
  <2> QED
    BY <1>1, <2>1, <2>2
<1>. DEFINE u == Append(t, x)
            v == Append(r, x)
<1>3. /\ u \in Seq(S) /\ Len(u) = Len(t) + 1 /\ u[Len(t) + 1] = x
      /\ \A i \in 1..Len(t) : u[i] = t[i]
  BY <1>2
<1>4. /\ v \in Seq(S) /\ Len(v) = Len(r) + 1 /\ v[Len(r) + 1] = x
      /\ \A i \in 1..Len(r) : v[i] = r[i]
  OBVIOUS
<1>. HIDE DEF u, v
<1>5. \A i \in 1..Len(u) : u[i] = v[m + i]
  <2> SUFFICES ASSUME NEW i \in 1..Len(u) PROVE u[i] = v[m + i]
    OBVIOUS
  <2>1. CASE i \in 1..Len(t)
    <3>1. m + i \in 1..Len(r)
      BY <1>1, <1>2, <2>1
    <3> QED
      BY <1>2, <1>3, <1>4, <2>1, <3>1
  <2>2. CASE i = Len(t) + 1
    <3>1. m + i = Len(r) + 1
      BY <1>1, <1>2, <2>2
    <3> QED
      BY <1>3, <1>4, <2>2, <3>1
  <2> QED
    BY <1>2, <1>3, <2>1, <2>2
<1>. DEFINE a == IF Len(u) > n THEN Len(u) - n + 1 ELSE 1
            b == IF Len(v) > n THEN Len(v) - n + 1 ELSE 1
<1>6. a \in 1..Len(u) /\ b = a + m /\ Len(v) = Len(u) + m /\ Len(u) \in Nat
  <2>1. Len(u) = Len(r) - m + 1 /\ Len(v) = Len(r) + 1
    BY <1>2, <1>3, <1>4
  <2>2. CASE Len(r) > n
    <3>1. m = Len(r) - n
      BY <2>2 DEF m
    <3>2. Len(u) = n + 1 /\ Len(u) > n /\ Len(v) > n
      BY <1>1, <2>1, <2>2, <3>1
    <3>3. a = Len(u) - n + 1 /\ b = Len(v) - n + 1
      BY <3>2
    <3>. HIDE DEF a, b
    <3> QED
      BY <1>1, <2>1, <2>2, <3>1, <3>2, <3>3
  <2>3. CASE ~(Len(r) > n)
    <3>1. m = 0
      BY <2>3 DEF m
    <3>2. Len(u) = Len(v)
      BY <1>1, <2>1, <3>1
    <3>3. a = b /\ a \in 1..Len(u)
      BY <1>1, <2>1, <3>1, <3>2
    <3>. HIDE DEF a, b
    <3> QED
      BY <1>1, <2>1, <3>1, <3>2, <3>3
  <2> QED
    BY <2>2, <2>3
<1>. HIDE DEF a, b
<1>7. SubSeq(u, a, Len(u)) = SubSeq(v, b, Len(v))
  <2>1. /\ SubSeq(u, a, Len(u)) \in Seq(S) /\ Len(SubSeq(u, a, Len(u))) = Len(u) - a + 1
        /\ \A i \in 1..(Len(u) - a + 1) : SubSeq(u, a, Len(u))[i] = u[a + i - 1]
    BY <1>3, <1>6, SubSeqProperties
  <2>2. /\ SubSeq(v, b, Len(v)) \in Seq(S) /\ Len(SubSeq(v, b, Len(v))) = Len(v) - b + 1
        /\ \A i \in 1..(Len(v) - b + 1) : SubSeq(v, b, Len(v))[i] = v[b + i - 1]
    <3>1. b \in 1..Len(v)
      BY <1>1, <1>6
    <3> QED
      BY <1>4, <3>1, SubSeqProperties
  <2>3. Len(u) - a + 1 = Len(v) - b + 1
    BY <1>1, <1>6
  <2>4. ASSUME NEW i \in 1..(Len(u) - a + 1)
        PROVE  SubSeq(u, a, Len(u))[i] = SubSeq(v, b, Len(v))[i]
    <3>1. a + i - 1 \in 1..Len(u) /\ m + (a + i - 1) = b + i - 1
      BY <1>1, <1>6
    <3>2. u[a + i - 1] = v[b + i - 1]
      BY <1>5, <3>1
    <3> QED
      BY <2>1, <2>2, <2>3, <3>2
  <2> QED
    BY <2>1, <2>2, <2>3, <2>4, SeqEqual
<1>8. LastOf(u, n) = SubSeq(u, a, Len(u)) /\ LastOf(v, n) = SubSeq(v, b, Len(v))
  BY DEF LastOf, a, b
<1> QED
  BY <1>2, <1>7, <1>8 DEF t, u, v

\* The AgentDeployment with one more outcome.
LEMMA WithOutcomeFacts ==
    ASSUME NEW a \in Agents, NEW e \in Experiments, NEW p \in Decided
    PROVE  /\ WithOutcome(a, e, p) \in Agents
           /\ WithOutcome(a, e, p).lineage = LastOf(Append(a.lineage, <<e, p>>), MaxLineage)
           /\ WithOutcome(a, e, p).ever = Append(a.ever, <<e, p>>)
           /\ WithOutcome(a, e, p).opt = IF p = "Promoted" THEN a.opt + 1 ELSE a.opt
           /\ WithOutcome(a, e, p).history = a.history
           /\ WithOutcome(a, e, p).name = a.name
<1>. DEFINE l == LastOf(Append(a.lineage, <<e, p>>), MaxLineage)
            v == Append(a.ever, <<e, p>>)
            o == IF p = "Promoted" THEN a.opt + 1 ELSE a.opt
            new == [a EXCEPT !.lineage = l, !.ever = v, !.opt = o]
<1>1. l \in Seq(Experiments \X Decided)
  <2>1. /\ Append(a.lineage, <<e, p>>) \in Seq(Experiments \X Decided)
        /\ <<e, p>> \in Experiments \X Decided
    BY DEF Agents
  <2>2. MaxLineage \in Nat \ {0}
    BY SizesAssumption
  <2> QED
    BY <2>1, <2>2, RingFacts
<1>2. v \in Seq(Experiments \X Decided) /\ o \in Nat
  BY DEF Agents
<1>3. WithOutcome(a, e, p) = new
  BY DEF WithOutcome, Agents
<1>. HIDE DEF l, v, o
<1>4. new \in Agents
  BY <1>1, <1>2 DEF Agents
<1>5. /\ new.lineage = l /\ new.ever = v /\ new.opt = o
      /\ new.history = a.history /\ new.name = a.name
  BY DEF Agents
<1>. HIDE DEF new
<1> QED
  BY <1>3, <1>4, <1>5 DEF l, v, o

\* A fault uses up its bound.
LEMMA FaultType == TypeOK /\ Fault => faults' \in 0..MaxFaults
  BY BoundsAssumption DEF TypeOK, Fault

\* Every step keeps the types.
LEMMA TypeStep == ASSUME TypeOK, Next PROVE TypeOK'
<1>. USE ObjectFacts, CopyFacts DEF Name
<1>1. ASSUME Fetch PROVE TypeOK'
  BY <1>1 DEF TypeOK, Fetch, cluster, Steps, InSync
<1>2. ASSUME ReconcileEvalHistory PROVE TypeOK'
  <2>1. me' \in Agents
    BY <1>2, HistoryFacts DEF TypeOK
  <2> QED
    BY <1>2, <2>1, FaultType DEF TypeOK, ReconcileEvalHistory, cluster, Steps
<1>3. ASSUME NothingToTest PROVE TypeOK'
  BY <1>3 DEF TypeOK, NothingToTest, EndHandler, cluster, Steps
<1>4. ASSUME ReconcilePromptExperiment PROVE TypeOK'
  <2>1. Name \in Experiments
    BY <1>4 DEF ReconcilePromptExperiment, TypeOK, Agents, Name
  <2>2. /\ got' \in Variants /\ pc' \in Steps
    BY <1>4, <2>1, EvaluateFacts DEF ReconcilePromptExperiment, Steps
  <2> QED
    BY <1>4, <2>2 DEF TypeOK, ReconcilePromptExperiment, cluster, InSync
<1>5. ASSUME ReconcileToolExperiment PROVE TypeOK'
  <2>1. Name \in Experiments
    BY <1>5 DEF ReconcileToolExperiment, TypeOK, Agents, Name
  <2>2. /\ got' \in Variants /\ pc' \in Steps
    BY <1>5, <2>1, EvaluateFacts, BegunFacts DEF ReconcileToolExperiment, Steps
  <2> QED
    BY <1>5, <2>2 DEF TypeOK, ReconcileToolExperiment, cluster, InSync
<1>6. ASSUME CreateVariantConfigMap PROVE TypeOK'
  <2>1. Begun(got) \in Variants /\ Name \in Experiments \cup {None}
    BY BegunFacts DEF TypeOK, Agents, Name
  <2> QED
    BY <1>6, <2>1, FaultType DEF TypeOK, CreateVariantConfigMap, EndHandler, Steps
<1>7. ASSUME InstallPrompt PROVE TypeOK'
  <2>1. Name \in Experiments \cup {None}
    BY DEF TypeOK, Agents, Name
  <2> QED
    BY <1>7, <2>1, FaultType DEF TypeOK, InstallPrompt, EndHandler, Steps
<1>8. ASSUME WriteVariant PROVE TypeOK'
  <2>1. got \in Variants
    BY DEF TypeOK
  <2>2. ex' \in Families(Experiments, Variants)
    <3>1. CASE Name \in Experiments
      <4>1. [ex EXCEPT ![Name] = Append(@, got)] \in Families(Experiments, Variants)
        BY <2>1, <3>1, FamilyFacts
      <4> QED
        BY <1>8, <4>1 DEF WriteVariant
    <3>2. CASE Name \notin Experiments
      BY <1>8, <3>2 DEF WriteVariant, Families
    <3> QED
      BY <3>1, <3>2
  <2>3. outcome' \in [Experiments -> Decided \cup {"none"}]
    BY <1>8 DEF WriteVariant, TypeOK
  <2>4. faults' \in 0..MaxFaults
    BY <1>8, FaultType DEF WriteVariant, TypeOK
  <2>5. me' \in Agents
    <3>1. me \in Agents /\ Name \in Experiments
      BY <1>8 DEF WriteVariant, TypeOK, Agents, Name
    <3>2. got.phase \in Decided => WithOutcome(me, Name, got.phase) \in Agents
      BY <3>1, WithOutcomeFacts
    <3> QED
      BY <1>8, <3>1, <3>2 DEF WriteVariant
  <2> QED
    BY <1>8, <2>2, <2>3, <2>4, <2>5 DEF TypeOK, WriteVariant, EndHandler, cluster, Steps, Families
<1>9. ASSUME UpdateStatus PROVE TypeOK'
  <2>1. me \in Agents
    BY DEF TypeOK
  <2>2. Append(ad, me) \in Seq(Agents) /\ Len(Append(ad, me)) = Len(ad) + 1
    BY <2>1, AppendFacts
  <2>3. ad' \in Seq(Agents) /\ Len(ad') > 0
    BY <1>9, <2>2 DEF UpdateStatus
  <2> QED
    BY <1>9, <2>3, FaultType DEF TypeOK, UpdateStatus, Return, cluster, Steps
<1>10. ASSUME Restart PROVE TypeOK'
  <2>1. <<Stored(ad)>> \in Seq(Agents) /\ Len(<<Stored(ad)>>) > 0
    BY SingleFacts
  <2>2. ex' \in Families(Experiments, Variants)
    <3>1. ASSUME NEW e \in Experiments
          PROVE  <<Stored(ex[e])>> \in Seq(Variants) /\ Len(<<Stored(ex[e])>>) > 0
      BY SingleFacts
    <3> QED
      BY <1>10, <3>1 DEF Restart, Families
  <2> QED
    BY <1>10, <2>1, <2>2, FaultType DEF TypeOK, Restart, Return, cluster, Steps, Families
<1>11. ASSUME DeliverAgent PROVE TypeOK'
  <2>1. Tail(ad) \in Seq(Agents) /\ Len(Tail(ad)) > 0
    BY <1>11, TailFacts DEF DeliverAgent
  <2> QED
    BY <1>11, <2>1 DEF TypeOK, DeliverAgent, cluster, copies
<1>12. ASSUME NEW e \in Experiments, DeliverExperiment(e) PROVE TypeOK'
  <2>1. ex' \in Families(Experiments, Variants)
    BY <1>12, FamilyFacts DEF DeliverExperiment
  <2> QED
    BY <1>12, <2>1 DEF TypeOK, DeliverExperiment, cluster, copies, Families
<1>13. ASSUME Judge PROVE TypeOK'
  BY <1>13, SamplesAssumption DEF TypeOK, Judge, copies
<1>14. ASSUME NEW e \in Experiments \cup {None}, SelectExperiment(e) PROVE TypeOK'
  <2>1. /\ Append(ad, [Stored(ad) EXCEPT !.name = e]) \in Seq(Agents)
        /\ Len(Append(ad, [Stored(ad) EXCEPT !.name = e])) = Len(ad) + 1
    BY AppendFacts
  <2>2. edits' \in 0..MaxEdits
    BY <1>14, BoundsAssumption DEF TypeOK, SelectExperiment
  <2>3. ad' \in Seq(Agents) /\ Len(ad') > 0
    BY <1>14, <2>1 DEF SelectExperiment
  <2> QED
    BY <1>14, <2>2, <2>3 DEF TypeOK, SelectExperiment, cluster
<1>15. ASSUME NEW e \in Experiments, DeleteExperiment(e) PROVE TypeOK'
  <2>. DEFINE gone == [Stored(ex[e]) EXCEPT !.phase = "deleted"]
  <2>1. ex' = [ex EXCEPT ![e] = Append(@, gone)]
    BY <1>15 DEF DeleteExperiment
  <2>2. gone \in Variants
    OBVIOUS
  <2>3. ex' \in Families(Experiments, Variants)
    <3>. HIDE DEF gone
    <3> QED
      BY <2>1, <2>2, FamilyFacts
  <2>4. edits' \in 0..MaxEdits
    BY <1>15, BoundsAssumption DEF TypeOK, DeleteExperiment
  <2>5. gotCurrent' \in BOOLEAN
    BY <1>15 DEF TypeOK, DeleteExperiment
  <2> QED
    BY <1>15, <2>3, <2>4, <2>5 DEF TypeOK, DeleteExperiment, cluster, Families
<1> QED
  BY <1>1, <1>2, <1>3, <1>4, <1>5, <1>6, <1>7, <1>8, <1>9, <1>10, <1>11, <1>12, <1>13,
     <1>14, <1>15 DEF Next, Controller

\* The variables keep their types, for any experiments and verdicts.
THEOREM TypeInvariant == Spec => []TypeOK
<1>1. Init => TypeOK
  <2> SUFFICES ASSUME Init PROVE TypeOK
    OBVIOUS
  <2>1. NewVariant \in Variants
    BY DEF NewVariant, Variants, Phases, Existing
  <2>2. NewAgent \in Agents
    BY DEF NewAgent, Agents
  <2>3. PICK n \in Experiments \cup {None} : ad = <<[NewAgent EXCEPT !.name = n]>>
    BY DEF Init
  <2>4. [NewAgent EXCEPT !.name = n] \in Agents
    BY <2>2 DEF Agents
  <2>5. ad \in Seq(Agents) /\ Len(ad) > 0
    BY <2>3, <2>4, SingleFacts
  <2>6. <<NewVariant>> \in Seq(Variants) /\ Len(<<NewVariant>>) > 0
    BY <2>1, SingleFacts
  <2>7. ex \in [Experiments -> Seq(Variants)] /\ \A e \in Experiments : Len(ex[e]) > 0
    BY <2>6 DEF Init
  <2>8. judged \in 0..MaxScores /\ edits \in 0..MaxEdits /\ faults \in 0..MaxFaults
    BY SamplesAssumption, BoundsAssumption DEF Init
  <2>9. /\ me \in Agents /\ got \in Variants /\ pc = "idle"
        /\ current \in BOOLEAN /\ gotCurrent \in BOOLEAN
    BY <2>1, <2>2 DEF Init
  <2>10. outcome \in [Experiments -> Decided \cup {"none"}]
    BY DEF Init
  <2>11. kind \in {"prompt", "tool"}
    BY DEF Init
  <2> QED
    BY <2>5, <2>7, <2>8, <2>9, <2>10, <2>11 DEF Init, TypeOK, Steps
<1>2. TypeOK /\ UNCHANGED vars => TypeOK'
  BY DEF TypeOK, vars, cluster, copies, Name
<1> QED
  BY <1>1, <1>2, TypeStep, PTL DEF Spec

(***************************************************************************)
(* What caches, copies and the store can be behind on.                     *)
(***************************************************************************)

\* An experiment that has not begun has no start; one that is not over has no outcome.
StoredPhases ==
    \A e \in Experiments :
      /\ Stored(ex[e]).phase = "Pending" => Stored(ex[e]).started = -1
      /\ Stored(ex[e]).phase \in {"Pending", "Testing"} => outcome[e] = "none"

\* The histories hold scores the judge has sent.
HistoryBehind ==
    /\ me.history \subseteq 1..judged
    /\ \A v \in Range(ad) : v.history \subseteq 1..judged

\* What the handler is about to write over s, if the write is accepted: a beginning,
\* progress or a decision.
Begins(s) == s.phase = "Pending" /\ got.phase = "Testing" /\ got.started \in 0..judged
Progresses(s) == s.phase = "Testing" /\ got.phase = "Testing" /\ got.started = s.started
Decides(s) ==
    /\ s.phase = "Testing" /\ got.phase \in Decided /\ got.started = s.started
    /\ got.started >= MinControl /\ judged - got.started >= MinSamples

\* A copy nobody has overtaken was made from the version that is stored.
CopyKnows ==
    gotCurrent =>
      /\ pc = "configmap" => Stored(ex[Name]).phase = "Pending"
      /\ pc \in {"install", "write"} =>
           \/ Begins(Stored(ex[Name])) \/ Progresses(Stored(ex[Name]))
           \/ Decides(Stored(ex[Name]))

\* Every lineage, however old, is faithful, and a current copy has all that is on record.
LineagesKnown ==
    /\ \A v \in Range(ad) : Faithful(v, outcome)
    /\ Faithful(me, outcome)
    /\ current => Entries(Stored(ad)) \subseteq Entries(me)

\* A prompt about to be marked Promoted is installed.
Installed ==
    kind = "prompt" /\ pc = "write" /\ got.phase = "Promoted" => mainCM = Name

Inductive ==
    /\ StoredPhases /\ HistoryBehind /\ CopyKnows /\ LineagesKnown /\ Installed

(***************************************************************************)
(* Lineages.                                                               *)
(***************************************************************************)

Outcomes == [Experiments -> Decided \cup {"none"}]

\* An agent that has recorded nothing is faithful to any outcomes.
LEMMA EmptyLineage == \A o \in Outcomes : Faithful(NewAgent, o)
<1>1. /\ NewAgent.lineage = <<>> /\ NewAgent.ever = <<>> /\ NewAgent.opt = 0
      /\ 1..Len(<<>>) = {}
  BY DEF NewAgent
<1>2. Promotions(<<>>) = {}
  BY DEF Promotions
<1>3. LastOf(<<>>, MaxLineage) = <<>>
  BY SizesAssumption DEF LastOf
<1> QED
  BY <1>1, <1>2, <1>3, FS_EmptySet DEF Faithful

\* Being faithful is about the record and the generation only, and what is on record
\* is the outcome of an experiment that has one.
LEMMA FaithfulFacts ==
    ASSUME NEW a \in Agents, NEW o \in Outcomes, Faithful(a, o)
    PROVE  /\ \A b \in Agents : b.lineage = a.lineage /\ b.ever = a.ever /\ b.opt = a.opt =>
                Faithful(b, o) /\ Entries(b) = Entries(a)
           /\ \A x \in Entries(a) : \E e \in Experiments : o[e] # "none" /\ x = <<e, o[e]>>
<1>1. \A b \in Agents : b.lineage = a.lineage /\ b.ever = a.ever /\ b.opt = a.opt =>
                Faithful(b, o) /\ Entries(b) = Entries(a)
  BY DEF Faithful, Entries
<1>2. ASSUME NEW x \in Entries(a)
      PROVE  \E e \in Experiments : o[e] # "none" /\ x = <<e, o[e]>>
  <2>1. PICK i \in 1..Len(a.ever) : x = a.ever[i]
    BY <1>2 DEF Entries
  <2>2. x \in Experiments \X Decided
    BY <2>1 DEF Agents
  <2>3. x[1] \in Experiments /\ x[2] \in Decided /\ x = <<x[1], x[2]>>
    BY <2>2
  <2>4. x[2] = o[x[1]]
    BY <2>1 DEF Faithful
  <2> QED
    BY <2>3, <2>4 DEF Decided
<1> QED
  BY <1>1, <1>2

\* Recording an outcome that was just decided, and leaving it to be recorded.
LEMMA OutcomeFaithful ==
    ASSUME NEW a \in Agents, NEW o \in Outcomes, Faithful(a, o),
           NEW e \in Experiments, NEW p \in Decided, o[e] = "none"
    PROVE  /\ Faithful(a, [o EXCEPT ![e] = p])
           /\ Faithful(WithOutcome(a, e, p), [o EXCEPT ![e] = p])
           /\ Entries(a) \subseteq Entries(WithOutcome(a, e, p))
<1>. DEFINE l == a.ever
            m == Append(l, <<e, p>>)
            n == Len(l)
            q == [o EXCEPT ![e] = p]
<1>1. l \in Seq(Experiments \X Decided) /\ n \in Nat
  BY DEF Agents
<1>2. /\ Len(m) = n + 1 /\ m[n + 1] = <<e, p>>
      /\ \A i \in 1..n : m[i] = l[i]
  BY <1>1
<1>0. /\ a.lineage = LastOf(l, MaxLineage)
      /\ WithOutcome(a, e, p).lineage = LastOf(m, MaxLineage)
  <2>1. a.lineage = LastOf(l, MaxLineage)
    BY DEF Faithful
  <2>2. <<e, p>> \in Experiments \X Decided /\ MaxLineage \in Nat \ {0}
    BY SizesAssumption
  <2>3. LastOf(Append(LastOf(l, MaxLineage), <<e, p>>), MaxLineage) = LastOf(m, MaxLineage)
    <3>. DEFINE S == Experiments \X Decided
                x == <<e, p>>
    <3>1. l \in Seq(S) /\ x \in S /\ MaxLineage \in Nat \ {0}
      BY <1>1, <2>2
    <3>. HIDE DEF S, x, l
    <3>2. LastOf(Append(LastOf(l, MaxLineage), x), MaxLineage)
            = LastOf(Append(l, x), MaxLineage)
      BY <3>1, RingFacts
    <3> QED
      BY <3>2 DEF x
  <2>4. WithOutcome(a, e, p).lineage = LastOf(Append(a.lineage, <<e, p>>), MaxLineage)
    BY WithOutcomeFacts
  <2>. HIDE DEF l, m
  <2> QED
    BY <2>1, <2>3, <2>4
<1>3. /\ WithOutcome(a, e, p).ever = m
      /\ WithOutcome(a, e, p).opt = IF p = "Promoted" THEN a.opt + 1 ELSE a.opt
  BY WithOutcomeFacts
<1>4. ASSUME NEW i \in 1..n
      PROVE  l[i][1] \in Experiments /\ l[i][1] # e /\ l[i][2] = q[l[i][1]]
  <2>1. l[i][2] = o[l[i][1]]
    BY DEF Faithful
  <2>2. l[i][1] \in Experiments /\ l[i][2] \in Decided
    <3>1. l[i] \in Experiments \X Decided
      BY <1>1
    <3> QED
      BY <3>1
  <2> QED
    BY <2>1, <2>2 DEF Decided, Outcomes
<1>5. /\ \A i, j \in 1..n : l[i][1] = l[j][1] => i = j
      /\ a.opt = Cardinality(Promotions(l))
  BY DEF Faithful
<1>6. Faithful(a, q)
  <2>. HIDE DEF q
  <2> QED
    BY <1>0, <1>4, <1>5 DEF Faithful
<1>7. IsFiniteSet(Promotions(l))
  <2>1. IsFiniteSet(1..n)
    BY <1>1, FS_Interval
  <2>2. Promotions(l) \in SUBSET (1..n)
    BY DEF Promotions
  <2> QED
    BY <2>1, <2>2, FS_Subset
<1>8. WithOutcome(a, e, p).opt = Cardinality(Promotions(m))
  <2>. HIDE DEF l, m, n
  <2>1. 1..Len(m) = 1..n \cup {n + 1}
    BY <1>1, <1>2
  <2>2. CASE p = "Promoted"
    <3>1. Promotions(m) = Promotions(l) \cup {n + 1}
      BY <1>2, <2>1, <2>2 DEF Promotions, n
    <3>2. n + 1 \notin Promotions(l)
      BY <1>1 DEF Promotions, n
    <3>3. Cardinality(Promotions(m)) = Cardinality(Promotions(l)) + 1
      BY <1>7, <3>1, <3>2, FS_AddElement
    <3> QED
      BY <1>3, <1>5, <2>2, <3>3
  <2>3. CASE p # "Promoted"
    <3>1. Promotions(m) = Promotions(l)
      BY <1>2, <2>1, <2>3 DEF Promotions, n
    <3> QED
      BY <1>3, <1>5, <2>3, <3>1
  <2> QED
    BY <2>2, <2>3
<1>9. Faithful(WithOutcome(a, e, p), q)
  <2>1. q[e] = p
    BY DEF Outcomes
  <2>2. \A i \in 1..Len(m) : m[i][2] = q[m[i][1]]
    <3>. HIDE DEF l, m, n, q
    <3> QED
      BY <1>1, <1>2, <1>4, <2>1
  <2>3. \A i, j \in 1..Len(m) : m[i][1] = m[j][1] => i = j
    <3>. HIDE DEF l, m, n, q
    <3>1. ASSUME NEW i \in 1..Len(m), NEW j \in 1..Len(m), m[i][1] = m[j][1]
          PROVE  i = j
      <4>1. (i \in 1..n \/ i = n + 1) /\ (j \in 1..n \/ j = n + 1)
        BY <1>1, <1>2
      <4>2. \A k \in 1..n : m[k] = l[k] /\ m[k][1] # m[n + 1][1]
        BY <1>2, <1>4
      <4> QED
        BY <1>5, <3>1, <4>1, <4>2
    <3> QED
      BY <3>1
  <2>. HIDE DEF l, m, n, q
  <2> QED
    BY <1>0, <1>3, <1>8, <2>2, <2>3 DEF Faithful
<1>10. Entries(a) \subseteq Entries(WithOutcome(a, e, p))
  <2>1. ASSUME NEW x \in Entries(a) PROVE x \in Entries(WithOutcome(a, e, p))
    <3>1. PICK i \in 1..n : x = l[i]
      BY DEF Entries
    <3>2. i \in 1..Len(m) /\ m[i] = x
      BY <1>1, <1>2, <3>1
    <3> QED
      BY <1>3, <3>2 DEF Entries
  <2> QED
    BY <2>1
<1> QED
  BY <1>6, <1>9, <1>10

(***************************************************************************)
(* The inductive invariant.                                                *)
(***************************************************************************)

\* The write of an experiment's status, if it is accepted, goes on from the version
\* that is stored.
LEMMA WriteFacts ==
    ASSUME TypeOK, Inductive, pc = "write", gotCurrent
    PROVE  /\ Name \in Experiments /\ got \in Variants
           /\ \/ Begins(Stored(ex[Name])) \/ Progresses(Stored(ex[Name]))
              \/ Decides(Stored(ex[Name]))
           /\ outcome[Name] = "none"
<1>1. Name \in Experiments /\ got \in Variants
  BY DEF TypeOK, Name, Agents
<1>2. \/ Begins(Stored(ex[Name])) \/ Progresses(Stored(ex[Name]))
      \/ Decides(Stored(ex[Name]))
  BY DEF Inductive, CopyKnows
<1> QED
  BY <1>1, <1>2 DEF Inductive, StoredPhases, Begins, Progresses, Decides

\* What WriteVariant does to the experiments and the outcomes.
LEMMA WriteChange ==
    ASSUME TypeOK, Inductive, WriteVariant
    PROVE  \/ UNCHANGED <<ex, outcome, me>>
           \/ /\ gotCurrent
              /\ \A e \in Experiments \ {Name} : ex'[e] = ex[e]
              /\ Stored(ex'[Name]) = got
              /\ IF got.phase \in Decided
                   THEN /\ me' = WithOutcome(me, Name, got.phase)
                        /\ outcome' = [outcome EXCEPT ![Name] = got.phase]
                   ELSE UNCHANGED <<me, outcome>>
<1>1. CASE gotCurrent
  <2>1. Name \in Experiments /\ got \in Variants /\ ex \in [Experiments -> Seq(Variants)]
    BY <1>1, WriteFacts DEF WriteVariant, TypeOK
  <2>2. Stored(Append(ex[Name], got)) = got
    BY <2>1, ObjectFacts, AppendFacts
  <2>3. CASE ex' = IF got = Stored(ex[Name]) THEN ex
                     ELSE [ex EXCEPT ![Name] = Append(@, got)]
    <3>1. Stored(ex'[Name]) = got /\ \A e \in Experiments \ {Name} : ex'[e] = ex[e]
      BY <2>1, <2>2, <2>3
    <3> QED
      BY <1>1, <3>1 DEF WriteVariant
  <2> QED
    BY <2>3 DEF WriteVariant
<1>2. CASE ~gotCurrent
  BY <1>2 DEF WriteVariant
<1> QED
  BY <1>1, <1>2

\* An experiment's phases and its outcome change together.
LEMMA StoredPhasesStep == ASSUME TypeOK, Inductive, Next PROVE StoredPhases'
<1>0. StoredPhases
  BY DEF Inductive
<1>1. ASSUME \A e \in Experiments : Stored(ex'[e]) = Stored(ex[e]), UNCHANGED outcome
      PROVE  StoredPhases'
  BY <1>0, <1>1 DEF StoredPhases
<1>2. ASSUME UNCHANGED <<ex, outcome>> PROVE StoredPhases'
  BY <1>1, <1>2
<1>3. ASSUME WriteVariant PROVE StoredPhases'
  <2>1. CASE UNCHANGED <<ex, outcome, me>>
    BY <1>2, <2>1
  <2>2. CASE ~UNCHANGED <<ex, outcome, me>>
    <3>1. /\ \A e \in Experiments \ {Name} : ex'[e] = ex[e]
          /\ Stored(ex'[Name]) = got /\ got.phase \in {"Testing"} \cup Decided
          /\ outcome' = IF got.phase \in Decided
                          THEN [outcome EXCEPT ![Name] = got.phase] ELSE outcome
          /\ outcome[Name] = "none"
      BY <1>3, <2>2, WriteChange, WriteFacts DEF Begins, Progresses, Decides, WriteVariant
    <3>2. ASSUME NEW e \in Experiments
          PROVE  /\ Stored(ex'[e]).phase = "Pending" => Stored(ex'[e]).started = -1
                 /\ Stored(ex'[e]).phase \in {"Pending", "Testing"} => outcome'[e] = "none"
      BY <1>0, <3>1 DEF StoredPhases, Decided, TypeOK
    <3> QED
      BY <3>2 DEF StoredPhases
  <2> QED
    BY <2>1, <2>2
<1>4. ASSUME Restart PROVE StoredPhases'
  <2>1. \A e \in Experiments : ex'[e] = <<Stored(ex[e])>>
    BY <1>4 DEF Restart
  <2>2. \A e \in Experiments : Stored(ex'[e]) = Stored(ex[e])
    BY <2>1, ObjectFacts, SingleFacts
  <2> QED
    BY <1>1, <1>4, <2>2 DEF Restart
<1>5. ASSUME NEW d \in Experiments, DeliverExperiment(d) PROVE StoredPhases'
  <2>1. \A e \in Experiments : ex'[e] = IF e = d THEN Tail(ex[d]) ELSE ex[e]
    BY <1>5 DEF DeliverExperiment, TypeOK
  <2>2. Stored(Tail(ex[d])) = Stored(ex[d])
    BY <1>5, ObjectFacts, TailFacts DEF DeliverExperiment
  <2> QED
    BY <1>1, <1>5, <2>1, <2>2 DEF DeliverExperiment
<1>6. ASSUME NEW d \in Experiments, DeleteExperiment(d) PROVE StoredPhases'
  <2>. DEFINE gone == [Stored(ex[d]) EXCEPT !.phase = "deleted"]
  <2>1. \A e \in Experiments : ex'[e] = IF e = d THEN Append(ex[d], gone) ELSE ex[e]
    BY <1>6 DEF DeleteExperiment, TypeOK
  <2>2. gone \in Variants /\ gone.phase = "deleted"
    BY ObjectFacts, CopyFacts DEF Variants
  <2>. HIDE DEF gone
  <2>3. Stored(Append(ex[d], gone)) = gone
    BY <2>2, ObjectFacts, AppendFacts
  <2>4. \A e \in Experiments : Stored(ex'[e]) = IF e = d THEN gone ELSE Stored(ex[e])
    BY <2>1, <2>3
  <2> QED
    BY <1>0, <1>6, <2>2, <2>4 DEF StoredPhases, DeleteExperiment
<1> QED
  BY <1>2, <1>3, <1>4, <1>5, <1>6
     DEF Next, Controller, Fetch, ReconcileEvalHistory, NothingToTest,
         ReconcilePromptExperiment, ReconcileToolExperiment, CreateVariantConfigMap,
         InstallPrompt, UpdateStatus, DeliverAgent, Judge, SelectExperiment

\* A history holds the scores there were when it was read.
LEMMA HistoryBehindStep == ASSUME TypeOK, Inductive, Next PROVE HistoryBehind'
<1>0. /\ HistoryBehind
      /\ judged \in Nat /\ me \in Agents /\ \A v \in Range(ad) : v \in Agents
      /\ NewAgent \in Agents /\ NewAgent.history = {}
  BY SamplesAssumption, ObjectFacts, VersionFacts, CopyFacts DEF Inductive, TypeOK, NewAgent
<1>1. ASSUME UNCHANGED <<ad, judged>>, me'.history \subseteq 1..judged PROVE HistoryBehind'
  BY <1>0, <1>1 DEF HistoryBehind
<1>2. ASSUME UNCHANGED <<ad, me, judged>> PROVE HistoryBehind'
  BY <1>0, <1>2 DEF HistoryBehind
<1>3. ASSUME Fetch PROVE HistoryBehind'
  BY <1>0, <1>1, <1>3, ObjectFacts, VersionFacts DEF Fetch, cluster, HistoryBehind
<1>4. ASSUME ReconcileEvalHistory PROVE HistoryBehind'
  <2>1. me.history \subseteq 1..judged
    BY <1>0 DEF HistoryBehind
  <2>2. \A h : [me EXCEPT !.history = h].history = h
    BY <1>0 DEF Agents
  <2>3. me'.history \subseteq 1..judged
    BY <1>4, <2>1, <2>2, HistoryFacts
  <2> QED
    BY <1>1, <1>4, <2>3 DEF ReconcileEvalHistory, cluster
<1>5. ASSUME WriteVariant PROVE HistoryBehind'
  <2>1. CASE me' = me
    BY <1>2, <1>5, <2>1 DEF WriteVariant, cluster
  <2>2. CASE me' # me
    <3>1. me' = WithOutcome(me, Name, got.phase) /\ got.phase \in Decided /\ gotCurrent
      BY <1>5, <2>2 DEF WriteVariant
    <3>2. Name \in Experiments
      BY <1>5, <3>1, WriteFacts DEF WriteVariant
    <3>3. me'.history = me.history
      BY <1>0, <3>1, <3>2, WithOutcomeFacts
    <3> QED
      BY <1>0, <1>1, <1>5, <3>3 DEF WriteVariant, cluster, HistoryBehind
  <2> QED
    BY <2>1, <2>2
<1>6. ASSUME UpdateStatus PROVE HistoryBehind'
  <2>1. \A v \in Range(ad') : v \in Range(ad) \/ v = me
    <3>1. ad \in Seq(Agents) /\ Len(ad) > 0
      BY ObjectFacts
    <3>2. Range(Append(ad, me)) = Range(ad) \cup {me}
      BY <1>0, <3>1, VersionFacts
    <3> QED
      BY <1>6, <3>2 DEF UpdateStatus
  <2> QED
    BY <1>0, <1>6, <2>1 DEF HistoryBehind, UpdateStatus, Return, cluster
<1>7. ASSUME Restart PROVE HistoryBehind'
  <2>1. \A v \in Range(ad') : v \in Range(ad)
    BY <1>7, ObjectFacts, VersionFacts DEF Restart
  <2> QED
    BY <1>0, <1>7, <2>1 DEF HistoryBehind, Restart, Return, cluster
<1>8. ASSUME DeliverAgent PROVE HistoryBehind'
  <2>1. \A v \in Range(ad') : v \in Range(ad)
    BY <1>8, ObjectFacts, VersionFacts DEF DeliverAgent
  <2> QED
    BY <1>0, <1>8, <2>1 DEF HistoryBehind, DeliverAgent, cluster, copies
<1>9. ASSUME Judge PROVE HistoryBehind'
  <2>1. 1..judged \subseteq 1..(judged + 1)
    BY <1>0
  <2> QED
    BY <1>0, <1>9, <2>1 DEF HistoryBehind, Judge, copies
<1>10. ASSUME NEW e \in Experiments \cup {None}, SelectExperiment(e) PROVE HistoryBehind'
  <2>. DEFINE new == [Stored(ad) EXCEPT !.name = e]
  <2>1. new \in Agents /\ new.history = Stored(ad).history
    BY ObjectFacts, CopyFacts DEF Agents
  <2>2. ad' = Append(ad, new)
    BY <1>10 DEF SelectExperiment
  <2>. HIDE DEF new
  <2>3. \A v \in Range(ad') : v \in Range(ad) \/ v = new
    BY <2>1, <2>2, ObjectFacts, VersionFacts
  <2>4. Stored(ad) \in Range(ad)
    BY ObjectFacts, VersionFacts
  <2> QED
    BY <1>0, <1>10, <2>1, <2>3, <2>4 DEF HistoryBehind, SelectExperiment, cluster
<1> QED
  BY <1>2, <1>3, <1>4, <1>5, <1>6, <1>7, <1>8, <1>9, <1>10
     DEF Next, Controller, NothingToTest, ReconcilePromptExperiment, ReconcileToolExperiment,
         CreateVariantConfigMap, InstallPrompt, DeliverExperiment, DeleteExperiment,
         cluster, copies

\* A copy that is still current goes on from the stored version: nobody else writes
\* experiments but who deletes them.
LEMMA CopyKnowsStep == ASSUME TypeOK, Inductive, Next PROVE CopyKnows'
<1>0. /\ CopyKnows /\ HistoryBehind /\ judged \in Nat /\ ex \in [Experiments -> Seq(Variants)]
  BY SamplesAssumption DEF Inductive, TypeOK
<1>1. ASSUME ~gotCurrent' PROVE CopyKnows'
  BY <1>1 DEF CopyKnows
<1>2. ASSUME pc' \notin {"configmap", "install", "write"} PROVE CopyKnows'
  BY <1>2 DEF CopyKnows
<1>3. ASSUME ReconcilePromptExperiment \/ ReconcileToolExperiment PROVE CopyKnows'
  <2>. DEFINE c == Cached(ex[Name])
  <2>1. /\ Name \in Experiments /\ Name' = Name /\ ex' = ex
        /\ gotCurrent' = InSync(ex[Name]) /\ me' = me /\ judged' = judged
        /\ pc' \in {"configmap", "install", "write"}
        /\ \/ c.phase = "Pending" /\ pc' = "configmap"
           \/ c.phase = "Pending" /\ got' = Begun(c) /\ pc' = "write"
           \/ c.phase = "Testing" /\ got' = Evaluate(c) /\ pc' \in {"install", "write"}
    BY <1>3 DEF ReconcilePromptExperiment, ReconcileToolExperiment, TypeOK, Agents, Name, cluster
  <2>2. c \in Variants
    BY <2>1, ObjectFacts
  <2>3. CASE ~InSync(ex[Name])
    BY <1>1, <2>1, <2>3
  <2>4. CASE InSync(ex[Name])
    <3>1. c = Stored(ex[Name])
      BY <2>1, <2>4, ObjectFacts, EndFacts DEF InSync, Stored
    <3>2. Stored(ex'[Name']) = c
      BY <2>1, <3>1
    <3>. HIDE DEF c
    <3>3. CASE pc' = "configmap"
      BY <2>1, <3>2, <3>3 DEF CopyKnows
    <3>4. CASE c.phase = "Pending" /\ got' = Begun(c) /\ pc' = "write"
      <4>1. got'.phase = "Testing" /\ got'.started = judged /\ judged \in 0..judged
        BY <1>0, <2>2, <3>4, BegunFacts
      <4>2. Begins(Stored(ex[Name]))'
        BY <2>1, <3>2, <3>4, <4>1 DEF Begins
      <4> QED
        BY <3>4, <4>2 DEF CopyKnows
    <3>5. CASE c.phase = "Testing" /\ got' = Evaluate(c) /\ pc' \in {"install", "write"}
      <4>1. /\ got'.started = c.started
            /\ \/ got'.phase = "Testing"
               \/ /\ got'.phase \in Decided
                  /\ c.started >= MinControl /\ judged - c.started >= MinSamples
        BY <1>0, <2>2, <3>5, EvaluateFacts DEF HistoryBehind
      <4>2. Progresses(Stored(ex[Name]))' \/ Decides(Stored(ex[Name]))'
        BY <2>1, <3>2, <3>5, <4>1 DEF Progresses, Decides
      <4> QED
        BY <3>5, <4>2 DEF CopyKnows
    <3> QED
      BY <2>1, <3>3, <3>4, <3>5
  <2> QED
    BY <2>3, <2>4
<1>4. ASSUME CreateVariantConfigMap PROVE CopyKnows'
  <2>1. CASE pc' = "write" /\ gotCurrent' /\ got' = Begun(got)
    <3>1. gotCurrent /\ pc = "configmap" /\ ex' = ex /\ me' = me /\ judged' = judged
      BY <1>4, <2>1 DEF CreateVariantConfigMap, EndHandler
    <3>2. Stored(ex[Name]).phase = "Pending" /\ Stored(ex[Name])' = Stored(ex[Name])
      BY <1>0, <3>1 DEF CopyKnows, Name
    <3>3. got'.phase = "Testing" /\ got'.started = judged /\ judged \in 0..judged
      BY <1>0, <2>1, BegunFacts DEF TypeOK
    <3>4. Begins(Stored(ex[Name]))'
      BY <3>1, <3>2, <3>3 DEF Begins
    <3> QED
      BY <2>1, <3>4 DEF CopyKnows
  <2> QED
    BY <1>1, <1>4, <2>1 DEF CreateVariantConfigMap, EndHandler, TypeOK
<1>5. ASSUME UNCHANGED <<me, got, judged>>, pc' = pc \/ (pc = "install" /\ pc' = "write"),
             gotCurrent' => gotCurrent /\ Stored(ex[Name])' = Stored(ex[Name])
      PROVE  CopyKnows'
  <2>1. Name' = Name
    BY <1>5 DEF Name
  <2>2. \A s : /\ Begins(s)' <=> Begins(s)
               /\ Progresses(s)' <=> Progresses(s)
               /\ Decides(s)' <=> Decides(s)
    BY <1>5 DEF Begins, Progresses, Decides
  <2>3. CASE ~gotCurrent'
    BY <1>1, <2>3 DEF CopyKnows
  <2>4. CASE gotCurrent'
    BY <1>0, <1>5, <2>1, <2>2, <2>4 DEF CopyKnows, Begins, Progresses, Decides
  <2> QED
    BY <2>3, <2>4
<1>6. ASSUME InstallPrompt PROVE CopyKnows'
  <2>1. CASE pc' = "write"
    BY <1>5, <1>6, <2>1 DEF InstallPrompt, EndHandler, Name
  <2>2. CASE pc' # "write"
    BY <1>2, <1>6, <2>2 DEF InstallPrompt, EndHandler
  <2> QED
    BY <2>1, <2>2
<1>7. ASSUME NEW d \in Experiments, DeliverExperiment(d) PROVE CopyKnows'
  <2>1. \A e : ex'[e] = IF e = d THEN Tail(ex[d]) ELSE ex[e]
    BY <1>0, <1>7 DEF DeliverExperiment
  <2>2. Stored(Tail(ex[d])) = Stored(ex[d])
    BY <1>7, ObjectFacts, TailFacts DEF DeliverExperiment
  <2>3. Stored(ex[Name])' = Stored(ex[Name])
    BY <1>7, <2>1, <2>2 DEF DeliverExperiment, copies, Name
  <2> QED
    BY <1>5, <1>7, <2>3 DEF DeliverExperiment, cluster, copies
<1>8. ASSUME NEW d \in Experiments, DeleteExperiment(d) PROVE CopyKnows'
  <2>1. gotCurrent' => gotCurrent /\ Name # d
    BY <1>8 DEF DeleteExperiment
  <2>2. Name # d => Stored(ex[Name])' = Stored(ex[Name])
    BY <1>0, <1>8 DEF DeleteExperiment, Name
  <2> QED
    BY <1>5, <1>8, <2>1, <2>2 DEF DeleteExperiment, cluster
<1>9. ASSUME Judge PROVE CopyKnows'
  <2>1. Name' = Name /\ ex' = ex /\ pc' = pc /\ gotCurrent' = gotCurrent
    BY <1>9 DEF Judge, copies, Name
  <2>2. 0..judged \subseteq 0..(judged + 1)
    BY <1>0
  <2>3. got' = got /\ judged' = judged + 1
    BY <1>9 DEF Judge, copies
  <2>4. got.started \in Int /\ MinSamples \in Nat
    BY SamplesAssumption DEF TypeOK, Variants
  <2>5. judged - got.started >= MinSamples => (judged + 1) - got.started >= MinSamples
    BY <1>0, <2>4
  <2>6. ASSUME NEW s
        PROVE  /\ Begins(s) => Begins(s)'
               /\ Progresses(s) => Progresses(s)'
               /\ Decides(s) => Decides(s)'
    <3>1. (Begins(s) => Begins(s)') /\ (Progresses(s) => Progresses(s)')
      BY <2>2, <2>3 DEF Begins, Progresses
    <3>2. Decides(s) => Decides(s)'
      <4> SUFFICES ASSUME Decides(s) PROVE Decides(s)'
        OBVIOUS
      <4>1. (judged - got.started >= MinSamples)'
        BY <2>3, <2>5 DEF Decides
      <4>2. /\ s.phase = "Testing" /\ (got.phase \in Decided)'
            /\ (got.started = s.started)' /\ (got.started >= MinControl)'
        BY <2>3 DEF Decides, MinControl, Decided
      <4> QED
        BY <4>1, <4>2 DEF Decides
    <3> QED
      BY <3>1, <3>2
  <2> QED
    BY <1>0, <2>1, <2>6 DEF CopyKnows
<1>10. ASSUME DeliverAgent \/ (\E e \in Experiments \cup {None} : SelectExperiment(e))
       PROVE  CopyKnows'
  BY <1>5, <1>10 DEF DeliverAgent, SelectExperiment, cluster, copies, Name
<1> QED
  BY <1>1, <1>2, <1>3, <1>4, <1>6, <1>7, <1>8, <1>9, <1>10
     DEF Next, Controller, Fetch, ReconcileEvalHistory, NothingToTest, WriteVariant,
         EndHandler, UpdateStatus, Restart, Return

\* Every version of the AgentDeployment, and every copy, keeps a faithful lineage.
LEMMA LineagesKnownStep == ASSUME TypeOK, Inductive, Next PROVE LineagesKnown'
<1>0. /\ LineagesKnown /\ me \in Agents /\ outcome \in Outcomes
      /\ \A v \in Range(ad) : v \in Agents /\ Faithful(v, outcome)
      /\ Faithful(me, outcome) /\ Faithful(NewAgent, outcome)
      /\ Stored(ad) \in Range(ad) /\ Cached(ad) \in Range(ad)
  BY ObjectFacts, VersionFacts, EmptyLineage DEF Inductive, LineagesKnown, TypeOK, Outcomes
<1>1. ASSUME UNCHANGED <<me, outcome>>, \A v \in Range(ad') : v \in Range(ad),
             current' => current /\ Stored(ad') = Stored(ad)
      PROVE  LineagesKnown'
  BY <1>0, <1>1 DEF LineagesKnown
<1>2. ASSUME UNCHANGED <<me, outcome, ad, current>> PROVE LineagesKnown'
  BY <1>1, <1>2
<1>3. ASSUME Fetch PROVE LineagesKnown'
  <2>1. Faithful(me', outcome)
    BY <1>0, <1>3 DEF Fetch
  <2>2. current' => Stored(ad) = me'
    BY <1>3, ObjectFacts, EndFacts DEF Fetch, InSync, Stored
  <2> QED
    BY <1>0, <1>3, <2>1, <2>2 DEF LineagesKnown, Fetch
<1>4. ASSUME ReconcileEvalHistory PROVE LineagesKnown'
  <2>1. CASE me' = me
    BY <1>2, <1>4, <2>1 DEF ReconcileEvalHistory
  <2>2. CASE me' # me
    <3>1. PICK h \in SUBSET (1..MaxScores) : me' = [me EXCEPT !.history = h]
      BY <1>4, <2>2, HistoryFacts
    <3>. DEFINE new == [me EXCEPT !.history = h]
    <3>2. /\ new \in Agents /\ new.lineage = me.lineage
          /\ new.ever = me.ever /\ new.opt = me.opt
      BY <1>0, CopyFacts DEF Agents
    <3>. HIDE DEF new
    <3>3. Faithful(new, outcome) /\ Entries(new) = Entries(me)
      BY <1>0, <3>2, FaithfulFacts
    <3>4. me' = new
      BY <3>1 DEF new
    <3> QED
      BY <1>0, <1>4, <3>3, <3>4 DEF LineagesKnown, ReconcileEvalHistory
  <2> QED
    BY <2>1, <2>2
<1>5. ASSUME WriteVariant PROVE LineagesKnown'
  <2>1. CASE UNCHANGED <<me, outcome>>
    BY <1>2, <1>5, <2>1 DEF WriteVariant
  <2>2. CASE ~UNCHANGED <<me, outcome>>
    <3>1. /\ gotCurrent /\ got.phase \in Decided
          /\ me' = WithOutcome(me, Name, got.phase)
          /\ outcome' = [outcome EXCEPT ![Name] = got.phase]
      BY <1>5, <2>2 DEF WriteVariant
    <3>2. Name \in Experiments /\ outcome[Name] = "none"
      BY <1>5, <3>1, WriteFacts DEF WriteVariant
    <3>3. \A v \in Range(ad) : Faithful(v, outcome')
      BY <1>0, <3>1, <3>2, OutcomeFaithful
    <3>4. Faithful(me', outcome') /\ Entries(me) \subseteq Entries(me')
      BY <1>0, <3>1, <3>2, OutcomeFaithful
    <3> QED
      BY <1>0, <1>5, <3>3, <3>4 DEF LineagesKnown, WriteVariant
  <2> QED
    BY <2>1, <2>2
<1>6. ASSUME UpdateStatus PROVE LineagesKnown'
  <2>1. \A v \in Range(ad') : v \in Range(ad) \/ v = me
    <3>1. Range(Append(ad, me)) = Range(ad) \cup {me}
      BY <1>0, ObjectFacts, VersionFacts
    <3> QED
      BY <1>6, <3>1 DEF UpdateStatus
  <2> QED
    BY <1>0, <1>6, <2>1 DEF LineagesKnown, UpdateStatus, Return
<1>7. ASSUME Restart PROVE LineagesKnown'
  <2>1. \A v \in Range(ad') : v \in Range(ad)
    BY <1>0, <1>7, ObjectFacts, VersionFacts DEF Restart
  <2> QED
    BY <1>0, <1>7, <2>1 DEF LineagesKnown, Restart, Return
<1>8. ASSUME DeliverAgent PROVE LineagesKnown'
  <2>1. (\A v \in Range(ad') : v \in Range(ad)) /\ Stored(ad') = Stored(ad)
    BY <1>8, ObjectFacts, VersionFacts, TailFacts DEF DeliverAgent
  <2> QED
    BY <1>1, <1>8, <2>1 DEF DeliverAgent, copies
<1>9. ASSUME NEW e \in Experiments \cup {None}, SelectExperiment(e) PROVE LineagesKnown'
  <2>. DEFINE new == [Stored(ad) EXCEPT !.name = e]
  <2>1. /\ new \in Agents
        /\ new.lineage = Stored(ad).lineage
        /\ new.ever = Stored(ad).ever /\ new.opt = Stored(ad).opt
    BY ObjectFacts, CopyFacts DEF Agents
  <2>2. ad' = Append(ad, new)
    BY <1>9 DEF SelectExperiment
  <2>. HIDE DEF new
  <2>3. \A v \in Range(ad') : v \in Range(ad) \/ v = new
    BY <2>1, <2>2, ObjectFacts, VersionFacts
  <2>4. Faithful(new, outcome)
    BY <1>0, <2>1, FaithfulFacts
  <2> QED
    BY <1>0, <1>9, <2>3, <2>4 DEF LineagesKnown, SelectExperiment
<1> QED
  BY <1>2, <1>3, <1>4, <1>5, <1>6, <1>7, <1>8, <1>9
     DEF Next, Controller, NothingToTest, ReconcilePromptExperiment,
         ReconcileToolExperiment, CreateVariantConfigMap, InstallPrompt,
         DeliverExperiment, Judge, DeleteExperiment, copies

\* Promoting goes through the installation of the prompt.
LEMMA InstalledStep == ASSUME TypeOK, Inductive, Next PROVE Installed'
<1>0. Installed
  BY DEF Inductive
<1>1. ASSUME pc' # "write" PROVE Installed'
  BY <1>1 DEF Installed
<1>2. ASSUME UNCHANGED <<kind, pc, got, me, mainCM>> PROVE Installed'
  BY <1>0, <1>2 DEF Installed, Name
<1>3. ASSUME ReconcilePromptExperiment PROVE Installed'
  <2>1. pc' = "write" => got'.phase # "Promoted"
    BY <1>3 DEF ReconcilePromptExperiment
  <2> QED
    BY <2>1 DEF Installed
<1>4. ASSUME ReconcileToolExperiment PROVE Installed'
  BY <1>4 DEF ReconcileToolExperiment, Installed, cluster
<1>5. ASSUME CreateVariantConfigMap PROVE Installed'
  <2>1. Begun(got).phase = "Testing"
    BY BegunFacts DEF TypeOK
  <2>2. pc' = "write" => got'.phase = "Testing"
    BY <1>5, <2>1 DEF CreateVariantConfigMap, EndHandler
  <2> QED
    BY <2>2 DEF Installed
<1>6. ASSUME InstallPrompt PROVE Installed'
  BY <1>6 DEF InstallPrompt, EndHandler, Installed, Name
<1> QED
  BY <1>1, <1>2, <1>3, <1>4, <1>5, <1>6
     DEF Next, Controller, Fetch, ReconcileEvalHistory, NothingToTest, WriteVariant,
         EndHandler, UpdateStatus, Restart, Return, DeliverAgent, DeliverExperiment,
         Judge, SelectExperiment, DeleteExperiment, cluster, copies

\* How far caches and copies can be behind is an inductive invariant.
THEOREM InductiveInvariant == Spec => []Inductive
<1>1. Init => Inductive
  <2> SUFFICES ASSUME Init PROVE Inductive
    OBVIOUS
  <2>1. PICK n \in Experiments \cup {None} : ad = <<[NewAgent EXCEPT !.name = n]>>
    BY DEF Init
  <2>. DEFINE new == [NewAgent EXCEPT !.name = n]
  <2>2. /\ NewAgent \in Agents /\ new \in Agents
        /\ new.history = {} /\ new.lineage = NewAgent.lineage
        /\ new.ever = NewAgent.ever /\ new.opt = NewAgent.opt
    <3>1. NewAgent \in Agents /\ NewAgent.history = {}
      BY DEF NewAgent, Agents
    <3>2. /\ [NewAgent EXCEPT !.name = n] \in Agents
          /\ [NewAgent EXCEPT !.name = n].history = NewAgent.history
          /\ [NewAgent EXCEPT !.name = n].lineage = NewAgent.lineage
          /\ [NewAgent EXCEPT !.name = n].ever = NewAgent.ever
          /\ [NewAgent EXCEPT !.name = n].opt = NewAgent.opt
      BY <3>1 DEF Agents
    <3> QED
      BY <3>1, <3>2
  <2>. HIDE DEF new
  <2>3. Range(ad) = {new} /\ Stored(ad) = new
    BY <2>1, <2>2, VersionFacts, SingleFacts DEF new, Range
  <2>4. outcome \in Outcomes /\ Faithful(NewAgent, outcome)
    BY EmptyLineage DEF Init, Outcomes
  <2>5. Faithful(new, outcome)
    BY <2>2, <2>4, FaithfulFacts
  <2>6. LineagesKnown
    BY <2>3, <2>4, <2>5 DEF LineagesKnown, Init
  <2>7. StoredPhases
    <3>1. NewVariant \in Variants /\ NewVariant.phase = "Pending" /\ NewVariant.started = -1
      BY DEF NewVariant, Variants, Phases, Existing
    <3>2. \A e \in Experiments : Stored(ex[e]) = NewVariant
      BY <3>1, SingleFacts DEF Init
    <3> QED
      BY <3>1, <3>2 DEF StoredPhases, Init
  <2>8. HistoryBehind
    BY <2>2, <2>3 DEF HistoryBehind, Init, NewAgent
  <2>9. CopyKnows /\ Installed
    BY DEF Init, CopyKnows, Installed
  <2> QED
    BY <2>6, <2>7, <2>8, <2>9 DEF Inductive
<1>2. TypeOK /\ Inductive /\ [Next]_vars => Inductive'
  <2> SUFFICES ASSUME TypeOK, Inductive, [Next]_vars PROVE Inductive'
    OBVIOUS
  <2>1. CASE Next
    BY <2>1, StoredPhasesStep, HistoryBehindStep, CopyKnowsStep, LineagesKnownStep,
       InstalledStep DEF Inductive
  <2>2. CASE UNCHANGED vars
    BY <2>2 DEF Inductive, StoredPhases, HistoryBehind, CopyKnows, LineagesKnown, Installed,
                Begins, Progresses, Decides, Name, vars, cluster
  <2> QED
    BY <2>1, <2>2
<1> QED
  BY <1>1, <1>2, TypeInvariant, PTL DEF Spec

(***************************************************************************)
(* The properties.                                                         *)
(***************************************************************************)

\* No version of the status ever recorded an outcome twice or one that is not the
\* experiment's; its lineage is the latest of what it recorded, as many as the ring
\* holds, and its generation counts all promotions, the dropped ones included.
THEOREM FaithfulLineage == Spec => []LineageFaithful
<1>1. TypeOK /\ Inductive => LineageFaithful
  <2> SUFFICES ASSUME TypeOK, Inductive, NEW i \in 1..Len(ad) PROVE Faithful(ad[i], outcome)
    BY DEF LineageFaithful
  <2>1. ad \in Seq(Agents)
    BY DEF TypeOK
  <2>2. ad[i] \in Range(ad)
    BY <2>1 DEF Range
  <2> QED
    BY <2>2 DEF Inductive, LineagesKnown
<1> QED
  BY <1>1, TypeInvariant, InductiveInvariant, PTL

\* The only ways in which what is stored of the experiments and their record changes,
\* and what each is in terms of the contract.
StepPromise ==
    /\ [Lifecycle!LNext]_(Lifecycle!lvars)
    /\ \A e \in Experiments :
         Stored(ex[e]).phase # "Promoted" /\ Stored(ex'[e]).phase = "Promoted"
           => mainCM = e \/ kind = "tool"

\* A step that leaves the starts, the record and the outcomes alone, and promotes nobody.
LEMMA SilentStep ==
    ASSUME UNCHANGED <<judged, outcome>>,
           \A e \in Experiments : /\ Stored(ex'[e]).started = Stored(ex[e]).started
                                  /\ \/ Stored(ex'[e]).phase = Stored(ex[e]).phase
                                     \/ Stored(ex'[e]).phase = "deleted",
           Entries(Stored(ad')) = Entries(Stored(ad))
    PROVE  StepPromise
  BY DEF StepPromise, Lifecycle!lvars

\* Every step is one of the contract's or none, and promotes only what is installed.
LEMMA StepKeepsPromise == ASSUME TypeOK, Inductive, Next PROVE StepPromise
<1>0. /\ judged \in Nat /\ MinSamples \in Nat \ {0}
      /\ ex \in [Experiments -> Seq(Variants)] /\ outcome \in Outcomes
      /\ \A e \in Experiments : Stored(ex[e]) \in Variants
      /\ Stored(ad) \in Agents /\ me \in Agents
  BY SamplesAssumption, ObjectFacts DEF TypeOK, Outcomes
<1>1. ASSUME UNCHANGED <<judged, outcome, ad>>,
             \A e \in Experiments : Stored(ex'[e]) = Stored(ex[e])
      PROVE  StepPromise
  BY <1>1, SilentStep
<1>2. ASSUME UNCHANGED <<judged, outcome, ad, ex>> PROVE StepPromise
  BY <1>1, <1>2
<1>3. ASSUME WriteVariant PROVE StepPromise
  <2>1. CASE UNCHANGED <<ex, outcome>>
    BY <1>2, <1>3, <2>1 DEF WriteVariant, cluster
  <2>2. CASE ~UNCHANGED <<ex, outcome>>
    <3>. DEFINE s == Stored(ex[Name])
    <3>1. /\ gotCurrent /\ pc = "write" /\ UNCHANGED <<judged, ad>>
          /\ \A e \in Experiments \ {Name} : ex'[e] = ex[e]
          /\ Stored(ex'[Name]) = got
          /\ outcome' = IF got.phase \in Decided
                          THEN [outcome EXCEPT ![Name] = got.phase] ELSE outcome
      BY <1>3, <2>2, WriteChange DEF WriteVariant, cluster
    <3>2. /\ Name \in Experiments /\ got \in Variants /\ outcome[Name] = "none"
          /\ Begins(s) \/ Progresses(s) \/ Decides(s)
      BY <3>1, WriteFacts
    <3>3. \A e \in Experiments :
            Stored(ex'[e]).phase = "Promoted" /\ Stored(ex[e]).phase # "Promoted"
              => mainCM = e \/ kind = "tool"
      <4>1. kind \in {"prompt", "tool"}
        BY DEF TypeOK
      <4> QED
        BY <3>1, <3>2, <4>1, NamesAssumption DEF Inductive, Installed
    <3>4. Entries(Stored(ad')) = Entries(Stored(ad))
      BY <3>1
    <3>5. CASE Begins(s)
      <4>1. /\ s.started = -1 /\ got.started \in 0..judged /\ outcome' = outcome
            /\ got.phase \notin Decided
        BY <3>1, <3>2, <3>5 DEF Begins, Inductive, StoredPhases, Decided
      <4>2. [e \in Experiments |-> Stored(ex'[e]).started]
              = [[e \in Experiments |-> Stored(ex[e]).started] EXCEPT ![Name] = got.started]
        BY <3>1, <3>2
      <4>3. Lifecycle!Begin(Name)
        BY <3>1, <3>2, <3>4, <4>1, <4>2 DEF Lifecycle!Begin
      <4> QED
        BY <3>2, <3>3, <4>3 DEF StepPromise, Lifecycle!LNext
    <3>6. CASE Progresses(s)
      <4>1. outcome' = outcome /\ got.phase = "Testing" /\ got.started = s.started
            /\ s.phase = "Testing"
        BY <3>1, <3>6 DEF Progresses, Decided
      <4>2. \A e \in Experiments : /\ Stored(ex'[e]).started = Stored(ex[e]).started
                                   /\ Stored(ex'[e]).phase = Stored(ex[e]).phase
        BY <3>1, <4>1
      <4> QED
        BY <3>1, <4>1, <4>2, SilentStep
    <3>7. CASE Decides(s)
      <4>1. /\ got.phase \in Decided /\ got.started = s.started
            /\ s.started >= MinControl
        BY <3>7 DEF Decides
      <4>2. judged - s.started >= MinSamples
        BY <3>7 DEF Decides
      <4>3. [e \in Experiments |-> Stored(ex'[e]).started]
              = [e \in Experiments |-> Stored(ex[e]).started]
        BY <3>1, <4>1
      <4>4. Lifecycle!Decide(Name)
        BY <3>1, <3>2, <3>4, <4>1, <4>2, <4>3 DEF Lifecycle!Decide, Decided
      <4> QED
        BY <3>2, <3>3, <4>4 DEF StepPromise, Lifecycle!LNext
    <3> QED
      BY <3>2, <3>5, <3>6, <3>7
  <2> QED
    BY <2>1, <2>2
<1>4. ASSUME UpdateStatus PROVE StepPromise
  <2>1. CASE ad' = ad
    BY <1>2, <1>4, <2>1 DEF UpdateStatus, cluster
  <2>2. CASE ad' # ad
    <3>1. ad' = Append(ad, me) /\ current /\ UNCHANGED <<ex, judged, outcome>>
      BY <1>4, <2>2 DEF UpdateStatus, cluster
    <3>2. Stored(ad') = me
      BY <1>0, <3>1, ObjectFacts, AppendFacts
    <3>3. Entries(Stored(ad)) \subseteq Entries(me) /\ Faithful(me, outcome)
      BY <3>1 DEF Inductive, LineagesKnown
    <3>4. \A x \in Entries(me) : \E e \in Experiments : outcome[e] # "none" /\ x = <<e, outcome[e]>>
      BY <1>0, <3>3, FaithfulFacts
    <3>. DEFINE S == {e \in Experiments : <<e, outcome[e]>> \in Entries(me) /\ outcome[e] # "none"}
    <3>5. Entries(me) = Entries(Stored(ad)) \cup {<<e, outcome[e]>> : e \in S}
      BY <3>3, <3>4
    <3>6. S \in SUBSET {e \in Experiments : outcome[e] # "none"}
      OBVIOUS
    <3>. HIDE DEF S
    <3>7. Lifecycle!Record
      BY <3>1, <3>2, <3>5, <3>6 DEF Lifecycle!Record
    <3> QED
      BY <3>1, <3>7 DEF StepPromise, Lifecycle!LNext
  <2> QED
    BY <2>1, <2>2
<1>5. ASSUME Restart PROVE StepPromise
  <2>1. Stored(ad') = Stored(ad) /\ \A e \in Experiments : Stored(ex'[e]) = Stored(ex[e])
    BY <1>0, <1>5, SingleFacts DEF Restart
  <2> QED
    BY <1>5, <2>1, SilentStep DEF Restart, cluster
<1>6. ASSUME DeliverAgent PROVE StepPromise
  <2>1. Stored(ad') = Stored(ad)
    BY <1>6, ObjectFacts, TailFacts DEF DeliverAgent
  <2> QED
    BY <1>6, <2>1, SilentStep DEF DeliverAgent, cluster
<1>7. ASSUME NEW d \in Experiments, DeliverExperiment(d) PROVE StepPromise
  <2>1. \A e \in Experiments : ex'[e] = IF e = d THEN Tail(ex[d]) ELSE ex[e]
    BY <1>0, <1>7 DEF DeliverExperiment
  <2>2. Stored(Tail(ex[d])) = Stored(ex[d])
    BY <1>7, ObjectFacts, TailFacts DEF DeliverExperiment
  <2> QED
    BY <1>1, <1>7, <2>1, <2>2 DEF DeliverExperiment, cluster
<1>8. ASSUME Judge PROVE StepPromise
  <2>1. Lifecycle!Judged
    BY <1>8 DEF Judge, Lifecycle!Judged
  <2> QED
    BY <1>8, <2>1 DEF Judge, StepPromise, Lifecycle!LNext
<1>9. ASSUME NEW n \in Experiments \cup {None}, SelectExperiment(n) PROVE StepPromise
  <2>. DEFINE new == [Stored(ad) EXCEPT !.name = n]
  <2>1. new \in Agents /\ new.ever = Stored(ad).ever
    BY <1>0, CopyFacts DEF Agents
  <2>2. ad' = Append(ad, new) /\ UNCHANGED <<ex, judged, outcome>>
    BY <1>9 DEF SelectExperiment, cluster
  <2>. HIDE DEF new
  <2>3. Stored(ad') = new
    BY <2>1, <2>2, ObjectFacts, AppendFacts
  <2> QED
    BY <2>1, <2>2, <2>3, SilentStep DEF Entries
<1>10. ASSUME NEW d \in Experiments, DeleteExperiment(d) PROVE StepPromise
  <2>. DEFINE gone == [Stored(ex[d]) EXCEPT !.phase = "deleted"]
  <2>1. \A e \in Experiments : ex'[e] = IF e = d THEN Append(ex[d], gone) ELSE ex[e]
    BY <1>0, <1>10 DEF DeleteExperiment
  <2>2. gone \in Variants /\ gone.phase = "deleted" /\ gone.started = Stored(ex[d]).started
    BY <1>0, CopyFacts DEF Variants
  <2>. HIDE DEF gone
  <2>3. Stored(Append(ex[d], gone)) = gone
    BY <2>2, ObjectFacts, AppendFacts
  <2>4. \A e \in Experiments : Stored(ex'[e]) = IF e = d THEN gone ELSE Stored(ex[e])
    BY <2>1, <2>3
  <2> QED
    BY <1>10, <2>2, <2>4, SilentStep DEF DeleteExperiment, cluster
<1> QED
  BY <1>2, <1>3, <1>4, <1>5, <1>6, <1>7, <1>8, <1>9, <1>10
     DEF Next, Controller, Fetch, ReconcileEvalHistory, NothingToTest,
         ReconcilePromptExperiment, ReconcileToolExperiment, CreateVariantConfigMap,
         InstallPrompt, cluster

\* A variant is marked Promoted only with its prompt in promptConfigMap.
THEOREM PromotionInstalls == Spec => PromotedIsInstalled
<1>1. TypeOK /\ Inductive /\ [Next]_vars =>
        [\A e \in Experiments :
           Stored(ex[e]).phase # "Promoted" /\ Stored(ex'[e]).phase = "Promoted"
             => mainCM = e \/ kind = "tool"]_vars
  BY StepKeepsPromise DEF StepPromise
<1> QED
  BY <1>1, TypeInvariant, InductiveInvariant, PTL DEF Spec, PromotedIsInstalled

\* The handlers implement the contract ExperimentLifecycle.
THEOREM Implementation == Spec => ImplementsLifecycle
<1>1. Init => Lifecycle!LInit
  <2> SUFFICES ASSUME Init PROVE Lifecycle!LInit
    OBVIOUS
  <2>1. \A e \in Experiments : Stored(ex[e]).started = -1
    BY DEF Init, Stored, NewVariant
  <2>2. Entries(Stored(ad)) = {}
    <3>1. PICK n \in Experiments \cup {None} : ad = <<[NewAgent EXCEPT !.name = n]>>
      BY DEF Init
    <3>2. Stored(ad).ever = <<>>
      BY <3>1 DEF Stored, NewAgent
    <3> QED
      BY <3>2 DEF Entries
  <2>3. judged \in Nat
    BY SamplesAssumption DEF Init
  <2> QED
    BY <2>1, <2>2, <2>3 DEF Lifecycle!LInit, Init
<1>2. TypeOK /\ Inductive /\ [Next]_vars => [Lifecycle!LNext]_(Lifecycle!lvars)
  <2> SUFFICES ASSUME TypeOK, Inductive, [Next]_vars
               PROVE  [Lifecycle!LNext]_(Lifecycle!lvars)
    OBVIOUS
  <2>1. CASE Next
    BY <2>1, StepKeepsPromise DEF StepPromise
  <2>2. CASE UNCHANGED vars
    BY <2>2 DEF vars, cluster, Lifecycle!lvars
  <2> QED
    BY <2>1, <2>2
<1> QED
  BY <1>1, <1>2, TypeInvariant, InductiveInvariant, PTL
     DEF Spec, ImplementsLifecycle, Lifecycle!LSpec

=============================================================================
