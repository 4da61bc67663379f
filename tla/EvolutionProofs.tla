---------------------------- MODULE EvolutionProofs ----------------------------
(***************************************************************************)
(* Proofs about Evolution, for any names of variants, anything the rest of *)
(* spec.evolution may say, any length of the history and every bound.      *)
(***************************************************************************)
EXTENDS Evolution, InformerCacheProofs, TLAPS

(***************************************************************************)
(* The history.                                                            *)
(***************************************************************************)

\* The ring has the length it is to have, and only what was put into it.
LEMMA RingType ==
    ASSUME NEW entries \in Seq(Proposals)
    PROVE  Ring(entries) \in Histories
<1>1. Len(entries) \in Nat /\ MaxHistory \in Nat \ {0}
  BY BoundsAssumption
<1>2. CASE Len(entries) <= MaxHistory
  BY <1>2 DEF Ring, Histories
<1>3. CASE ~(Len(entries) <= MaxHistory)
  <2>. DEFINE m == Len(entries) - MaxHistory + 1
  <2>1. m \in 1..Len(entries)
    BY <1>1, <1>3
  <2>2. /\ SubSeq(entries, m, Len(entries)) \in Seq(Proposals)
        /\ Len(SubSeq(entries, m, Len(entries))) = Len(entries) - m + 1
    BY <1>1, <2>1, SubSeqProperties
  <2>3. Len(SubSeq(entries, m, Len(entries))) = MaxHistory
    BY <1>1, <2>2
  <2> QED
    BY <1>3, <2>2, <2>3 DEF Ring, Histories
<1> QED
  BY <1>2, <1>3

\* A history with nothing added, and one that is empty with whatever was added.
LEMMA ExtendedFacts ==
    /\ \A h \in Histories : Extended(h, <<>>, h)
    /\ \A old \in Histories, more \in Seq(Proposals) : Extended(old, more, <<>>) => old = <<>>
<1>1. ASSUME NEW h \in Histories PROVE Extended(h, <<>>, h)
  <2>1. /\ h \in Seq(Proposals) /\ Len(h) \in Nat /\ Len(h) <= MaxHistory
        /\ Len(<<>>) = 0 /\ h \o <<>> = h
    BY DEF Histories
  <2> QED
    BY <2>1 DEF Extended
<1>2. ASSUME NEW old \in Histories, NEW more \in Seq(Proposals), Extended(old, more, <<>>)
      PROVE  old = <<>>
  <2>1. /\ old \in Seq(Proposals) /\ Len(old) \in Nat /\ Len(more) \in Nat
        /\ MaxHistory \in Nat \ {0} /\ Len(<<>>) = 0
    BY BoundsAssumption DEF Histories
  <2>2. Len(<<>>) = IF Len(old) + Len(more) <= MaxHistory THEN Len(old) + Len(more)
                      ELSE MaxHistory
    BY <1>2 DEF Extended
  <2>3. Len(old) = 0
    BY <2>1, <2>2
  <2> QED
    BY <2>1, <2>3
<1> QED
  BY <1>1, <1>2

\* The ring of a history and more proposals.
LEMMA RingExtends ==
    ASSUME NEW old \in Histories, NEW more \in Seq(Proposals)
    PROVE  Extended(old, more, Ring(old \o more))
<1>. DEFINE all == old \o more
<1>1. /\ MaxHistory \in Nat \ {0}
      /\ old \in Seq(Proposals) /\ Len(old) \in Nat /\ Len(more) \in Nat
  BY BoundsAssumption DEF Histories
<1>2. all \in Seq(Proposals) /\ Len(all) = Len(old) + Len(more)
  BY <1>1
<1>. HIDE DEF all
<1>3. CASE Len(all) <= MaxHistory
  <2>1. Ring(all) = all
    BY <1>3 DEF Ring
  <2>2. \A i \in 1..Len(all) : ((Len(old) + Len(more)) - Len(all)) + i = i
    BY <1>1, <1>2
  <2> QED
    BY <1>2, <1>3, <2>1, <2>2 DEF Extended, all
<1>4. CASE ~(Len(all) <= MaxHistory)
  <2>. DEFINE m == (Len(all) - MaxHistory) + 1
              r == SubSeq(all, m, Len(all))
  <2>1. m \in 1..Len(all) /\ Len(all) \in Nat /\ m \in Nat
    BY <1>1, <1>2, <1>4
  <2>2. Len(r) = MaxHistory
    <3>1. Len(r) = (Len(all) - m) + 1
      BY <1>2, <2>1, SubSeqProperties
    <3> QED
      BY <1>1, <2>1, <3>1
  <2>3. \A i \in 1..Len(r) : r[i] = all[((Len(old) + Len(more)) - Len(r)) + i]
    <3>1. \A i \in 1..((Len(all) - m) + 1) : r[i] = all[(m + i) - 1]
      BY <1>2, <2>1, SubSeqProperties
    <3>2. ASSUME NEW i \in 1..Len(r)
          PROVE  /\ i \in 1..((Len(all) - m) + 1)
                 /\ (m + i) - 1 = ((Len(old) + Len(more)) - Len(r)) + i
      BY <1>1, <1>2, <2>1, <2>2
    <3> QED
      BY <3>1, <3>2
  <2>4. Ring(all) = r
    BY <1>4 DEF Ring
  <2>. HIDE DEF r, m
  <2> QED
    BY <1>2, <1>4, <2>2, <2>3, <2>4 DEF Extended, all
<1> QED
  BY <1>3, <1>4 DEF all

(***************************************************************************)
(* Types.                                                                  *)
(***************************************************************************)

\* The variants as a family of objects, and the other types with them.
LEMMA StateTypes ==
    TypeOK <=> /\ ad \in Seq(Agents) /\ Len(ad) > 0
               /\ pv \in Families(Variants, VariantPhases)
               /\ prompt \in Experiments /\ rollout \in Phases
               /\ pc \in Steps /\ me \in Agents /\ current \in BOOLEAN
               /\ made \in Variants \cup {None}
               /\ proposals \in Seq(Proposals)
               /\ edits \in 0..MaxEdits /\ faults \in 0..MaxFaults
  BY DEF TypeOK, Families

\* The same after a step.
LEMMA StateTypesNext ==
    TypeOK' <=> /\ ad' \in Seq(Agents) /\ Len(ad') > 0
                /\ pv' \in Families(Variants, VariantPhases)
                /\ prompt' \in Experiments /\ rollout' \in Phases
                /\ pc' \in Steps /\ me' \in Agents /\ current' \in BOOLEAN
                /\ made' \in Variants \cup {None}
                /\ proposals' \in Seq(Proposals)
                /\ edits' \in 0..MaxEdits /\ faults' \in 0..MaxFaults
  BY DEF TypeOK, Families

\* The copies a reconcile works on.
LEMMA AgentTypes ==
    /\ <<>> \in Histories
    /\ \A opt \in Options : NewAgent(opt) \in Agents
    /\ \A a \in Agents :
         /\ a.opt \in Options /\ a.exp \in Experiments /\ a.hist \in Histories
         /\ a.job \in Variants \cup {None} /\ a.phase \in Phases /\ a.tuned \in BOOLEAN
         /\ \A e \in Experiments : [a EXCEPT !.exp = e] \in Agents
         /\ \A v \in Variants : [a EXCEPT !.job = v] \in Agents
         /\ [a EXCEPT !.tuned = TRUE] \in Agents
         /\ \A h \in Histories : [a EXCEPT !.hist = h] \in Agents
         /\ \A e \in Experiments, p \in Phases : [a EXCEPT !.exp = e, !.phase = p] \in Agents
<1>1. <<>> \in Histories
  BY BoundsAssumption DEF Histories
<1>2. ASSUME NEW opt \in Options PROVE NewAgent(opt) \in Agents
  BY <1>1 DEF NewAgent, Agents, Experiments, Phases
<1>3. ASSUME NEW a \in Agents
      PROVE  /\ a.opt \in Options /\ a.exp \in Experiments /\ a.hist \in Histories
             /\ a.job \in Variants \cup {None} /\ a.phase \in Phases /\ a.tuned \in BOOLEAN
             /\ \A e \in Experiments : [a EXCEPT !.exp = e] \in Agents
             /\ \A v \in Variants : [a EXCEPT !.job = v] \in Agents
             /\ [a EXCEPT !.tuned = TRUE] \in Agents
             /\ \A h \in Histories : [a EXCEPT !.hist = h] \in Agents
             /\ \A e \in Experiments, p \in Phases : [a EXCEPT !.exp = e, !.phase = p] \in Agents
  BY DEF Agents
<1> QED
  BY <1>1, <1>2, <1>3

\* What a copy is after the answer of the server has been decoded into it.
LEMMA DecodedType ==
    ASSUME NEW answer \in Agents, NEW copy \in Agents
    PROVE  /\ Decoded(answer, copy) \in Agents
           /\ Decoded(answer, copy).exp = answer.exp
           /\ Decoded(answer, copy).hist = IF answer.hist = <<>> THEN copy.hist ELSE answer.hist
<1>. DEFINE j == IF answer.job = None THEN copy.job ELSE answer.job
            t == answer.tuned \/ copy.tuned
            h == IF answer.hist = <<>> THEN copy.hist ELSE answer.hist
<1>1. j \in Variants \cup {None}
  BY AgentTypes
<1>2. t \in BOOLEAN
  OBVIOUS
<1>3. h \in Histories
  BY AgentTypes
<1>4. Decoded(answer, copy) = [answer EXCEPT !.job = j, !.tuned = t, !.hist = h]
  BY DEF Decoded, Agents
<1>. HIDE DEF j, t, h
<1>5. [answer EXCEPT !.job = j, !.tuned = t, !.hist = h] \in Agents
  BY <1>1, <1>2, <1>3 DEF Agents
<1>6. /\ [answer EXCEPT !.job = j, !.tuned = t, !.hist = h].exp = answer.exp
      /\ [answer EXCEPT !.job = j, !.tuned = t, !.hist = h].hist = h
  BY DEF Agents
<1> QED
  BY <1>4, <1>5, <1>6 DEF h

\* What a write, an event and a fresh list make of the AgentDeployment.
LEMMA AgentFacts ==
    ASSUME TypeOK
    PROVE  /\ Cached(ad) \in Agents /\ Stored(ad) \in Agents
           /\ \A x \in Agents : /\ Append(ad, x) \in Seq(Agents) /\ Len(Append(ad, x)) > 0
                                /\ Stored(Append(ad, x)) = x
                                /\ Range(Append(ad, x)) = Range(ad) \cup {x}
           /\ ~InSync(ad) => /\ Tail(ad) \in Seq(Agents) /\ Len(Tail(ad)) > 0
                             /\ Stored(Tail(ad)) = Stored(ad)
                             /\ Range(Tail(ad)) \subseteq Range(ad)
           /\ <<Stored(ad)>> \in Seq(Agents) /\ Len(<<Stored(ad)>>) > 0
           /\ Stored(<<Stored(ad)>>) = Stored(ad)
           /\ Range(<<Stored(ad)>>) \subseteq Range(ad)
           /\ Cached(ad) \in Range(ad) /\ Stored(ad) \in Range(ad)
           /\ InSync(ad) => Cached(ad) = Stored(ad)
<1>1. ad \in Seq(Agents) /\ Len(ad) > 0
  BY DEF TypeOK
<1>2. Cached(ad) \in Agents /\ Stored(ad) \in Agents /\ (InSync(ad) => Cached(ad) = Stored(ad))
  BY <1>1, EndFacts DEF InSync, Stored
<1>3. ASSUME NEW x \in Agents
      PROVE  /\ Append(ad, x) \in Seq(Agents) /\ Len(Append(ad, x)) > 0
             /\ Stored(Append(ad, x)) = x
  BY <1>1, AppendFacts
<1>4. ~InSync(ad) => /\ Tail(ad) \in Seq(Agents) /\ Len(Tail(ad)) > 0
                     /\ Stored(Tail(ad)) = Stored(ad)
  BY <1>1, TailFacts
<1>5. /\ <<Stored(ad)>> \in Seq(Agents) /\ Len(<<Stored(ad)>>) > 0
      /\ Stored(<<Stored(ad)>>) = Stored(ad)
  BY <1>2, SingleFacts
<1>6. /\ \A x \in Agents : Range(Append(ad, x)) = Range(ad) \cup {x}
      /\ ~InSync(ad) => Range(Tail(ad)) \subseteq Range(ad)
      /\ Cached(ad) \in Range(ad) /\ Stored(ad) \in Range(ad)
      /\ Range(<<Stored(ad)>>) = {Stored(ad)}
  BY <1>1, <1>2, VersionFacts
<1> QED
  BY <1>2, <1>3, <1>4, <1>5, <1>6

\* A reconcile that ends.
LEMMA ReturnType ==
    ASSUME TypeOK, Return
    PROVE  /\ pc' \in Steps /\ me' \in Agents /\ current' \in BOOLEAN
           /\ made' \in Variants \cup {None} /\ proposals' \in Seq(Proposals)
<1>1. me.opt \in Options
  BY AgentTypes DEF TypeOK
<1>2. NewAgent(me.opt) \in Agents
  BY <1>1, AgentTypes
<1>3. "idle" \in Steps /\ <<>> \in Seq(Proposals)
  BY DEF Steps
<1> QED
  BY <1>2, <1>3 DEF Return

\* A write of the phase of a variant.
LEMMA WritePhaseType ==
    ASSUME TypeOK, NEW v \in Variants, NEW phase \in VariantPhases, WritePhase(v, phase)
    PROVE  pv' \in Families(Variants, VariantPhases)
<1>1. [pv EXCEPT ![v] = Append(@, phase)] \in Families(Variants, VariantPhases)
  BY StateTypes, FamilyFacts
<1> QED
  BY <1>1, StateTypes DEF WritePhase

\* Every step keeps the types.
LEMMA TypeStep ==
    ASSUME TypeOK, Next
    PROVE  TypeOK'
<1>. USE StateTypes, StateTypesNext, NamesAssumption DEF cluster
<1>0. /\ Strategies \X Experiments = Proposals
      /\ None \in Experiments /\ Own \in Experiments /\ Variants \subseteq Experiments
      /\ "tune" \in Steps /\ "prompt" \in Steps /\ "patch" \in Steps /\ "upgrade" \in Steps
      /\ "experiment" \in Steps /\ "status" \in Steps
      /\ me.exp \in Experiments /\ me.hist \in Seq(Proposals)
  BY AgentTypes DEF Proposals, Experiments, Steps, Histories
<1>1. ASSUME NEW strategy \in Strategies, NEW e \in Experiments
      PROVE  /\ <<<<strategy, e>>>> \in Seq(Proposals)
             /\ Append(proposals, <<strategy, e>>) \in Seq(Proposals)
  <2>1. <<strategy, e>> \in Proposals
    BY DEF Proposals
  <2>2. proposals \in Seq(Proposals)
    OBVIOUS
  <2>. HIDE DEF Proposals
  <2> QED
    BY <2>1, <2>2
<1>2. ASSUME Fetch PROVE TypeOK'
  BY <1>0, <1>2, AgentFacts DEF Fetch, InSync
<1>3. ASSUME NotFired \/ SkipOptimizer \/ NothingToTest PROVE TypeOK'
  BY <1>0, <1>3 DEF NotFired, SkipOptimizer, NothingToTest
<1>4. ASSUME RunThresholdTuner PROVE TypeOK'
  <2>1. me' \in Agents
    BY <1>4, AgentTypes DEF RunThresholdTuner
  <2>2. proposals' \in Seq(Proposals)
    <3>1. proposals' = proposals \/ proposals' = <<<<"threshold-tuner", None>>>>
      BY <1>4 DEF RunThresholdTuner
    <3>2. "threshold-tuner" \in Strategies
      BY DEF Strategies
    <3> QED
      BY <1>0, <1>1, <3>1, <3>2
  <2> QED
    BY <1>0, <1>4, <2>1, <2>2 DEF RunThresholdTuner
<1>5. ASSUME RunPromptOptimizer PROVE TypeOK'
  <2>1. proposals' \in Seq(Proposals)
    <3>1. proposals' = proposals \/ proposals' = Append(proposals, <<"prompt-optimizer", None>>)
      BY <1>5 DEF RunPromptOptimizer
    <3>2. "prompt-optimizer" \in Strategies
      BY DEF Strategies
    <3> QED
      BY <1>0, <1>1, <3>1, <3>2
  <2>2. prompt' \in Experiments
    BY <1>0, <1>5 DEF RunPromptOptimizer
  <2> QED
    BY <1>0, <1>5, <2>1, <2>2 DEF RunPromptOptimizer
<1>6. ASSUME CreateVariant PROVE TypeOK'
  <2>1. PICK v \in Variants : /\ pv' = [pv EXCEPT ![v] = Append(@, "")]
                              /\ made' = v /\ me' = [me EXCEPT !.job = v]
    BY <1>6 DEF CreateVariant, NextNames, Fresh
  <2>2. pv' \in Families(Variants, VariantPhases)
    <3>1. "" \in VariantPhases
      BY DEF VariantPhases
    <3> QED
      BY <2>1, <3>1, FamilyFacts
  <2>3. me' \in Agents
    BY <2>1, AgentTypes
  <2> QED
    BY <1>0, <1>6, <2>1, <2>2, <2>3 DEF CreateVariant
<1>7. ASSUME OptimizerFails PROVE TypeOK'
  <2>1. faults' \in 0..MaxFaults
    BY <1>7, BoundsAssumption DEF OptimizerFails, Fault
  <2> QED
    BY <1>0, <1>7, <2>1 DEF OptimizerFails
<1>8. ASSUME PatchExperiment PROVE TypeOK'
  <2>. DEFINE answer == [Stored(ad) EXCEPT !.exp = made]
  <2>1. made \in Experiments
    BY <1>0
  <2>2. answer \in Agents /\ [me EXCEPT !.exp = made] \in Agents
    BY <2>1, AgentFacts, AgentTypes
  <2>3. \/ ad' = Append(ad, answer) /\ me' = Decoded(answer, me) /\ current' = TRUE /\ faults' = faults
        \/ Fault /\ me' = [me EXCEPT !.exp = made] /\ ad' = ad /\ current' = current
    BY <1>8 DEF PatchExperiment
  <2>. HIDE DEF answer
  <2>4. ad' \in Seq(Agents) /\ Len(ad') > 0
    BY <2>2, <2>3, AgentFacts
  <2>5. me' \in Agents /\ current' \in BOOLEAN /\ faults' \in 0..MaxFaults
    <3>1. Decoded(answer, me) \in Agents
      BY <2>2, DecodedType
    <3>2. Fault => faults' \in 0..MaxFaults
      BY BoundsAssumption DEF Fault
    <3> QED
      BY <2>2, <2>3, <3>1, <3>2
  <2>6. proposals' \in Seq(Proposals)
    <3>1. "dspy-optimizer" \in Strategies
      BY DEF Strategies
    <3> QED
      BY <1>1, <1>8, <2>1, <3>1 DEF PatchExperiment
  <2> QED
    BY <1>0, <1>8, <2>4, <2>5, <2>6 DEF PatchExperiment
<1>9. ASSUME RecordProposals PROVE TypeOK'
  <2>1. PICK upgrade \in {<<>>, <<<<"model-upgrader", None>>>>} :
               /\ proposals' = proposals \o upgrade
               /\ me' = [me EXCEPT !.hist = Ring(@ \o proposals \o upgrade)]
    BY <1>9 DEF RecordProposals
  <2>2. upgrade \in Seq(Proposals)
    <3>1. "model-upgrader" \in Strategies
      BY DEF Strategies
    <3>2. <<<<"model-upgrader", None>>>> \in Seq(Proposals)
      BY <1>0, <1>1, <3>1
    <3>3. <<>> \in Seq(Proposals)
      OBVIOUS
    <3> QED
      BY <2>1, <3>2, <3>3
  <2>3. me.hist \o proposals \o upgrade \in Seq(Proposals)
    BY <1>0, <2>2
  <2>4. me' \in Agents
    BY <2>1, <2>3, RingType, AgentTypes
  <2>5. proposals' \in Seq(Proposals)
    <3>1. proposals \in Seq(Proposals)
      BY <1>0
    <3> QED
      BY <2>1, <2>2, <3>1
  <2> QED
    BY <1>0, <1>9, <2>4, <2>5 DEF RecordProposals
<1>10. ASSUME StartExperiment PROVE TypeOK'
  <2>1. "Testing" \in VariantPhases /\ me.exp \in Variants
    BY <1>10 DEF StartExperiment, VariantPhases
  <2> QED
    BY <1>0, <1>10, <2>1, WritePhaseType DEF StartExperiment
<1>11. ASSUME EvaluateExperiment PROVE TypeOK'
  <2>1. "Decided" \in VariantPhases /\ me.exp \in Variants
    BY <1>11 DEF EvaluateExperiment, VariantPhases
  <2>2. pv' \in Families(Variants, VariantPhases)
    BY <1>11, <2>1, WritePhaseType DEF EvaluateExperiment
  <2>3. prompt' \in Experiments
    BY <1>0, <1>11, <2>1 DEF EvaluateExperiment
  <2> QED
    BY <1>0, <1>11, <2>2, <2>3 DEF EvaluateExperiment
<1>12. ASSUME UpdateStatus PROVE TypeOK'
  <2>1. Stored(ad).exp \in Experiments
    BY AgentFacts, AgentTypes
  <2>2. [me EXCEPT !.exp = Stored(ad).exp, !.phase = rollout] \in Agents
    BY <2>1, AgentTypes
  <2>3. ad' \in Seq(Agents) /\ Len(ad') > 0
    BY <1>12, <2>2, AgentFacts DEF UpdateStatus
  <2> QED
    BY <1>12, <2>3, ReturnType DEF UpdateStatus
<1>13. ASSUME StepFails PROVE TypeOK'
  <2>1. faults' \in 0..MaxFaults
    BY <1>13, BoundsAssumption DEF StepFails, Fault
  <2> QED
    BY <1>13, <2>1, ReturnType DEF StepFails
<1>14. ASSUME Restart PROVE TypeOK'
  <2>1. pv' \in Families(Variants, VariantPhases)
    <3>1. ASSUME NEW v \in Variants
          PROVE  <<Stored(pv[v])>> \in Seq(VariantPhases) /\ Len(<<Stored(pv[v])>>) > 0
      <4>1. Stored(pv[v]) \in VariantPhases
        BY FamilyFacts
      <4> QED
        BY <4>1, SingleFacts
    <3> QED
      BY <1>14, <3>1 DEF Restart, Families
  <2>2. ad' \in Seq(Agents) /\ Len(ad') > 0
    BY <1>14, AgentFacts DEF Restart
  <2>3. faults' \in 0..MaxFaults
    BY <1>14, BoundsAssumption DEF Restart, Fault
  <2> QED
    BY <1>14, <2>1, <2>2, <2>3, ReturnType DEF Restart
<1>15. ASSUME DeliverAgent PROVE TypeOK'
  BY <1>15, AgentFacts DEF DeliverAgent
<1>16. ASSUME NEW v \in Variants, DeliverVariant(v) PROVE TypeOK'
  BY <1>16, FamilyFacts DEF DeliverVariant
<1>17. ASSUME NEW e \in {None, Own}, SelectExperiment(e) PROVE TypeOK'
  <2>1. [Stored(ad) EXCEPT !.exp = e] \in Agents
    BY <1>0, AgentFacts, AgentTypes
  <2>2. ad' \in Seq(Agents) /\ Len(ad') > 0
    BY <1>17, <2>1, AgentFacts DEF SelectExperiment
  <2>3. edits' \in 0..MaxEdits
    BY <1>17, BoundsAssumption DEF SelectExperiment
  <2> QED
    BY <1>17, <2>2, <2>3 DEF SelectExperiment
<1>18. ASSUME RolloutEnds PROVE TypeOK'
  <2>1. rollout' \in Phases
    BY <1>18 DEF RolloutEnds, Phases
  <2> QED
    BY <1>18, <2>1 DEF RolloutEnds
<1> QED
  BY <1>2, <1>3, <1>4, <1>5, <1>6, <1>7, <1>8, <1>9, <1>10, <1>11, <1>12, <1>13, <1>14, <1>15,
     <1>16, <1>17, <1>18
     DEF Next, Controller, Optimize

\* The variables keep their types and the history its bound, for any options and bounds.
THEOREM TypeInvariant == Spec => []TypeOK
<1>1. Init => TypeOK
  <2> SUFFICES ASSUME Init PROVE TypeOK
    OBVIOUS
  <2>1. PICK opt \in Options : ad = <<NewAgent(opt)>> /\ me = NewAgent(opt)
    BY DEF Init
  <2>2. NewAgent(opt) \in Agents
    BY AgentTypes
  <2>3. ad \in Seq(Agents) /\ Len(ad) > 0
    BY <2>1, <2>2, SingleFacts
  <2>4. pv \in Families(Variants, VariantPhases)
    <3>1. "absent" \in VariantPhases
      BY DEF VariantPhases
    <3>2. <<"absent">> \in Seq(VariantPhases) /\ Len(<<"absent">>) > 0
      BY <3>1, SingleFacts
    <3> QED
      BY <3>2 DEF Init, Families
  <2>5. edits \in 0..MaxEdits /\ faults \in 0..MaxFaults
    BY BoundsAssumption DEF Init
  <2>6. prompt \in Experiments /\ rollout \in Phases /\ pc \in Steps
    BY DEF Init, Experiments, Phases, Steps
  <2>7. proposals \in Seq(Proposals)
    <3>1. proposals = <<>>
      BY DEF Init
    <3> QED
      BY <3>1
  <2>8. current \in BOOLEAN /\ made \in Variants \cup {None}
    BY DEF Init
  <2> QED
    BY <2>1, <2>2, <2>3, <2>4, <2>5, <2>6, <2>7, <2>8, StateTypes
<1>2. TypeOK /\ UNCHANGED vars => TypeOK'
  BY DEF TypeOK, vars, cluster
<1> QED
  BY <1>1, <1>2, TypeStep, PTL DEF Spec

(***************************************************************************)
(* The variants, the experiment and the history.                           *)
(***************************************************************************)

Exists(v) == Stored(pv[v]) # "absent"

\* A variant is never made to be absent.
LEMMA VariantsStay ==
    ASSUME TypeOK, Next, NEW v \in Variants, Exists(v)
    PROVE  Exists(v)'
<1>1. /\ pv \in [Variants -> Seq(VariantPhases)]
      /\ pv[v] \in Seq(VariantPhases) /\ Len(pv[v]) > 0
  BY DEF TypeOK
<1>2. ASSUME NEW w \in Variants, NEW phase \in VariantPhases \ {"absent"},
             pv' = [pv EXCEPT ![w] = Append(@, phase)]
      PROVE  Exists(v)'
  <2>1. Stored(Append(pv[v], phase)) = phase
    BY <1>1, AppendFacts
  <2>2. pv'[v] = pv[v] \/ pv'[v] = Append(pv[v], phase)
    BY <1>1, <1>2
  <2> QED
    BY <2>1, <2>2 DEF Exists
<1>3. ASSUME CreateVariant \/ StartExperiment \/ EvaluateExperiment
      PROVE  \/ pv' = pv
             \/ \E w \in Variants, phase \in VariantPhases \ {"absent"} :
                  pv' = [pv EXCEPT ![w] = Append(@, phase)]
  <2>1. ASSUME CreateVariant
        PROVE  \E w \in Variants : pv' = [pv EXCEPT ![w] = Append(@, "")]
    BY <2>1 DEF CreateVariant, NextNames, Fresh
  <2>2. {"", "Testing", "Decided"} \subseteq VariantPhases \ {"absent"}
    BY DEF VariantPhases
  <2> QED
    BY <1>3, <2>1, <2>2 DEF StartExperiment, EvaluateExperiment, WritePhase
<1>4. ASSUME Restart \/ \E w \in Variants : DeliverVariant(w)
      PROVE  Exists(v)'
  <2>1. Stored(pv[v]) \in VariantPhases
    BY <1>1, EndFacts
  <2>2. Stored(<<Stored(pv[v])>>) = Stored(pv[v])
    BY <2>1, SingleFacts
  <2>3. ~InSync(pv[v]) => Stored(Tail(pv[v])) = Stored(pv[v])
    BY <1>1, TailFacts
  <2>4. \/ pv'[v] = pv[v] \/ pv'[v] = <<Stored(pv[v])>>
        \/ ~InSync(pv[v]) /\ pv'[v] = Tail(pv[v])
    BY <1>1, <1>4 DEF Restart, DeliverVariant
  <2> QED
    BY <2>2, <2>3, <2>4 DEF Exists
<1>5. \/ pv' = pv
      \/ CreateVariant \/ StartExperiment \/ EvaluateExperiment
      \/ Restart \/ \E w \in Variants : DeliverVariant(w)
  BY DEF Next, Controller, Optimize, Fetch, NotFired, RunThresholdTuner, RunPromptOptimizer,
         SkipOptimizer, OptimizerFails, PatchExperiment, RecordProposals, NothingToTest,
         UpdateStatus, StepFails, DeliverAgent, SelectExperiment, RolloutEnds, cluster
<1>6. CASE pv' = pv
  BY <1>6 DEF Exists
<1> QED
  BY <1>2, <1>3, <1>4, <1>5, <1>6

\* The only steps that write the AgentDeployment, and what they write.
LEMMA AgentChange ==
    ASSUME TypeOK, Next
    PROVE  \/ Range(ad') \subseteq Range(ad) /\ Stored(ad') = Stored(ad)
           \/ /\ pc = "patch"
              /\ Stored(ad') \in Agents
              /\ Stored(ad').exp = made /\ Stored(ad').hist = Stored(ad).hist
              /\ Range(ad') = Range(ad) \cup {Stored(ad')}
           \/ /\ UpdateStatus /\ current
              /\ Stored(ad') \in Agents
              /\ Stored(ad').exp = Stored(ad).exp /\ Stored(ad').hist = me.hist
              /\ Range(ad') = Range(ad) \cup {Stored(ad')}
           \/ \E e \in {None, Own} :
              /\ SelectExperiment(e)
              /\ Stored(ad') \in Agents
              /\ Stored(ad').exp = e /\ Stored(ad').hist = Stored(ad).hist
              /\ Range(ad') = Range(ad) \cup {Stored(ad')}
<1>0. /\ Stored(ad) \in Agents /\ me \in Agents /\ Stored(ad).exp \in Experiments
      /\ rollout \in Phases /\ made \in Experiments
      /\ \A e \in {None, Own} : e \in Experiments
  BY AgentFacts, AgentTypes DEF TypeOK, Experiments
<1>1. ASSUME NEW x \in Agents, ad' = Append(ad, x)
      PROVE  Stored(ad') = x /\ Range(ad') = Range(ad) \cup {x}
  BY <1>1, AgentFacts
<1>2. ASSUME NEW e \in Experiments
      PROVE  LET x == [Stored(ad) EXCEPT !.exp = e]
             IN  x \in Agents /\ x.exp = e /\ x.hist = Stored(ad).hist
  BY <1>0, AgentTypes DEF Agents
<1>3. CASE PatchExperiment
  <2>. DEFINE x == [Stored(ad) EXCEPT !.exp = made]
  <2>1. pc = "patch" /\ (ad' = ad \/ ad' = Append(ad, x))
    BY <1>3 DEF PatchExperiment
  <2>2. x \in Agents /\ x.exp = made /\ x.hist = Stored(ad).hist
    BY <1>0, <1>2
  <2>. HIDE DEF x
  <2> QED
    BY <1>1, <2>1, <2>2
<1>4. CASE UpdateStatus
  <2>. DEFINE x == [me EXCEPT !.exp = Stored(ad).exp, !.phase = rollout]
  <2>1. ad' = ad \/ (current /\ ad' = Append(ad, x))
    BY <1>4 DEF UpdateStatus
  <2>2. x \in Agents
    BY <1>0, AgentTypes
  <2>3. x.exp = Stored(ad).exp /\ x.hist = me.hist
    BY <1>0 DEF Agents
  <2>. HIDE DEF x
  <2> QED
    BY <1>1, <1>4, <2>1, <2>2, <2>3
<1>5. ASSUME NEW e \in {None, Own}, SelectExperiment(e)
      PROVE  /\ Stored(ad') \in Agents
             /\ Stored(ad').exp = e /\ Stored(ad').hist = Stored(ad).hist
             /\ Range(ad') = Range(ad) \cup {Stored(ad')}
  <2>. DEFINE x == [Stored(ad) EXCEPT !.exp = e]
  <2>1. ad' = Append(ad, x)
    BY <1>5 DEF SelectExperiment
  <2>2. x \in Agents /\ x.exp = e /\ x.hist = Stored(ad).hist
    BY <1>0, <1>2
  <2>. HIDE DEF x
  <2> QED
    BY <1>1, <2>1, <2>2
<1>6. ASSUME Restart \/ DeliverAgent
      PROVE  Range(ad') \subseteq Range(ad) /\ Stored(ad') = Stored(ad)
  <2>1. ad' = <<Stored(ad)>> \/ (~InSync(ad) /\ ad' = Tail(ad))
    BY <1>6 DEF Restart, DeliverAgent
  <2>2. Range(<<Stored(ad)>>) \subseteq Range(ad) /\ Stored(<<Stored(ad)>>) = Stored(ad)
    BY AgentFacts
  <2>3. ~InSync(ad) => Range(Tail(ad)) \subseteq Range(ad) /\ Stored(Tail(ad)) = Stored(ad)
    BY AgentFacts
  <2> QED
    BY <2>1, <2>2, <2>3
<1>7. \/ ad' = ad
      \/ PatchExperiment \/ UpdateStatus \/ Restart \/ DeliverAgent
      \/ \E e \in {None, Own} : SelectExperiment(e)
  BY DEF Next, Controller, Optimize, Fetch, NotFired, RunThresholdTuner, RunPromptOptimizer,
         SkipOptimizer, CreateVariant, OptimizerFails, RecordProposals, NothingToTest,
         StartExperiment, EvaluateExperiment, StepFails, DeliverVariant, RolloutEnds
<1> QED
  BY <1>3, <1>4, <1>5, <1>6, <1>7

\* A variant has the phase that was written last.
LEMMA AppendedStored ==
    ASSUME TypeOK, NEW v \in Variants
    PROVE  Stored(Append(pv[v], "")) = ""
<1>1. pv[v] \in Seq(VariantPhases) /\ "" \in VariantPhases
  BY DEF TypeOK, VariantPhases
<1>2. ASSUME NEW S, NEW o \in Seq(S), NEW x \in S PROVE Stored(Append(o, x)) = x
  BY AppendFacts
<1> QED
  BY <1>1, <1>2

\* What a reconcile knows of the experiment survives every step.
LEMMA OptimizerStep ==
    ASSUME TypeOK, OptimizerKnows, Next
    PROVE  OptimizerKnows'
<1>. USE DEF OptimizerKnows, cluster
<1>0. me \in Agents /\ \A v \in Variants : [me EXCEPT !.job = v].exp = me.exp
  BY DEF TypeOK, Agents
<1>1. CASE Fetch
  BY <1>1, AgentFacts DEF Fetch
<1>2. CASE RunThresholdTuner
  <2>1. me'.exp = me.exp
    BY <1>0, <1>2 DEF RunThresholdTuner, Agents
  <2> QED
    BY <1>2, <2>1 DEF RunThresholdTuner
<1>3. CASE CreateVariant
  <2>1. PICK v \in Variants : /\ pv' = [pv EXCEPT ![v] = Append(@, "")]
                              /\ made' = v /\ me' = [me EXCEPT !.job = v]
    BY <1>3 DEF CreateVariant, NextNames, Fresh
  <2>2. Stored(pv'[v]) = ""
    <3>1. /\ pv \in [Variants -> Seq(VariantPhases)] /\ pv[v] \in Seq(VariantPhases)
          /\ "" \in VariantPhases
      BY DEF TypeOK, VariantPhases
    <3>2. pv'[v] = Append(pv[v], "")
      BY <2>1, <3>1
    <3> QED
      BY <2>1, <3>2, AppendedStored
  <2>3. me.exp = None /\ me'.exp = me.exp
    BY <1>0, <1>3, <2>1 DEF CreateVariant, DspyRuns, Blocked
  <2> QED
    BY <1>3, <2>1, <2>2, <2>3 DEF CreateVariant, DspyRuns
<1>4. CASE \/ NotFired \/ RunPromptOptimizer \/ SkipOptimizer \/ OptimizerFails \/ PatchExperiment
           \/ RecordProposals \/ NothingToTest \/ StartExperiment \/ EvaluateExperiment
           \/ UpdateStatus \/ StepFails \/ Restart
  BY <1>4 DEF NotFired, RunPromptOptimizer, SkipOptimizer, OptimizerFails, PatchExperiment,
              RecordProposals, NothingToTest, StartExperiment, EvaluateExperiment, UpdateStatus,
              StepFails, Restart, Return
<1>5. CASE DeliverAgent \/ RolloutEnds
  <2>1. Stored(ad') = Stored(ad) /\ UNCHANGED <<pv, pc, me, made, current>>
    BY <1>5, AgentFacts DEF DeliverAgent, RolloutEnds
  <2> QED
    BY <2>1
<1>6. ASSUME NEW v \in Variants, DeliverVariant(v) PROVE OptimizerKnows'
  <2>1. made \in Variants /\ Exists(made) => Exists(made)'
    BY <1>6, VariantsStay DEF DeliverVariant, Exists
  <2> QED
    BY <1>6, <2>1 DEF DeliverVariant, Exists
<1>7. ASSUME NEW e \in {None, Own}, SelectExperiment(e) PROVE OptimizerKnows'
  BY <1>7 DEF SelectExperiment
<1> QED
  BY <1>1, <1>2, <1>3, <1>4, <1>5, <1>6, <1>7 DEF Next, Controller, Optimize

\* Only the fetch, the patch and the end of a reconcile change the experiment its copy
\* selects.
LEMMA CopyChange ==
    ASSUME TypeOK, Next
    PROVE  \/ me'.exp = me.exp /\ (pc = "idle" => pc' = "idle")
           \/ Fetch \/ PatchExperiment \/ Return
<1>1. me \in Agents
  BY DEF TypeOK
<1>2. ASSUME RunThresholdTuner PROVE me'.exp = me.exp
  BY <1>1, <1>2 DEF RunThresholdTuner, Agents
<1>3. ASSUME CreateVariant PROVE me'.exp = me.exp
  <2>1. PICK v : me' = [me EXCEPT !.job = v]
    BY <1>3 DEF CreateVariant
  <2> QED
    BY <1>1, <2>1 DEF Agents
<1>4. ASSUME RecordProposals PROVE me'.exp = me.exp
  <2>1. PICK h : me' = [me EXCEPT !.hist = h]
    BY <1>4 DEF RecordProposals
  <2> QED
    BY <1>1, <2>1 DEF Agents
<1>5. \/ me' = me /\ (pc = "idle" => pc' = "idle")
      \/ Fetch \/ PatchExperiment \/ Return
      \/ RunThresholdTuner \/ CreateVariant \/ RecordProposals
  BY DEF Next, Controller, Optimize, NotFired, RunPromptOptimizer, SkipOptimizer,
         OptimizerFails, NothingToTest, StartExperiment, EvaluateExperiment, UpdateStatus,
         StepFails, Restart, DeliverAgent, DeliverVariant, SelectExperiment, RolloutEnds,
         DspyRuns
<1>6. RunThresholdTuner \/ CreateVariant \/ RecordProposals => pc # "idle"
  BY DEF RunThresholdTuner, CreateVariant, RecordProposals, DspyRuns
<1> QED
  BY <1>2, <1>3, <1>4, <1>5, <1>6

\* The variants selected go on existing.
LEMMA SelectedStep ==
    ASSUME TypeOK, OptimizerKnows, SelectedExists, Next
    PROVE  SelectedExists'
<1>1. ASSUME NEW v \in Variants, Exists(v) PROVE Exists(v)'
  BY <1>1, VariantsStay
<1>2. ASSUME NEW v \in Range(ad'), v.exp \in Variants PROVE Exists(v.exp)'
  <2>1. CASE v \in Range(ad)
    BY <1>1, <1>2, <2>1 DEF SelectedExists, Exists
  <2>2. CASE v = Stored(ad') /\ pc = "patch" /\ Stored(ad').exp = made
    BY <1>1, <1>2, <2>2 DEF OptimizerKnows, Exists
  <2>3. CASE v = Stored(ad') /\ Stored(ad').exp = Stored(ad).exp
    <3>1. Stored(ad) \in Range(ad)
      BY AgentFacts
    <3> QED
      BY <1>1, <1>2, <2>3, <3>1 DEF SelectedExists, Exists
  <2>4. CASE v = Stored(ad') /\ Stored(ad').exp \in {None, Own}
    BY <1>2, <2>4, NamesAssumption
  <2> QED
    BY <1>2, <2>1, <2>2, <2>3, <2>4, AgentChange
<1>3. ASSUME me'.exp \in Variants PROVE Stored(pv'[me'.exp]) # "absent"
  <2>1. ASSUME me'.exp = me.exp PROVE Stored(pv'[me'.exp]) # "absent"
    BY <1>1, <1>3, <2>1 DEF SelectedExists, Exists
  <2>2. CASE Fetch
    <3>1. Cached(ad) \in Range(ad) /\ me' = Cached(ad)
      BY <2>2, AgentFacts DEF Fetch
    <3> QED
      BY <1>1, <1>3, <3>1 DEF SelectedExists, Exists
  <2>3. CASE PatchExperiment
    <3>1. [me EXCEPT !.exp = made].exp = made
      BY DEF TypeOK, Agents
    <3>2. Decoded([Stored(ad) EXCEPT !.exp = made], me).exp = made
      <4>1. made \in Experiments /\ Stored(ad) \in Agents /\ me \in Agents
        BY AgentFacts DEF TypeOK, Experiments
      <4>2. [Stored(ad) EXCEPT !.exp = made] \in Agents
            /\ [Stored(ad) EXCEPT !.exp = made].exp = made
        BY <4>1, AgentTypes DEF Agents
      <4> QED
        BY <4>1, <4>2, DecodedType
    <3>3. me'.exp = made /\ pc = "patch"
      BY <2>3, <3>1, <3>2 DEF PatchExperiment
    <3> QED
      BY <1>1, <1>3, <3>3 DEF OptimizerKnows, Exists
  <2>4. CASE Return
    BY <1>3, <2>4, NamesAssumption DEF Return, NewAgent
  <2> QED
    BY <2>1, <2>2, <2>3, <2>4, CopyChange
<1> QED
  BY <1>2, <1>3 DEF SelectedExists, Exists

\* What Reconcile knows of the history survives every step.
LEMMA HistoryStep ==
    ASSUME TypeOK, HistoryKnown, Next
    PROVE  HistoryKnown'
<1>0. /\ me \in Agents /\ me.hist \in Histories /\ me.hist \in Seq(Proposals)
      /\ Stored(ad) \in Agents /\ Stored(ad).hist \in Histories
      /\ proposals \in Seq(Proposals)
  BY AgentFacts, AgentTypes DEF TypeOK, Histories
<1>a. ASSUME UNCHANGED <<ad, me, current>>, Recorded' = Recorded,
             Recorded => proposals' = proposals,
             pc' \in {"idle", "tune"} => pc \in {"idle", "tune"} /\ proposals' = proposals
      PROVE  HistoryKnown'
  BY <1>a DEF HistoryKnown
<1>1. CASE Fetch
  <2>1. /\ ad' = ad /\ me' = Cached(ad) /\ proposals' = proposals /\ pc = "idle" /\ pc' = "tune"
        /\ current' => Cached(ad) = Stored(ad)
        /\ Cached(ad) \in Range(ad)
    BY <1>1, AgentFacts DEF Fetch
  <2> QED
    BY <2>1 DEF HistoryKnown, Recorded
<1>2. CASE RunThresholdTuner \/ CreateVariant
  <2>1. \A v : [me EXCEPT !.job = v].hist = me.hist /\ [me EXCEPT !.tuned = TRUE].hist = me.hist
    BY <1>0 DEF Agents
  <2>2. /\ me'.hist = me.hist /\ UNCHANGED <<ad, current>>
        /\ pc \in {"tune", "prompt"} /\ pc' \in {"prompt", "patch"}
    BY <1>2, <2>1 DEF RunThresholdTuner, CreateVariant, DspyRuns
  <2> QED
    BY <2>2 DEF HistoryKnown, Recorded
<1>3. CASE PatchExperiment
  <2>. DEFINE x == [Stored(ad) EXCEPT !.exp = made]
  <2>0. pc = "patch" /\ pc' = "upgrade"
    BY <1>3 DEF PatchExperiment
  <2>1. x \in Agents /\ x.hist = Stored(ad).hist
    <3>1. made \in Experiments
      BY DEF TypeOK, Experiments
    <3> QED
      BY <1>0, <3>1, AgentTypes DEF Agents
  <2>2. CASE ad' = Append(ad, x) /\ me' = Decoded(x, me)
    <3>. HIDE DEF x
    <3>1. Stored(ad') = x /\ Range(ad') = Range(ad) \cup {x}
      BY <2>1, <2>2, AgentFacts
    <3>2. me'.hist = IF x.hist = <<>> THEN me.hist ELSE x.hist
      BY <1>0, <2>1, <2>2, DecodedType
    <3>3. x.hist = <<>> => me.hist = <<>> /\ \A v \in Range(ad) : v.hist = <<>>
      BY <2>0, <2>1 DEF HistoryKnown, Recorded
    <3>4. me'.hist = Stored(ad').hist
      BY <3>1, <3>2, <3>3
    <3>5. Stored(ad').hist = <<>> => \A v \in Range(ad') : v.hist = <<>>
      BY <3>1, <3>3
    <3> QED
      BY <2>0, <3>4, <3>5 DEF HistoryKnown, Recorded
  <2>3. CASE me' = [me EXCEPT !.exp = made] /\ UNCHANGED <<ad, current>>
    <3>1. me'.hist = me.hist
      BY <1>0, <2>3 DEF Agents
    <3> QED
      BY <2>0, <2>3, <3>1 DEF HistoryKnown, Recorded
  <2> QED
    BY <1>3, <2>2, <2>3 DEF PatchExperiment
<1>4. CASE RecordProposals
  <2>1. PICK upgrade \in {<<>>, <<<<"model-upgrader", None>>>>} :
               /\ proposals' = proposals \o upgrade
               /\ me' = [me EXCEPT !.hist = Ring(@ \o proposals \o upgrade)]
    BY <1>4 DEF RecordProposals
  <2>2. upgrade \in Seq(Proposals)
    <3>1. <<"model-upgrader", None>> \in Proposals
      BY DEF Proposals, Strategies, Experiments
    <3>2. <<<<"model-upgrader", None>>>> \in Seq(Proposals) /\ <<>> \in Seq(Proposals)
      BY <3>1
    <3> QED
      BY <2>1, <3>2
  <2>3. /\ proposals \o upgrade \in Seq(Proposals)
        /\ me.hist \o proposals \o upgrade = me.hist \o (proposals \o upgrade)
    <3>1. proposals \in Seq(Proposals) /\ me.hist \in Seq(Proposals)
      BY <1>0
    <3>2. \A p, q, u \in Seq(Proposals) : q \o u \in Seq(Proposals) /\ (p \o q) \o u = p \o (q \o u)
      BY ConcatProperties, ConcatAssociative
    <3> QED
      BY <2>2, <3>1, <3>2
  <2>4. me'.hist = Ring(me.hist \o proposals')
    BY <1>0, <2>1, <2>3 DEF Agents
  <2>5. Extended(me.hist, proposals', me'.hist)
    BY <1>0, <2>1, <2>3, <2>4, RingExtends
  <2>6. UNCHANGED <<ad, current>> /\ pc = "upgrade" /\ pc' = "experiment"
    BY <1>4 DEF RecordProposals
  <2>7. current => me.hist = Stored(ad).hist
    BY <2>6 DEF HistoryKnown, Recorded
  <2> QED
    BY <2>5, <2>6, <2>7 DEF HistoryKnown, Recorded
<1>5. CASE NotFired
  <2>1. /\ UNCHANGED <<ad, me, current, proposals>> /\ proposals = <<>>
        /\ pc = "tune" /\ pc' = "experiment"
    BY <1>5 DEF NotFired, HistoryKnown
  <2>2. current => Extended(Stored(ad).hist, proposals, me.hist)
    BY <1>0, <2>1, ExtendedFacts DEF HistoryKnown, Recorded
  <2> QED
    BY <2>1, <2>2 DEF HistoryKnown, Recorded
<1>6. CASE Return
  <2>1. /\ pc' = "idle" /\ ~current' /\ proposals' = <<>> /\ me'.hist = <<>>
    BY <1>6 DEF Return, NewAgent
  <2>2. Stored(ad').hist = <<>> => \A v \in Range(ad') : v.hist = <<>>
    <3>1. CASE Range(ad') \subseteq Range(ad) /\ Stored(ad') = Stored(ad)
      BY <3>1 DEF HistoryKnown
    <3>2. CASE /\ UpdateStatus /\ current /\ Stored(ad').hist = me.hist
               /\ Range(ad') = Range(ad) \cup {Stored(ad')}
      <4>1. Extended(Stored(ad).hist, proposals, me.hist)
        BY <3>2 DEF UpdateStatus, HistoryKnown, Recorded
      <4>2. me.hist = <<>> => Stored(ad).hist = <<>>
        BY <1>0, <4>1, ExtendedFacts
      <4>3. me.hist = <<>> => \A v \in Range(ad) : v.hist = <<>>
        BY <4>2 DEF HistoryKnown
      <4> QED
        BY <3>2, <4>3
    <3>3. CASE /\ Stored(ad').hist = Stored(ad).hist
               /\ Range(ad') = Range(ad) \cup {Stored(ad')}
      BY <3>3 DEF HistoryKnown
    <3> QED
      BY <3>1, <3>2, <3>3, AgentChange
  <2> QED
    BY <2>1, <2>2 DEF HistoryKnown, Recorded
<1>7. ASSUME NEW e \in {None, Own}, SelectExperiment(e) PROVE HistoryKnown'
  <2>. DEFINE x == [Stored(ad) EXCEPT !.exp = e]
  <2>1. x \in Agents /\ x.hist = Stored(ad).hist
    <3>1. e \in Experiments
      BY DEF Experiments
    <3> QED
      BY <1>0, <3>1, AgentTypes DEF Agents
  <2>2. ad' = Append(ad, x) /\ ~current' /\ UNCHANGED <<pc, me, proposals>>
    BY <1>7 DEF SelectExperiment
  <2>. HIDE DEF x
  <2>3. Stored(ad') = x /\ Range(ad') = Range(ad) \cup {x}
    BY <2>1, <2>2, AgentFacts
  <2> QED
    BY <2>1, <2>2, <2>3 DEF HistoryKnown, Recorded
<1>8. CASE DeliverAgent
  <2>1. /\ Stored(ad') = Stored(ad) /\ Range(ad') \subseteq Range(ad)
        /\ UNCHANGED <<pc, me, current, proposals>>
    BY <1>8, AgentFacts DEF DeliverAgent
  <2> QED
    BY <2>1 DEF HistoryKnown, Recorded
<1>9. CASE RunPromptOptimizer \/ SkipOptimizer \/ OptimizerFails
  <2>1. /\ UNCHANGED <<ad, me, current>> /\ pc = "prompt" /\ pc' = "upgrade"
    BY <1>9 DEF RunPromptOptimizer, SkipOptimizer, OptimizerFails, DspyRuns
  <2> QED
    BY <1>a, <2>1 DEF Recorded
<1>10. CASE NothingToTest \/ StartExperiment \/ EvaluateExperiment
  <2>1. /\ UNCHANGED <<ad, me, current, proposals>> /\ pc = "experiment" /\ pc' = "status"
    BY <1>10 DEF NothingToTest, StartExperiment, EvaluateExperiment
  <2> QED
    BY <1>a, <2>1 DEF Recorded
<1>11. CASE RolloutEnds \/ \E v \in Variants : DeliverVariant(v)
  <2>1. UNCHANGED <<ad, me, current, proposals, pc>>
    BY <1>11 DEF RolloutEnds, DeliverVariant
  <2> QED
    BY <1>a, <2>1 DEF Recorded
<1>12. UpdateStatus \/ StepFails \/ Restart => Return
  BY DEF UpdateStatus, StepFails, Restart
<1> QED
  BY <1>1, <1>2, <1>3, <1>4, <1>5, <1>6, <1>7, <1>8, <1>9, <1>10, <1>11, <1>12
     DEF Next, Controller, Optimize

\* What reconciles know of the experiment and the history is inductive with what there is.
THEOREM InductiveInvariant == Spec => [](OptimizerKnows /\ SelectedExists /\ HistoryKnown)
<1>. DEFINE Inv == OptimizerKnows /\ SelectedExists /\ HistoryKnown
<1>1. Init => Inv
  <2> SUFFICES ASSUME Init PROVE Inv
    OBVIOUS
  <2>1. PICK opt \in Options : ad = <<NewAgent(opt)>> /\ me = NewAgent(opt)
    BY DEF Init
  <2>2. NewAgent(opt).exp = None /\ Range(<<NewAgent(opt)>>) = {NewAgent(opt)}
    <3>1. ASSUME NEW x PROVE Range(<<x>>) = {x}
      BY DEF Range
    <3> QED
      BY <3>1 DEF NewAgent
  <2>3. SelectedExists
    BY <2>1, <2>2, NamesAssumption DEF SelectedExists
  <2>4. NewAgent(opt).hist = <<>> /\ pc = "idle" /\ ~current /\ proposals = <<>>
    BY DEF NewAgent, Init
  <2>5. HistoryKnown
    BY <2>1, <2>2, <2>4 DEF HistoryKnown
  <2> QED
    BY <2>3, <2>5 DEF Init, OptimizerKnows
<1>2. TypeOK /\ Inv /\ Next => Inv'
  BY OptimizerStep, SelectedStep, HistoryStep
<1>3. Inv /\ UNCHANGED vars => Inv'
  BY DEF OptimizerKnows, SelectedExists, HistoryKnown, Recorded, vars, cluster
<1> QED
  BY <1>1, <1>2, <1>3, TypeInvariant, PTL DEF Spec

\* No version or copy of the agent selects a variant of the optimizer's before it exists.
THEOREM SelectedVariantExists == Spec => []SelectedExists
<1>1. OptimizerKnows /\ SelectedExists /\ HistoryKnown => SelectedExists
  OBVIOUS
<1> QED
  BY <1>1, InductiveInvariant, PTL

\* The optimizer replaces no experiment that the running reconcile has fetched and the
\* cache can no longer fail to show, whatever fails, restarts or arrives late.
THEOREM ExperimentKept == Spec => SeenExperimentKept
<1>1. ASSUME TypeOK, OptimizerKnows, Next, ExperimentSeen, edits' = edits
      PROVE  ExperimentSeen' /\ Stored(ad').exp = Stored(ad).exp
  <2>1. pc # "patch"
    BY <1>1 DEF OptimizerKnows, ExperimentSeen
  <2>2. ~\E e \in {None, Own} : SelectExperiment(e)
    <3>1. edits \in Nat
      BY <1>1, BoundsAssumption DEF TypeOK
    <3> QED
      BY <1>1, <3>1 DEF SelectExperiment
  <2>3. \/ Range(ad') \subseteq Range(ad) /\ Stored(ad') = Stored(ad)
        \/ /\ Stored(ad').exp = Stored(ad).exp
           /\ Range(ad') = Range(ad) \cup {Stored(ad')}
    BY <1>1, <2>1, <2>2, AgentChange
  <2>4. Stored(ad').exp = Stored(ad).exp /\ \A v \in Range(ad') : v.exp = Stored(ad).exp
    BY <1>1, <2>3 DEF ExperimentSeen
  <2>5. pc' # "idle" => me'.exp = Stored(ad).exp
    <3>1. CASE me'.exp = me.exp /\ (pc = "idle" => pc' = "idle")
      BY <1>1, <3>1 DEF ExperimentSeen
    <3>2. CASE Fetch
      <4>1. me' = Cached(ad) /\ Cached(ad) \in Range(ad)
        BY <1>1, <3>2, AgentFacts DEF Fetch
      <4> QED
        BY <1>1, <4>1 DEF ExperimentSeen
    <3>3. CASE Return
      BY <3>3 DEF Return
    <3> QED
      BY <1>1, <2>1, <3>1, <3>2, <3>3, CopyChange DEF PatchExperiment
  <2> QED
    BY <1>1, <2>4, <2>5 DEF ExperimentSeen
<1>2. TypeOK /\ OptimizerKnows /\ [Next]_vars =>
        [ExperimentSeen /\ edits' = edits
           => ExperimentSeen' /\ Stored(ad').exp = Stored(ad).exp]_vars
  BY <1>1
<1> QED
  BY <1>2, TypeInvariant, InductiveInvariant, PTL DEF Spec, SeenExperimentKept

\* The stored history is what it was with the proposals of the reconcile that writes it
\* added, less the oldest entries of a full ring, for any length of the ring, although
\* a stale copy may become current by the patch.
THEOREM HistoryKept == Spec => NoProposalForgotten
<1>1. ASSUME TypeOK, HistoryKnown, Next, Stored(ad').hist # Stored(ad).hist
      PROVE  Extended(Stored(ad).hist, proposals, Stored(ad').hist)
  <2>1. UpdateStatus /\ current /\ Stored(ad').hist = me.hist
    BY <1>1, AgentChange
  <2>2. Recorded
    BY <2>1 DEF UpdateStatus, Recorded
  <2> QED
    BY <1>1, <2>1, <2>2 DEF HistoryKnown
<1>2. TypeOK /\ HistoryKnown /\ [Next]_vars =>
        [Stored(ad').hist # Stored(ad).hist
           => Extended(Stored(ad).hist, proposals, Stored(ad').hist)]_vars
  BY <1>1
<1> QED
  BY <1>2, TypeInvariant, InductiveInvariant, PTL DEF Spec, NoProposalForgotten

=============================================================================
