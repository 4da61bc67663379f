---------------------------- MODULE SharedTemplates ----------------------------
(***************************************************************************)
(* The AnalysisTemplates of one namespace, which its agents share by name: *)
(* steps 3 to 3.3 of Reconcile and the Rollout that follows them.          *)
(*                                                                         *)
(* Step 3 reconciles the managed templates that the rollout steps refer    *)
(* to, and its error ends the reconcile; steps 3.1 to 3.3 reconcile those  *)
(* for the judge, the tools and the memory, and their errors are logged.   *)
(* A template has one controller, the agent that created it; an unlabelled *)
(* one is the user's.  Reconciles of different agents run side by side.    *)
(***************************************************************************)
EXTENDS Integers, Sequences, InformerCache

CONSTANTS
    Agents,        \* the AgentDeployments of the namespace
    Basic,         \* agent-quality-check and agent-cost-check
    Optional,      \* agent-judge-check, agent-tool-check, agent-memory-check
    Choices,       \* what a spec may call for
    None,          \* no agent
    MaxEdits,      \* bound: what the user does
    MaxFaults,     \* bound: failed calls and restarts
    MaxLag         \* bound: the versions of a template a cache may be behind by

\* managedAnalysisTemplates.
Names == Basic \cup Optional

\* steps: the templates that rollout.steps refer to; features: those that the
\* evaluation, the tools and the memory of the spec call for.
Calls == [steps : SUBSET Names, features : SUBSET Optional]

ASSUME NamesAssumption == None \notin Agents /\ Basic \cap Optional = {}
ASSUME ChoicesAssumption == Choices \subseteq Calls
ASSUME BoundsAssumption == MaxEdits \in Nat /\ MaxFaults \in Nat /\ MaxLag \in Nat

VARIABLES
    agent,     \* versions of each AgentDeployment, cached first, stored last
    tmpl,      \* versions of each AnalysisTemplate
    rolled,    \* the generation each agent's Rollout was written from, 0 for none
    work,      \* each agent's reconcile
    edits, faults

vars == <<agent, tmpl, rolled, work, edits, faults>>

Deployments == [live : BOOLEAN, gen : Nat, calls : Calls]

\* "managed" is what buildManagedTemplateSpec gives the name, "own" what steps 3.1 to
\* 3.3 give theirs; managed: the label; owner: the controller reference.
Contents == {"managed", "own", "users"}
Templates ==
    [live : BOOLEAN, managed : BOOLEAN, owner : Agents \cup {None}, spec : Contents]

\* A template to be reconciled, and with what.
Jobs == [name : Names, spec : {"managed", "own"}]

\* me: the copy of the agent; todo: what is left of steps 3 to 3.3; at: the template of
\* step 3 that has been looked up.
Reconciles == [busy : BOOLEAN, me : Deployments, todo : SUBSET Jobs, at : SUBSET Jobs]

NewAgent(calls) == [live |-> TRUE, gen |-> 1, calls |-> calls]
NoAgent == [live |-> FALSE, gen |-> 0, calls |-> [steps |-> {}, features |-> {}]]
NoTemplate == [live |-> FALSE, managed |-> FALSE, owner |-> None, spec |-> "users"]
Idle == [busy |-> FALSE, me |-> NoAgent, todo |-> {}, at |-> {}]

Init ==
    /\ \E calls \in [Agents -> Choices] :
         agent = [a \in Agents |-> <<NewAgent(calls[a])>>]
    /\ tmpl = [t \in Names |-> <<NoTemplate>>]
    /\ rolled = [a \in Agents |-> 0]
    /\ work = [a \in Agents |-> Idle]
    /\ edits = 0 /\ faults = 0

Fault == faults < MaxFaults /\ faults' = faults + 1

(***************************************************************************)
(* Reconcile.                                                              *)
(***************************************************************************)

Return(a) == work' = [work EXCEPT ![a] = Idle]

JobsOf(calls) ==
    [name : calls.steps, spec : {"managed"}] \cup [name : calls.features, spec : {"own"}]

\* Mutant: every managed template is reconciled, called for or not.
FetchForAll(a) ==
    /\ ~work[a].busy
    /\ Cached(agent[a]).live
    /\ work' = [work EXCEPT ![a] =
                  [busy |-> TRUE, me |-> Cached(agent[a]),
                   todo |-> [name : Names, spec : {"managed"}], at |-> {}]]
    /\ UNCHANGED <<agent, tmpl, rolled, edits, faults>>

Fetch(a) ==
    /\ ~work[a].busy
    /\ Cached(agent[a]).live
    /\ work' = [work EXCEPT ![a] =
                  [busy |-> TRUE, me |-> Cached(agent[a]),
                   todo |-> JobsOf(Cached(agent[a]).calls), at |-> {}]]
    /\ UNCHANGED <<agent, tmpl, rolled, edits, faults>>

\* Step 3 takes its templates in the order a Go map gives.
LookUp(a, j) == work[a].at = {} /\ j \in work[a].todo /\ j.spec = "managed"

UsersOwn(template) == template.live /\ ~template.managed

Done(a, j) == work' = [work EXCEPT ![a].todo = @ \ {j}, ![a].at = {}]

SkipUsersOwn(a, j) ==
    /\ LookUp(a, j)
    /\ UsersOwn(Cached(tmpl[j.name]))
    /\ Done(a, j)
    /\ UNCHANGED <<agent, tmpl, rolled, edits, faults>>

TakeUp(a, j) ==
    /\ LookUp(a, j)
    /\ ~UsersOwn(Cached(tmpl[j.name]))
    /\ work' = [work EXCEPT ![a].at = {j}]
    /\ UNCHANGED <<agent, tmpl, rolled, edits, faults>>

\* CreateOrUpdate is next for j: looked up by step 3, or of the steps after it, where
\* nobody asks whose the template is.
Ready(a, j) ==
    IF j.spec = "managed"
      THEN j \in work[a].at
      ELSE j \in work[a].todo /\ \A k \in work[a].todo : k.spec = "own"

Wanted(a, j) == [live |-> TRUE, managed |-> TRUE, owner |-> a, spec |-> j.spec]

\* Mutant: the update is forced.
AcceptedForced(a, j) == Cached(tmpl[j.name]).owner \in {None, a}

\* CreateOrUpdate goes through: SetControllerReference finds no other controller, and
\* nothing is to be written or nobody wrote since the cached version.
Accepted(a, j) ==
    /\ Cached(tmpl[j.name]).owner \in {None, a}
    /\ IF Cached(tmpl[j.name]).live
         THEN Cached(tmpl[j.name]) = Wanted(a, j) \/ InSync(tmpl[j.name])
         ELSE ~Stored(tmpl[j.name]).live

ApplyTemplate(a, j) ==
    /\ Ready(a, j)
    /\ Accepted(a, j)
    /\ tmpl' = IF Cached(tmpl[j.name]) = Wanted(a, j) THEN tmpl
                 ELSE [tmpl EXCEPT ![j.name] = Append(@, Wanted(a, j))]
    /\ Done(a, j)
    /\ UNCHANGED <<agent, rolled, edits, faults>>

\* Mutant: an optional template is as fatal as a required one.
GiveUpOnAny(a, j) ==
    /\ Ready(a, j)
    /\ ~Accepted(a, j)
    /\ Return(a)
    /\ UNCHANGED <<agent, tmpl, rolled, edits, faults>>

\* AlreadyOwnedError, AlreadyExists or a conflict: Reconcile returns the error of step 3
\* and logs that of a later one.
GiveUp(a, j) ==
    /\ Ready(a, j)
    /\ ~Accepted(a, j)
    /\ IF j.spec = "managed" THEN Return(a) ELSE Done(a, j)
    /\ UNCHANGED <<agent, tmpl, rolled, edits, faults>>

\* Steps 4 to 6, which AgentReconciler has in full.
RollOut(a) ==
    /\ work[a].busy /\ work[a].todo = {}
    /\ rolled' = [rolled EXCEPT ![a] = work[a].me.gen]
    /\ Return(a)
    /\ UNCHANGED <<agent, tmpl, edits, faults>>

\* An API call of a step whose error Reconcile returns fails.
StepFails(a) ==
    /\ work[a].busy
    /\ Fault
    /\ Return(a)
    /\ UNCHANGED <<agent, tmpl, rolled, edits>>

\* The operator restarts and lists the objects afresh.
Restart ==
    /\ Fault
    /\ agent' = [a \in Agents |-> <<Stored(agent[a])>>]
    /\ tmpl' = [t \in Names |-> <<Stored(tmpl[t])>>]
    /\ work' = [a \in Agents |-> Idle]
    /\ UNCHANGED <<rolled, edits>>

DeliverAgent(a) ==
    /\ ~InSync(agent[a])
    /\ agent' = [agent EXCEPT ![a] = Tail(@)]
    /\ UNCHANGED <<tmpl, rolled, work, edits, faults>>

DeliverTemplate(t) ==
    /\ ~InSync(tmpl[t])
    /\ tmpl' = [tmpl EXCEPT ![t] = Tail(@)]
    /\ UNCHANGED <<agent, rolled, work, edits, faults>>

(***************************************************************************)
(* The user and the garbage collector.                                     *)
(***************************************************************************)

UserActs == edits < MaxEdits /\ edits' = edits + 1

EditSpec(a) ==
    /\ UserActs
    /\ Stored(agent[a]).live
    /\ \E calls \in Choices \ {Stored(agent[a]).calls} :
         LET new == [Stored(agent[a]) EXCEPT !.calls = calls, !.gen = @ + 1]
         IN  agent' = [agent EXCEPT ![a] = Append(@, new)]
    /\ UNCHANGED <<tmpl, rolled, work, faults>>

\* The object is gone: what its finalizer does first is AgentReconciler's.
DeleteAgent(a) ==
    /\ UserActs
    /\ Stored(agent[a]).live
    /\ agent' = [agent EXCEPT ![a] = Append(@, [Stored(@) EXCEPT !.live = FALSE])]
    /\ UNCHANGED <<tmpl, rolled, work, faults>>

\* A template of the user's own under one of the names.
CreateTemplate(t) ==
    /\ UserActs
    /\ ~Stored(tmpl[t]).live
    /\ tmpl' = [tmpl EXCEPT ![t] = Append(@, [NoTemplate EXCEPT !.live = TRUE])]
    /\ UNCHANGED <<agent, rolled, work, faults>>

DeleteTemplate(t) ==
    /\ UserActs
    /\ Stored(tmpl[t]).live
    /\ tmpl' = [tmpl EXCEPT ![t] = Append(@, NoTemplate)]
    /\ UNCHANGED <<agent, rolled, work, faults>>

Orphan(template) == template.owner \in Agents /\ ~Stored(agent[template.owner]).live

CollectGarbage(t) ==
    /\ Orphan(Stored(tmpl[t]))
    /\ Len(tmpl[t]) <= MaxLag
    /\ tmpl' = [tmpl EXCEPT ![t] = Append(@, NoTemplate)]
    /\ UNCHANGED <<agent, rolled, work, edits, faults>>

Apply(a) ==
    \/ \E j \in Jobs : SkipUsersOwn(a, j) \/ TakeUp(a, j) \/ ApplyTemplate(a, j) \/ GiveUp(a, j)
    \/ RollOut(a)

Informers ==
    \/ \E a \in Agents : DeliverAgent(a)
    \/ \E t \in Names : DeliverTemplate(t)

User ==
    \/ \E a \in Agents : EditSpec(a) \/ DeleteAgent(a)
    \/ \E t \in Names : CreateTemplate(t) \/ DeleteTemplate(t)

Next ==
    \/ \E a \in Agents : Fetch(a) \/ Apply(a) \/ StepFails(a)
    \/ Restart \/ Informers \/ User
    \/ \E t \in Names : CollectGarbage(t)

Spec == Init /\ [][Next]_vars

\* Every key is reconciled over and over; watches and the garbage collector keep going.
Fairness ==
    /\ \A a \in Agents : WF_vars(Fetch(a)) /\ WF_vars(Apply(a)) /\ WF_vars(DeliverAgent(a))
    /\ \A t \in Names : WF_vars(DeliverTemplate(t)) /\ WF_vars(CollectGarbage(t))

FairSpec == Spec /\ Fairness

(***************************************************************************)
(* Properties.                                                             *)
(***************************************************************************)

\* The variables' types; a reconcile applies what its copy of the agent calls for.
TypeOK ==
    /\ agent \in [Agents -> Seq(Deployments)] /\ \A a \in Agents : Len(agent[a]) > 0
    /\ tmpl \in [Names -> Seq(Templates)] /\ \A t \in Names : Len(tmpl[t]) > 0
    /\ rolled \in [Agents -> Nat]
    /\ work \in [Agents -> Reconciles]
    /\ \A a \in Agents :
         /\ work[a].todo \subseteq JobsOf(work[a].me.calls)
         /\ work[a].at \subseteq work[a].todo
    /\ edits \in 0..MaxEdits /\ faults \in 0..MaxFaults

\* No agent takes a template over from another one, however stale its cache: a
\* template changes hands by being deleted only.
OwnerKept ==
    [][\A t \in Names :
         /\ Stored(tmpl[t]).live /\ Stored(tmpl'[t]).live
         /\ Stored(tmpl[t]).owner \in Agents
         => Stored(tmpl'[t]).owner = Stored(tmpl[t]).owner]_vars

\* Another agent owns a template the rollout steps refer to: SetControllerReference
\* fails for as long as that agent exists, even if it no longer wants it.
HeldByAnother(a) ==
    \E t \in Stored(agent[a]).calls.steps :
        Stored(tmpl[t]).live /\ Stored(tmpl[t]).owner \notin {a, None}

\* Nothing else keeps an agent from being rolled out: neither the optional templates
\* ("evaluation is optional and must never block rollouts"), nor a template of the
\* user's, nor one left by an agent that is gone.
OnlyAnOwnerBlocks ==
    \A a \in Agents :
        <>[](Stored(agent[a]).live /\ ~HeldByAnother(a))
          => <>[](rolled[a] = Stored(agent[a]).gen)

\* Evaluation: "When set, the controller creates an agent-judge-check AnalysisTemplate
\* that scores canary responses with an LLM": the template the agent owns ends up with
\* the judge in it.
JudgeStaysInTemplate ==
    \A a \in Agents, t \in Optional :
        <>[](/\ Stored(agent[a]).live /\ t \in Stored(agent[a]).calls.features
             /\ Stored(tmpl[t]).live /\ Stored(tmpl[t]).owner = a)
          => <>[](Stored(tmpl[t]).spec = "own")

=============================================================================
