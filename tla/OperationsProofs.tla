-------------------------- MODULE OperationsProofs ---------------------------
(***************************************************************************)
(* The staged cutover earns its authority for every set of flag envelopes, *)
(* contexts, policies and concurrent requests and every length of history. *)
(*                                                                         *)
(* Incidents are alerted and audited as IncidentsAreAudited says for any   *)
(* callers.  That two alerts are apart is not inductive: the invariant also*)
(* covers the alerts that callers still owe (Spaced).  The cooldown of the *)
(* row reaches past each alert sent and each alert owed, and a row that    *)
(* does not exist has neither, which is why the loser of two first raises  *)
(* may fail without a trace.                                               *)
(*                                                                         *)
(* Parity verdicts are what ParityIsJudged says for any policies and       *)
(* contexts, as long as a population has no more contexts than a rate has  *)
(* basis points: beyond that one divergence would round to a rate of zero. *)
(*                                                                         *)
(* StreamsAreOwned holds of any symbols, goroutines and subscriptions.  It *)
(* is not inductive: a subscription in hand is nobody else's (HandedOver), *)
(* and a reconciliation that is alone has a worker for what it took, or is *)
(* about to (AloneIsRight).                                                *)
(*                                                                         *)
(* MonitorsMissNothing holds of any evaluators, prices and settings: of    *)
(* those that judge at once, the one that wrote last judges what is in the *)
(* row (WriterJudges).                                                     *)
(***************************************************************************)
EXTENDS Cutover, Incidents, Parity, PositionWorkers, PositionMarks, FiniteSetTheorems,
        SequenceTheorems, TLAPS

Rows == [source : Envelopes, target : Envelopes, deployment : 0 .. MaxDeployments,
         request : Requests]

\* The history is a sequence of rows, each with the envelope of its request.
History ==
    /\ transitions \in Seq(Rows) /\ Len(transitions) <= MaxTransitions + 1
    /\ \A i \in DOMAIN transitions :
         LET t == transitions[i] IN
         t.target = authorityEnvelope(t.target.stage, t.target.flags, t.target.flags.context)

\* The state row is the last row of the history; the first row is the safe
\* bootstrap, whose flags stay declared.
StateIsLast ==
    IF state = Nobody THEN transitions = <<>> /\ populations = {} /\ active = Nobody
    ELSE /\ Len(transitions) > 0 /\ SafeFlags \in declared
         /\ state.transition = Len(transitions) /\ state.version = Len(transitions)
         /\ state.envelope = transitions[Len(transitions)].target
         /\ transitions[1].target = authorityEnvelope("schema_legacy", SafeFlags, NoContext)
         /\ ~transitions[1].request.rollback

\* Populations and answers that wait for their activation name a row.
NamesRows ==
    /\ \A p \in populations : /\ p.attempt \in DOMAIN transitions
                              /\ p.flags = transitions[p.attempt].target.flags
    /\ \A s \in Sessions : sessions[s] # Nobody => sessions[s] \in DOMAIN transitions

\* Row i accepts parity on a population that passed, and no later row falls
\* below that stage.
Accepts(i) ==
    /\ transitions[i].target.stage = "parity_accepted"
    /\ \A j \in DOMAIN transitions :
         j > i => ~Before(transitions[j].target.stage, "parity_accepted")
    /\ LET p == transitions[i].request.population IN
       /\ p \in passed /\ p.attempt = i - 1
       /\ transitions[p.attempt].target.flags = p.flags
       /\ p.flags.engine = "shadow" /\ p.flags.dual = "observe"

\* From parity_accepted on, not only once the authority is no longer legacy.
Accepted ==
    state # Nobody /\ ~Before(state.envelope.stage, "parity_accepted") =>
        \E i \in DOMAIN transitions : Accepts(i)

IInv == TypeOK /\ History /\ StateIsLast /\ NamesRows /\ Accepted /\ RollbackRestores

-----------------------------------------------------------------------------
\* The order of the ten stages.
LEMMA StageNumbers ==
    /\ stageIndex("schema_legacy") = 1 /\ stageIndex("research_ingestion") = 2
    /\ stageIndex("ledger_compare") = 3 /\ stageIndex("shared_shadow") = 4
    /\ stageIndex("parity_accepted") = 5 /\ stageIndex("new_paper") = 6
    /\ stageIndex("paper_observation") = 7 /\ stageIndex("research_validation") = 8
    /\ stageIndex("limited_live") = 9 /\ stageIndex("legacy_removal_eligible") = 10
    /\ Stages = {"schema_legacy", "research_ingestion", "ledger_compare", "shared_shadow",
                 "parity_accepted", "new_paper", "paper_observation", "research_validation",
                 "limited_live", "legacy_removal_eligible"}
<1>1. DOMAIN stages = 1 .. 10
  BY DEF stages
<1>2. /\ stages[1] = "schema_legacy" /\ stages[2] = "research_ingestion"
      /\ stages[3] = "ledger_compare" /\ stages[4] = "shared_shadow"
      /\ stages[5] = "parity_accepted" /\ stages[6] = "new_paper"
      /\ stages[7] = "paper_observation" /\ stages[8] = "research_validation"
      /\ stages[9] = "limited_live" /\ stages[10] = "legacy_removal_eligible"
  BY DEF stages
<1>3. \A i \in 1 .. 10 : i = 1 \/ i = 2 \/ i = 3 \/ i = 4 \/ i = 5 \/ i = 6 \/ i = 7 \/ i = 8
                         \/ i = 9 \/ i = 10
  OBVIOUS
<1>4. ASSUME NEW k \in 1 .. 10 PROVE stageIndex(stages[k]) = k
  <2>1. \A i \in DOMAIN stages : stages[i] = stages[k] => i = k
    BY <1>1, <1>2, <1>3
  <2>2. stageIndex(stages[k]) \in DOMAIN stages /\ stages[stageIndex(stages[k])] = stages[k]
    BY <1>1 DEF stageIndex
  <2> QED BY <2>1, <2>2
<1>5. 1 \in 1 .. 10 /\ 2 \in 1 .. 10 /\ 3 \in 1 .. 10 /\ 4 \in 1 .. 10 /\ 5 \in 1 .. 10
      /\ 6 \in 1 .. 10 /\ 7 \in 1 .. 10 /\ 8 \in 1 .. 10 /\ 9 \in 1 .. 10 /\ 10 \in 1 .. 10
  OBVIOUS
<1>6. /\ stageIndex(stages[1]) = 1 /\ stageIndex(stages[2]) = 2 /\ stageIndex(stages[3]) = 3
      /\ stageIndex(stages[4]) = 4 /\ stageIndex(stages[5]) = 5 /\ stageIndex(stages[6]) = 6
      /\ stageIndex(stages[7]) = 7 /\ stageIndex(stages[8]) = 8 /\ stageIndex(stages[9]) = 9
      /\ stageIndex(stages[10]) = 10
  BY <1>4, <1>5
<1>7. Stages = {"schema_legacy", "research_ingestion", "ledger_compare", "shared_shadow",
                 "parity_accepted", "new_paper", "paper_observation", "research_validation",
                 "limited_live", "legacy_removal_eligible"}
  BY <1>1, <1>2, <1>3, <1>5 DEF Stages
<1> QED BY <1>2, <1>6, <1>7

\* The envelope of a stage is an envelope of the model.
LEMMA EnvelopeType ==
    ASSUME CutoverAssumption, NEW s \in Stages, NEW f \in Snapshots
    PROVE  /\ authorityEnvelope(s, f, f.context) \in Envelopes
           /\ authorityEnvelope(s, f, f.context).stage = s
           /\ authorityEnvelope(s, f, f.context).flags = f
           /\ authorityEnvelope(s, f, f.context).authority = "legacy" => Before(s, "new_paper")
           /\ ~Before(s, "new_paper") => authorityEnvelope(s, f, f.context).authority # "legacy"
           /\ engineForStage(s) \in {"legacy", "shadow_compare", "shared"}
<1>1. authorityForStage(s) \in Authorities
  BY DEF authorityForStage, Authorities
<1>2. f.context \in Contexts \cup {NoContext}
  BY DEF CutoverAssumption
<1>3. ~Before("limited_live", "new_paper")
  BY StageNumbers DEF Before
<1>4. (authorityForStage(s) = "legacy") <=> Before(s, "new_paper")
  BY <1>3 DEF authorityForStage
<1>5. engineForStage(s) \in {"legacy", "shadow_compare", "shared"}
  BY DEF engineForStage
<1> QED BY <1>1, <1>2, <1>4, <1>5 DEF authorityEnvelope, Envelopes

LEMMA SafeEnvelope ==
    ASSUME CutoverAssumption
    PROVE  /\ SafeFlags \in Snapshots /\ SafeFlags.context = NoContext
           /\ authorityEnvelope("schema_legacy", SafeFlags, NoContext) \in Envelopes
           /\ authorityEnvelope("schema_legacy", SafeFlags, NoContext).authority = "legacy"
<1>1. SafeFlags \in Snapshots /\ SafeFlags.context = NoContext /\ "schema_legacy" \in Stages
  BY StageNumbers DEF CutoverAssumption, SafeFlags
<1>2. Before("schema_legacy", "new_paper")
  BY StageNumbers DEF Before
<1>3. authorityEnvelope("schema_legacy", SafeFlags, SafeFlags.context) \in Envelopes
  BY <1>1, EnvelopeType
<1>4. authorityEnvelope("schema_legacy", SafeFlags, NoContext).authority = "legacy"
  BY <1>2 DEF authorityEnvelope, authorityForStage
<1> QED BY <1>1, <1>3, <1>4

\* The requests that operators send are well formed.
LEMMA AskedType ==
    ASSUME CutoverAssumption, TypeOK, NEW r \in Asked
    PROVE  r \in Requests
<1>1. declared \subseteq Snapshots /\ populations \subseteq Populations /\ Targets \subseteq Stages
  BY DEF TypeOK, CutoverAssumption
<1>2. \A f \in Snapshots, s \in Stages : stageContextFor(s, f) \in Contexts \cup {NoContext}
  BY DEF CutoverAssumption, stageContextFor
<1>3. "shared_shadow" \in Stages /\ "parity_accepted" \in Stages
  BY StageNumbers
<1>4. \A s \in Targets, f \in declared, b \in BOOLEAN :
        Request(s, f, stageContextFor(s, f), Nobody, Nobody, b) \in Requests
  BY <1>1, <1>2 DEF Requests, Request
<1>5. \A f \in declared, p \in Policies, b \in BOOLEAN :
        Request("shared_shadow", f, NoContext, p, Nobody, b) \in Requests
  BY <1>1, <1>3 DEF Requests, Request
<1>6. \A f \in declared, p \in Policies, q \in populations, b \in BOOLEAN :
        Request("parity_accepted", f, NoContext, p, q, b) \in Requests
  BY <1>1, <1>3 DEF Requests, Request
<1> QED BY <1>4, <1>5, <1>6 DEF Asked

-----------------------------------------------------------------------------
LEMMA InitInv == ASSUME CutoverAssumption PROVE Init => IInv
<1> SUFFICES ASSUME Init PROVE IInv
  OBVIOUS
<1> USE DEF Init
<1>0. MaxTransitions \in Nat /\ MaxDeployments \in Nat /\ Nobody \notin States
  BY DEF CutoverAssumption
<1>1. [state |-> "none", row |-> 0] \in [state : DeploymentStates, row : 0 .. MaxDeployments]
  BY <1>0 DEF DeploymentStates
<1>2. transitions \in Seq(Rows) /\ Len(transitions) = 0
  BY EmptySeq
<1>3. DOMAIN transitions = {}
  BY <1>2, LenProperties
<1>4. TypeOK
  BY <1>0, <1>1, <1>2, <1>3 DEF TypeOK
<1>5. History /\ StateIsLast /\ NamesRows
  BY <1>0, <1>2, <1>3 DEF History, StateIsLast, NamesRows
<1>6. Accepted /\ RollbackRestores
  BY <1>3 DEF Accepted, RollbackRestores
<1> QED BY <1>4, <1>5, <1>6 DEF IInv

-----------------------------------------------------------------------------
\* The rows after another one is written.
LEMMA AppendRow ==
    ASSUME transitions \in Seq(Rows), NEW t \in Rows, transitions' = Append(transitions, t)
    PROVE  /\ transitions' \in Seq(Rows) /\ Len(transitions') = Len(transitions) + 1
           /\ Len(transitions) \in Nat /\ DOMAIN transitions = 1 .. Len(transitions)
           /\ DOMAIN transitions' = 1 .. Len(transitions) + 1
           /\ transitions'[Len(transitions) + 1] = t
           /\ \A i \in DOMAIN transitions : transitions'[i] = transitions[i]
<1>1. /\ transitions' \in Seq(Rows) /\ Len(transitions') = Len(transitions) + 1
      /\ transitions'[Len(transitions) + 1] = t
      /\ \A i \in 1 .. Len(transitions) : transitions'[i] = transitions[i]
  BY AppendProperties
<1>2. /\ Len(transitions) \in Nat /\ DOMAIN transitions = 1 .. Len(transitions)
      /\ DOMAIN transitions' = 1 .. Len(transitions')
  BY <1>1, LenProperties
<1> QED BY <1>1, <1>2

\* What TransitionCutover checks of a request before it writes the row.
LEMMA AllowedFacts ==
    ASSUME CutoverAssumption, TypeOK, state # Nobody, NEW r \in Requests, TransitionAllowed(r)
    PROVE  /\ r.to = "schema_legacy" => r.flags = SafeFlags
           /\ r.to = "parity_accepted" =>
                /\ r.population \in passed /\ r.population.attempt = state.transition
                /\ r.population.flags = r.flags
                /\ r.flags.engine = "shadow" /\ r.flags.dual = "observe"
           /\ ~Before(r.to, "parity_accepted") /\ r.to # "parity_accepted" =>
                ~Before(state.envelope.stage, "parity_accepted")
           /\ r.rollback /\ r.to # "schema_legacy" =>
                \E i \in DOMAIN transitions :
                    transitions[i].target.stage = r.to /\ transitions[i].target.flags = r.flags
<1>1. r.to = "schema_legacy" => r.flags = SafeFlags
  BY DEF TransitionAllowed, validateFlagsForStage
<1>2. r.to = "parity_accepted" => r.flags.engine = "shadow" /\ r.flags.dual = "observe"
  BY DEF TransitionAllowed, validateFlagsForStage
<1>3. ASSUME r.to = "parity_accepted"
      PROVE  /\ r.population \in passed /\ r.population.attempt = state.transition
             /\ r.population.flags = r.flags
  <2>1. "parity_threshold_passed" \in requiredPrerequisites(r.to)
    BY <1>3 DEF requiredPrerequisites
  <2>2. verifyPrerequisite("parity_threshold_passed", r)
    BY <2>1 DEF TransitionAllowed
  <2> QED BY <2>2 DEF verifyPrerequisite
<1>4. state.envelope.stage \in Stages /\ r.to \in Stages
  BY DEF TypeOK, States, Envelopes, Requests
<1>5. \A s \in Stages : stageIndex(s) \in 1 .. 10
  BY StageNumbers
<1>6. stageIndex(r.to) # 5 \/ r.to = "parity_accepted"
  BY <1>4, StageNumbers
<1>7. stageIndex(r.to) = stageIndex(state.envelope.stage) + 1
      \/ stageIndex(r.to) < stageIndex(state.envelope.stage)
  BY DEF TransitionAllowed, RollbackAllowed, Before
<1>8. ~Before(r.to, "parity_accepted") /\ r.to # "parity_accepted" =>
        ~Before(state.envelope.stage, "parity_accepted")
  BY <1>4, <1>5, <1>6, <1>7, StageNumbers DEF Before
<1>9. r.rollback /\ r.to # "schema_legacy" =>
        \E i \in DOMAIN transitions :
            transitions[i].target.stage = r.to /\ transitions[i].target.flags = r.flags
  BY DEF TransitionAllowed, RollbackAllowed, LatestInto, Row
<1> QED BY <1>1, <1>2, <1>3, <1>8, <1>9

\* A transition keeps the invariant (TransitionCutover).
LEMMA CommitInv ==
    ASSUME CutoverAssumption, IInv, NEW s \in Sessions, NEW r \in Asked, CommitTransition(s, r)
    PROVE  IInv'
<1> USE DEF IInv
<1> DEFINE target == authorityEnvelope(r.to, r.flags, r.flags.context)
           n == Len(transitions) + 1
           t == [source |-> state.envelope, target |-> target, request |-> r,
                 deployment |-> BoundDeployment(r)]
<1>0. /\ UNCHANGED <<declared, active, deployments, balanced, evidence, populations, passed>>
      /\ state # Nobody /\ TransitionAllowed(r) /\ Len(transitions) <= MaxTransitions
  BY DEF CommitTransition
<1>1. r \in Requests /\ r.to \in Stages /\ r.flags \in Snapshots /\ r.context \in Contexts \cup {NoContext}
  BY AskedType DEF Requests
<1>2. /\ target \in Envelopes /\ target.stage = r.to /\ target.flags = r.flags
      /\ engineForStage(r.to) \in {"legacy", "shadow_compare", "shared"}
  BY <1>1, EnvelopeType
<1>3. BoundDeployment(r) \in 0 .. MaxDeployments
  <2>1. r.context # NoContext => deployments[r.context].row \in 0 .. MaxDeployments
    BY <1>1 DEF TypeOK
  <2> QED BY <2>1 DEF BoundDeployment, CutoverAssumption
<1>4. state.envelope \in Envelopes /\ state \in States
  BY <1>0 DEF TypeOK, States
<1>5. /\ t \in Rows /\ t.source = state.envelope /\ t.target = target /\ t.request = r
  BY <1>1, <1>2, <1>3, <1>4 DEF Rows
<1>6. /\ transitions' = Append(transitions, t)
      /\ state' = [envelope |-> target, transition |-> n, engine |-> engineForStage(r.to),
                   version |-> state.version + 1]
      /\ sessions' = [sessions EXCEPT ![s] = n]
  BY DEF CommitTransition
<1>7. target = authorityEnvelope(target.stage, target.flags, target.flags.context)
  BY <1>2
<1> HIDE DEF t, target
<1>8. /\ transitions' \in Seq(Rows) /\ Len(transitions') = n
      /\ Len(transitions) \in Nat /\ DOMAIN transitions = 1 .. Len(transitions)
      /\ DOMAIN transitions' = 1 .. n /\ transitions'[n] = t
      /\ \A i \in DOMAIN transitions : transitions'[i] = transitions[i]
  BY <1>5, <1>6, AppendRow DEF History
<1>9. n \in Attempts /\ n <= MaxTransitions + 1 /\ n \in Nat /\ Nobody \notin Attempts
  BY <1>0, <1>8 DEF Attempts, CutoverAssumption
<1>10. /\ state' \in States /\ state' # Nobody /\ state'.transition = n /\ state'.version = n
       /\ state'.envelope = target
  BY <1>0, <1>2, <1>6, <1>9 DEF States, StateIsLast, CutoverAssumption
<1>11. sessions' \in [Sessions -> Attempts \cup {Nobody}] /\ sessions'[s] = n
       /\ \A x \in Sessions : x # s => sessions'[x] = sessions[x]
  BY <1>6, <1>9 DEF TypeOK
<1>12. \A i \in DOMAIN transitions' : i = n \/ (i \in DOMAIN transitions /\ i < n)
  BY <1>8
<1>13. TypeOK'
  <2>1. \A i \in DOMAIN transitions' :
          transitions'[i].source \in Envelopes /\ transitions'[i].target \in Envelopes
    BY <1>2, <1>4, <1>5, <1>8, <1>12 DEF TypeOK
  <2> QED BY <1>0, <1>8, <1>9, <1>10, <1>11, <2>1 DEF TypeOK
<1>14. History'
  BY <1>5, <1>7, <1>8, <1>9, <1>12 DEF History
<1>15. StateIsLast'
  BY <1>0, <1>5, <1>8, <1>10 DEF StateIsLast
<1>16. NamesRows'
  BY <1>0, <1>8, <1>11 DEF NamesRows
<1>17. Accepted'
  <2> SUFFICES ASSUME ~Before(r.to, "parity_accepted")
               PROVE  \E i \in DOMAIN transitions' : Accepts(i)'
    BY <1>2, <1>10 DEF Accepted
  <2>1. CASE r.to = "parity_accepted"
    <3>1. /\ r.population \in passed /\ r.population.attempt = n - 1
          /\ r.population.flags = r.flags
          /\ r.flags.engine = "shadow" /\ r.flags.dual = "observe"
      BY <1>0, <1>1, <1>8, <2>1, AllowedFacts DEF StateIsLast
    <3>2. n - 1 \in DOMAIN transitions /\ transitions[n - 1].target.flags = r.flags
      BY <3>1 DEF NamesRows, TypeOK
    <3>3. \A j \in DOMAIN transitions' : ~(j > n)
      BY <1>8
    <3>4. PICK k \in Nat : k = n
      BY <1>9
    <3>5. Accepts(k)'
      BY <1>0, <1>2, <1>5, <1>8, <2>1, <3>1, <3>2, <3>3, <3>4 DEF Accepts
    <3> QED BY <1>8, <3>4, <3>5
  <2>2. CASE r.to # "parity_accepted"
    <3>1. ~Before(state.envelope.stage, "parity_accepted")
      BY <1>0, <1>1, <2>2, AllowedFacts
    <3>2. PICK i \in DOMAIN transitions : Accepts(i)
      BY <1>0, <3>1 DEF Accepted
    <3>3. transitions'[i] = transitions[i] /\ i \in DOMAIN transitions'
      BY <1>8
    <3>4. \A j \in DOMAIN transitions' :
            j > i => ~Before(transitions'[j].target.stage, "parity_accepted")
      BY <1>2, <1>5, <1>8, <1>12, <3>2 DEF Accepts
    <3>5. LET p == transitions[i].request.population IN
          p \in passed /\ p.attempt \in DOMAIN transitions /\ p.attempt = i - 1
      BY <3>2 DEF Accepts, NamesRows, TypeOK
    <3>6. Accepts(i)'
      BY <1>0, <1>8, <3>2, <3>3, <3>4, <3>5 DEF Accepts
    <3> QED BY <3>3, <3>6
  <2> QED BY <2>1, <2>2
<1>18. RollbackRestores'
  <2>1. ASSUME NEW i \in DOMAIN transitions, transitions[i].request.rollback
        PROVE  \E j \in 1 .. i - 1 : transitions'[j].target = transitions'[i].target
    <3>1. PICK j \in 1 .. i - 1 : transitions[j].target = transitions[i].target
      BY <2>1 DEF RollbackRestores
    <3>2. j \in DOMAIN transitions
      BY <1>8, <3>1
    <3> QED BY <1>8, <3>1, <3>2
  <2>2. ASSUME r.rollback PROVE \E j \in 1 .. n - 1 : transitions'[j].target = target
    <3>1. CASE r.to = "schema_legacy"
      <4>1. target = authorityEnvelope("schema_legacy", SafeFlags, NoContext)
        BY <1>0, <1>1, <3>1, AllowedFacts, SafeEnvelope DEF target
      <4>2. 1 \in DOMAIN transitions /\ transitions[1].target = target
        BY <1>0, <1>8, <4>1 DEF StateIsLast
      <4> QED BY <1>8, <4>2
    <3>2. CASE r.to # "schema_legacy"
      <4>1. PICK j \in DOMAIN transitions :
              transitions[j].target.stage = r.to /\ transitions[j].target.flags = r.flags
        BY <1>0, <1>1, <2>2, <3>2, AllowedFacts
      <4>2. transitions[j].target = target
        BY <4>1 DEF History, target
      <4> QED BY <1>8, <4>1, <4>2
    <3> QED BY <3>1, <3>2
  <2> QED BY <1>5, <1>8, <1>12, <2>1, <2>2 DEF RollbackRestores
<1> QED BY <1>13, <1>14, <1>15, <1>16, <1>17, <1>18

-----------------------------------------------------------------------------
\* The first start on an empty database (Initialize).
LEMMA BootstrapInv == ASSUME CutoverAssumption, IInv, Bootstrap PROVE IInv'
<1> USE DEF IInv
<1> DEFINE e == authorityEnvelope("schema_legacy", SafeFlags, NoContext)
           t == [source |-> e, target |-> e, deployment |-> 0, request |-> SafeRequest(FALSE)]
<1>0. /\ UNCHANGED <<sessions, deployments, balanced, evidence, populations, passed>>
      /\ state = Nobody /\ declared' = declared \cup {SafeFlags} /\ transitions' = <<t>>
      /\ state' = [envelope |-> e, transition |-> 1, engine |-> "legacy", version |-> 1]
      /\ active' = [flags |-> SafeFlags, authority |-> "legacy"]
  BY DEF Bootstrap
<1>1. /\ e \in Envelopes /\ e.stage = "schema_legacy" /\ e.flags = SafeFlags
      /\ e = authorityEnvelope(e.stage, e.flags, e.flags.context)
  BY SafeEnvelope DEF authorityEnvelope
<1>2. /\ SafeRequest(FALSE) \in Requests /\ ~SafeRequest(FALSE).rollback
  BY SafeEnvelope, StageNumbers DEF SafeRequest, Request, Requests
<1>3. MaxDeployments \in Nat /\ MaxTransitions \in Nat /\ Nobody \notin States
  BY DEF CutoverAssumption
<1> HIDE DEF e
<1>4. t \in Rows /\ t.source = e /\ t.target = e /\ ~t.request.rollback
  <2>1. 0 \in 0 .. MaxDeployments
    BY <1>3
  <2>2. t.request = SafeRequest(FALSE)
    OBVIOUS
  <2> QED BY <1>1, <1>2, <2>1, <2>2 DEF Rows
<1> HIDE DEF t
<1>5. /\ transitions' \in Seq(Rows) /\ Len(transitions') = 1 /\ transitions'[1] = t
      /\ DOMAIN transitions' = {1}
  BY <1>0, <1>4
<1>6. state' \in States /\ state' # Nobody /\ state'.transition = 1 /\ state'.version = 1
      /\ state'.envelope = e
  BY <1>0, <1>1, <1>3 DEF States, Attempts
<1>7. populations = {} /\ passed = {} /\ \A s \in Sessions : sessions[s] = Nobody
  <2>1. populations = {} /\ transitions = <<>> /\ passed = {}
    BY <1>0 DEF StateIsLast, TypeOK
  <2>2. DOMAIN transitions = {}
    BY <2>1
  <2> QED BY <2>1, <2>2 DEF NamesRows
<1>8. active' \in [flags : Snapshots, authority : Authorities] /\ SafeFlags \in Snapshots
  BY <1>0, SafeEnvelope DEF Authorities
<1>9. TypeOK'
  BY <1>0, <1>3, <1>4, <1>5, <1>6, <1>8, <1>1 DEF TypeOK
<1>10. History'
  BY <1>1, <1>3, <1>4, <1>5 DEF History
<1>11. StateIsLast'
  BY <1>0, <1>4, <1>5, <1>6 DEF StateIsLast, e
<1>12. NamesRows'
  BY <1>0, <1>7 DEF NamesRows
<1>13. Accepted'
  BY <1>1, <1>6, StageNumbers DEF Accepted, Before
<1>14. RollbackRestores'
  BY <1>4, <1>5 DEF RollbackRestores
<1> QED BY <1>9, <1>10, <1>11, <1>12, <1>13, <1>14

\* Steps that leave the history and the state row alone, and at most add flags,
\* populations and passes.
LEMMA KeepsHistory ==
    ASSUME CutoverAssumption, IInv, UNCHANGED <<state, transitions>>, TypeOK', NamesRows',
           declared \subseteq declared', passed \subseteq passed',
           state = Nobody => populations' = {} /\ active' = Nobody
    PROVE  IInv'
<1> USE DEF IInv
<1>1. History' /\ RollbackRestores'
  BY DEF History, RollbackRestores
<1>2. StateIsLast'
  BY DEF StateIsLast
<1>3. Accepted'
  BY DEF Accepted, Accepts
<1> QED BY <1>1, <1>2, <1>3

\* A server is only up once the state exists.
LEMMA RunningHasState ==
    ASSUME CutoverAssumption, IInv, active # Nobody
    PROVE  /\ state # Nobody /\ state \in States /\ state.envelope \in Envelopes
           /\ state.transition \in Attempts
           /\ state.transition \in DOMAIN transitions
           /\ state.envelope = transitions[state.transition].target
<1>1. state # Nobody /\ state \in States
  BY DEF IInv, StateIsLast, TypeOK
<1>2. Len(transitions) > 0 /\ state.transition = Len(transitions)
      /\ state.envelope = transitions[Len(transitions)].target
  BY <1>1 DEF IInv, StateIsLast
<1>3. DOMAIN transitions = 1 .. Len(transitions) /\ Len(transitions) \in Nat
  BY LenProperties DEF IInv, History
<1> QED BY <1>1, <1>2, <1>3 DEF States

LEMMA InitializeInv ==
    ASSUME CutoverAssumption, IInv, NEW f \in Snapshots, Initialize(f)
    PROVE  IInv'
<1> USE DEF IInv
<1>0. /\ UNCHANGED <<declared, state, transitions, sessions, deployments, balanced,
                     evidence, populations, passed>>
      /\ state # Nobody /\ active' = [flags |-> f, authority |-> state.envelope.authority]
  BY DEF Initialize
<1>1. state.envelope.authority \in Authorities
  BY <1>0 DEF TypeOK, States, Envelopes
<1>2. active' \in [flags : Snapshots, authority : Authorities]
  BY <1>0, <1>1
<1>3. TypeOK' /\ NamesRows'
  BY <1>0, <1>2 DEF TypeOK, NamesRows
<1> QED BY <1>0, <1>3, KeepsHistory

LEMMA StopInv == ASSUME CutoverAssumption, IInv, Stop PROVE IInv'
<1> USE DEF IInv
<1>0. /\ UNCHANGED <<declared, state, transitions, deployments, balanced, evidence,
                     populations, passed>>
      /\ active' = Nobody /\ sessions' = [s \in Sessions |-> Nobody]
  BY DEF Stop
<1>1. TypeOK' /\ NamesRows'
  BY <1>0 DEF TypeOK, NamesRows
<1>2. state = Nobody => populations = {}
  BY DEF StateIsLast
<1> QED BY <1>0, <1>1, <1>2, KeepsHistory

LEMMA DeclareFlagInv ==
    ASSUME CutoverAssumption, IInv, NEW f \in Snapshots, DeclareFlagSnapshot(f)
    PROVE  IInv'
<1> USE DEF IInv
<1>0. /\ UNCHANGED <<state, transitions, active, sessions, deployments, balanced,
                     evidence, populations, passed>>
      /\ declared' = declared \cup {f} /\ active # Nobody
  BY DEF DeclareFlagSnapshot, Running
<1>1. TypeOK' /\ NamesRows'
  BY <1>0 DEF TypeOK, NamesRows
<1> QED BY <1>0, <1>1, KeepsHistory, RunningHasState

\* A population names the last row and its flags.
LEMMA BeginInv ==
    ASSUME CutoverAssumption, IInv, NEW p \in Policies, NEW f \in declared,
           BeginParityPopulation(p, f)
    PROVE  IInv'
<1> USE DEF IInv
<1> DEFINE new == [policy |-> p, flags |-> f, attempt |-> state.transition]
<1>0. /\ UNCHANGED <<declared, state, transitions, active, sessions, deployments,
                     balanced, evidence, passed>>
      /\ populations' = populations \cup {new} /\ active # Nobody /\ f = state.envelope.flags
  BY DEF BeginParityPopulation, Running
<1>1. /\ state # Nobody /\ state.transition \in Attempts /\ state.transition \in DOMAIN transitions
      /\ state.envelope = transitions[state.transition].target
  BY <1>0, RunningHasState
<1>2. new \in Populations /\ new.attempt = state.transition /\ new.flags = f
  BY <1>1 DEF Populations, TypeOK
<1> HIDE DEF new
<1>3. TypeOK'
  BY <1>0, <1>2 DEF TypeOK
<1>4. NamesRows'
  BY <1>0, <1>1, <1>2 DEF NamesRows
<1> QED BY <1>0, <1>1, <1>3, <1>4, KeepsHistory

LEMMA ObserveInv ==
    ASSUME CutoverAssumption, IInv, NEW p \in populations, ObserveParity(p)
    PROVE  IInv'
<1> USE DEF IInv
<1>0. /\ UNCHANGED <<declared, state, transitions, active, sessions, deployments,
                     balanced, evidence, populations>>
      /\ passed' = passed \cup {p} /\ active # Nobody
  BY DEF ObserveParity, Running
<1>1. TypeOK' /\ NamesRows'
  BY <1>0 DEF TypeOK, NamesRows
<1> QED BY <1>0, <1>1, KeepsHistory, RunningHasState

\* Governance, the ledger and the evidence rows are no part of the invariant.
LEMMA OutsideInv ==
    ASSUME CutoverAssumption, IInv, UNCHANGED <<declared, state, transitions, active, sessions,
                                                populations, passed>>,
           deployments' \in [Contexts -> [state : DeploymentStates, row : 0 .. MaxDeployments]],
           balanced' \in BOOLEAN
    PROVE  IInv'
<1> USE DEF IInv
<1>1. TypeOK' /\ NamesRows'
  BY DEF TypeOK, NamesRows
<1>2. state = Nobody => populations' = {} /\ active' = Nobody
  BY DEF StateIsLast
<1> QED BY <1>1, <1>2, KeepsHistory

LEMMA ChangeDeploymentInv ==
    ASSUME CutoverAssumption, IInv, NEW c \in Contexts, NEW s \in DeploymentStates,
           ChangeDeployment(c, s)
    PROVE  IInv'
<1>1. deployments[c].row + 1 \in 0 .. MaxDeployments
  BY DEF IInv, TypeOK, CutoverAssumption, ChangeDeployment
<1>2. deployments' \in [Contexts -> [state : DeploymentStates, row : 0 .. MaxDeployments]]
  BY <1>1 DEF IInv, TypeOK, ChangeDeployment
<1>3. UNCHANGED <<declared, state, transitions, active, sessions, balanced, populations, passed>>
  BY DEF ChangeDeployment
<1>4. balanced' \in BOOLEAN
  BY <1>3 DEF IInv, TypeOK
<1> QED BY <1>2, <1>3, <1>4, OutsideInv

\* Answers name rows of the history, and their flags are what gets activated.
LEMMA ReplayInv ==
    ASSUME CutoverAssumption, IInv, NEW s \in Sessions, NEW i \in 2 .. Len(transitions),
           ReplayTransition(s, i)
    PROVE  IInv'
<1> USE DEF IInv
<1>0. /\ UNCHANGED <<declared, state, transitions, active, deployments, balanced,
                     evidence, populations, passed>>
      /\ sessions' = [sessions EXCEPT ![s] = i] /\ active # Nobody
  BY DEF ReplayTransition, Running
<1>1. i \in DOMAIN transitions /\ i \in Attempts
  <2>1. DOMAIN transitions = 1 .. Len(transitions) /\ Len(transitions) \in Nat
    BY LenProperties DEF History
  <2> QED BY <2>1 DEF History, Attempts, CutoverAssumption
<1>2. TypeOK'
  BY <1>0, <1>1 DEF TypeOK
<1>3. NamesRows'
  BY <1>0, <1>1 DEF NamesRows, TypeOK
<1> QED BY <1>0, <1>2, <1>3, KeepsHistory, RunningHasState

LEMMA ActivateInv ==
    ASSUME CutoverAssumption, IInv, NEW s \in Sessions, ActivateVerified(s)
    PROVE  IInv'
<1> USE DEF IInv
<1> DEFINE row == transitions[sessions[s]]
<1>0. /\ UNCHANGED <<declared, state, transitions, deployments, balanced, evidence,
                     populations, passed>>
      /\ sessions[s] # Nobody /\ sessions' = [sessions EXCEPT ![s] = Nobody]
      /\ active' = [flags |-> row.target.flags, authority |-> row.target.authority]
  BY DEF ActivateVerified, Quiet, Row
<1>1. sessions[s] \in DOMAIN transitions /\ row.target \in Envelopes
  BY <1>0 DEF NamesRows, TypeOK
<1>2. active' \in [flags : Snapshots, authority : Authorities]
  BY <1>0, <1>1 DEF Envelopes
<1>3. TypeOK'
  BY <1>0, <1>2 DEF TypeOK
<1>4. NamesRows'
  BY <1>0 DEF NamesRows, TypeOK
<1>5. state # Nobody
  <2>1. transitions # <<>>
    BY <1>1
  <2> QED BY <2>1 DEF StateIsLast
<1> QED BY <1>0, <1>3, <1>4, <1>5, KeepsHistory

LEMMA NextInv ==
    ASSUME CutoverAssumption, IInv, [Next]_vars
    PROVE  IInv'
<1>1. CASE Bootstrap
  BY <1>1, BootstrapInv
<1>2. ASSUME NEW f \in Snapshots, Initialize(f) \/ DeclareFlagSnapshot(f) PROVE IInv'
  BY <1>2, InitializeInv, DeclareFlagInv
<1>3. CASE Stop
  BY <1>3, StopInv
<1>4. ASSUME NEW k \in EvidenceKinds, NEW s \in Targets, NEW f \in declared,
             DeclarePrerequisiteEvidence(k, s, f)
      PROVE  IInv'
  BY <1>4, OutsideInv DEF DeclarePrerequisiteEvidence, IInv, TypeOK
<1>5. ASSUME NEW p \in Policies, NEW f \in declared, BeginParityPopulation(p, f) PROVE IInv'
  BY <1>5, BeginInv
<1>6. ASSUME NEW p \in populations, ObserveParity(p) PROVE IInv'
  BY <1>6, ObserveInv
<1>7. ASSUME NEW c \in Contexts, NEW s \in DeploymentStates, ChangeDeployment(c, s) PROVE IInv'
  BY <1>7, ChangeDeploymentInv
<1>8. CASE ChangeLedger
  <2>1. UNCHANGED <<declared, state, transitions, active, sessions, deployments, populations, passed>>
        /\ balanced' \in BOOLEAN
    BY <1>8 DEF ChangeLedger
  <2> QED BY <2>1, OutsideInv DEF IInv, TypeOK
<1>9. ASSUME NEW s \in Sessions, NEW r \in Asked, CommitTransition(s, r) PROVE IInv'
  BY <1>9, CommitInv
<1>10. ASSUME NEW s \in Sessions, NEW i \in 2 .. Len(transitions), ReplayTransition(s, i) PROVE IInv'
  BY <1>10, ReplayInv
<1>11. ASSUME NEW s \in Sessions, ActivateVerified(s) PROVE IInv'
  BY <1>11, ActivateInv
<1>12. CASE UNCHANGED vars
  <2>1. UNCHANGED <<declared, state, transitions, active, sessions, deployments, balanced,
                    populations, passed>>
    BY <1>12 DEF vars
  <2> QED BY <2>1, OutsideInv DEF IInv, TypeOK
<1> QED BY <1>1, <1>2, <1>3, <1>4, <1>5, <1>6, <1>7, <1>8, <1>9, <1>10, <1>11, <1>12 DEF Next

-----------------------------------------------------------------------------
\* The invariant gives the four promises of the cutover.
LEMMA InvImpliesEarned == ASSUME CutoverAssumption, IInv PROVE CutoverIsEarned
<1> USE DEF IInv
<1>1. AuthorityEarned
  <2> SUFFICES ASSUME state # Nobody, state.envelope.authority # "legacy" PROVE AuthorityEarned
    BY DEF AuthorityEarned, Legacy
  <2>1. state.envelope.stage \in Stages /\ state.envelope.flags \in Snapshots
    BY DEF TypeOK, States, Envelopes
  <2>2. Len(transitions) \in DOMAIN transitions
    BY LenProperties DEF History, StateIsLast
  <2>3. state.envelope = authorityEnvelope(state.envelope.stage, state.envelope.flags,
                                           state.envelope.flags.context)
    BY <2>2 DEF History, StateIsLast
  <2>4. ~Before(state.envelope.stage, "new_paper")
    <3>1. authorityForStage(state.envelope.stage) # "legacy"
      BY <2>3 DEF authorityEnvelope
    <3>2. ~Before("limited_live", "new_paper")
      BY StageNumbers DEF Before
    <3> QED BY <3>1, <3>2 DEF authorityForStage
  <2>5. ~Before(state.envelope.stage, "parity_accepted")
    BY <2>1, <2>4, StageNumbers DEF Before
  <2>6. \E i \in DOMAIN transitions : Accepts(i)
    BY <2>5 DEF Accepted
  <2> QED BY <2>6, Zenon DEF AuthorityEarned, Accepts
<1>2. WayBackOpen
  <2> DEFINE r == SafeRequest(TRUE)
  <2> SUFFICES ASSUME state # Nobody, state.envelope.stage # "schema_legacy"
               PROVE  RowsExist(r) /\ TransitionAllowed(r)
    BY DEF WayBackOpen
  <2>1. /\ r.to = "schema_legacy" /\ r.flags = SafeFlags /\ r.context = NoContext
        /\ r.population = Nobody /\ r.rollback = TRUE
    BY DEF SafeRequest, Request
  <2> HIDE DEF r
  <2>2. RowsExist(r)
    BY <2>1 DEF RowsExist, StateIsLast
  <2>3. state.envelope.stage \in Stages
    BY DEF TypeOK, States, Envelopes
  <2>4. RollbackAllowed(r)
    BY <2>1, <2>3, StageNumbers DEF RollbackAllowed, Before
  <2>5. Validate(SafeFlags)
    BY DEF Validate, SafeFlags, IsLive, Ledgers, Engines, LiveModes
  <2>6. validateFlagsForStage(SafeFlags, "schema_legacy")
    BY DEF validateFlagsForStage
  <2>7. Before("schema_legacy", "new_paper")
    BY StageNumbers DEF Before
  <2>8. requiredPrerequisites("schema_legacy") = {}
    <3>1. ~Before("new_paper", "schema_legacy")
      BY StageNumbers DEF Before
    <3> QED BY <3>1 DEF requiredPrerequisites
  <2>9. TransitionAllowed(r)
    BY <2>1, <2>4, <2>5, <2>6, <2>7, <2>8 DEF TransitionAllowed
  <2> QED BY <2>2, <2>9
<1> QED BY <1>1, <1>2 DEF CutoverIsEarned

\* Paper and live authority rests on an unbroken acceptance of parity, rollbacks
\* only restore what was in force, and the way back to the safe flags stays open,
\* for every history of transitions (TransitionCutover, Initialize).
THEOREM CutoverEarned == ASSUME CutoverAssumption PROVE Spec => []CutoverIsEarned
<1>1. Init => IInv
  BY InitInv
<1>2. IInv /\ [Next]_vars => IInv'
  BY NextInv
<1>3. IInv => CutoverIsEarned
  BY InvImpliesEarned
<1> QED BY <1>1, <1>2, <1>3, PTL DEF Spec

\* The flags that the running server trades by change only at its start, to the
\* persisted ones, or when a transition activates its own answer
\* (ActivateVerified).
THEOREM ActivationsOwned == ASSUME CutoverAssumption PROVE Spec => [][OnlyTransitionsActivate]_vars
<1>1. ASSUME IInv, [Next]_vars, active' # active, active' # Nobody PROVE OnlyTransitionsActivate
  <2>1. CASE Bootstrap
    <3>1. active = Nobody /\ active' = [flags |-> SafeFlags, authority |-> "legacy"]
          /\ state'.envelope = authorityEnvelope("schema_legacy", SafeFlags, NoContext)
      BY <2>1 DEF Bootstrap, Running
    <3>2. state'.envelope.flags = SafeFlags /\ state'.envelope.authority = "legacy"
      BY <3>1, SafeEnvelope DEF authorityEnvelope
    <3> QED BY <3>1, <3>2 DEF OnlyTransitionsActivate
  <2>2. ASSUME NEW f \in Snapshots, Initialize(f) PROVE OnlyTransitionsActivate
    BY <2>2 DEF Initialize, CanResume, Running, OnlyTransitionsActivate
  <2>3. ASSUME NEW s \in Sessions, ActivateVerified(s) PROVE OnlyTransitionsActivate
    <3>1. sessions[s] # Nobody /\ sessions'[s] = Nobody
      BY <1>1, <2>3 DEF ActivateVerified, Quiet, IInv, TypeOK
    <3> QED BY <3>1 DEF OnlyTransitionsActivate
  <2>4. CASE Stop
    BY <1>1, <2>4 DEF Stop
  <2>5. CASE UNCHANGED active
    BY <1>1, <2>5
  <2> QED
    BY <1>1, <2>1, <2>2, <2>3, <2>4, <2>5 DEF Next, vars, DeclareFlagSnapshot,
       DeclarePrerequisiteEvidence, BeginParityPopulation, ObserveParity, ChangeDeployment,
       ChangeLedger, CommitTransition, ReplayTransition
<1>2. IInv /\ [Next]_vars => [OnlyTransitionsActivate]_vars
  BY <1>1 DEF OnlyTransitionsActivate
<1>3. Init => IInv
  BY InitInv
<1>4. IInv /\ [Next]_vars => IInv'
  BY NextInv
<1> QED BY <1>2, <1>3, <1>4, PTL DEF Spec

-----------------------------------------------------------------------------
(* Incidents.                                                              *)

\* A caller on its way to the row of k, and one that owes an alert about it.
Comes(s, k) == callers[s].pc \in {"raise", "insert"} /\ callers[s].key = k
Alerting(s, k) == callers[s].pc = "dispatch" /\ callers[s].key = k
Coming(k) == {s \in Callers : Comes(s, k)}
Seen(k) == IF incidents[k] = None THEN 0 ELSE incidents[k].occurrences
Apart(a, b) == a >= b + Cooldown \/ b >= a + Cooldown

\* A caller between two steps of its raise.
Raisings == [pc : Steps, key : DedupeKeys, at : Times, ok : BOOLEAN]

IncidentTyped ==
    /\ IncidentTypeOK
    /\ callers \in [Callers -> {Idle} \cup Raisings]
    /\ alerts \in [DedupeKeys -> Seq(Times)]
    /\ audits \in [DedupeKeys -> Seq(IncidentStates \X IncidentStates)]
    /\ \A s \in Callers :
         callers[s].pc \in {"dispatch", "record"} => incidents[callers[s].key] # None

\* Each occurrence and each caller that may add one has its raise.
Counted ==
    \A k \in DedupeKeys :
        counters[k].count <= raises /\ Seen(k) + Cardinality(Coming(k)) <= raises

\* The cooldown of the row covers every alert sent and every alert owed.
Spaced(k) ==
    /\ incidents[k] = None => alerts[k] = <<>>
    /\ incidents[k] # None =>
         \A i \in DOMAIN alerts[k] : incidents[k].until >= alerts[k][i] + Cooldown
    /\ \A s \in Callers : Alerting(s, k) =>
         /\ incidents[k].until >= callers[s].at + Cooldown
         /\ \A i \in DOMAIN alerts[k] : Apart(callers[s].at, alerts[k][i])
         /\ \A t \in Callers \ {s} : Alerting(t, k) => Apart(callers[s].at, callers[t].at)

Audited == AuditExplainsState /\ \A k \in DedupeKeys : incidents[k] = None => audits[k] = <<>>

IncidentInv ==
    IncidentTyped /\ Counted /\ (\A k \in DedupeKeys : Spaced(k)) /\ AlertsAreApart /\ Audited

-----------------------------------------------------------------------------
\* One caller moves: who comes to a row changes by that caller only.
LEMMA ComingChanges ==
    ASSUME IsFiniteSet(Callers), NEW s \in Callers, NEW k,
           \A t \in Callers \ {s} : callers'[t] = callers[t]
    PROVE  /\ Cardinality(Coming(k)) \in Nat /\ Cardinality(Coming(k)') \in Nat
           /\ Comes(s, k)' = Comes(s, k) => Cardinality(Coming(k)') = Cardinality(Coming(k))
           /\ Comes(s, k)' /\ ~Comes(s, k) => Cardinality(Coming(k)') = Cardinality(Coming(k)) + 1
           /\ ~Comes(s, k)' /\ Comes(s, k) => Cardinality(Coming(k)') = Cardinality(Coming(k)) - 1
<1>1. IsFiniteSet(Coming(k)) /\ IsFiniteSet(Coming(k)')
  BY FS_Subset DEF Coming
<1>2. Cardinality(Coming(k)) \in Nat /\ Cardinality(Coming(k)') \in Nat
  BY <1>1, FS_CardinalityType
<1>3. \A t \in Callers \ {s} : Comes(t, k)' <=> Comes(t, k)
  BY DEF Comes
<1>4. ASSUME Comes(s, k)' <=> Comes(s, k) PROVE Coming(k)' = Coming(k)
  BY <1>3, <1>4 DEF Coming
<1>5. ASSUME Comes(s, k)', ~Comes(s, k) PROVE Coming(k)' = Coming(k) \cup {s} /\ s \notin Coming(k)
  BY <1>3, <1>5 DEF Coming
<1>6. ASSUME ~Comes(s, k)', Comes(s, k) PROVE Coming(k)' = Coming(k) \ {s} /\ s \in Coming(k)
  BY <1>3, <1>6 DEF Coming
<1>7. Comes(s, k)' \in BOOLEAN /\ Comes(s, k) \in BOOLEAN
  BY DEF Comes
<1> QED BY <1>1, <1>2, <1>4, <1>5, <1>6, <1>7, FS_AddElement, FS_RemoveElement

\* A step that sends no alert, moves no cooldown and owes no new alert.
LEMMA SpacedStands ==
    ASSUME NEW k \in DedupeKeys, Spaced(k), alerts' = alerts,
           incidents'[k] = None <=> incidents[k] = None,
           incidents[k] # None => incidents'[k].until = incidents[k].until,
           \A s \in Callers : Alerting(s, k)' => Alerting(s, k) /\ callers'[s].at = callers[s].at,
           \A s \in Callers : Alerting(s, k) => incidents[k] # None
    PROVE  Spaced(k)'
<1>1. /\ incidents'[k] = None => alerts'[k] = <<>>
      /\ incidents'[k] # None =>
           \A i \in DOMAIN alerts'[k] : incidents'[k].until >= alerts'[k][i] + Cooldown
  BY DEF Spaced
<1>2. ASSUME NEW s \in Callers, Alerting(s, k)'
      PROVE  /\ incidents'[k].until >= callers'[s].at + Cooldown
             /\ \A i \in DOMAIN alerts'[k] : Apart(callers'[s].at, alerts'[k][i])
             /\ \A t \in Callers \ {s} : Alerting(t, k)' => Apart(callers'[s].at, callers'[t].at)
  BY <1>2 DEF Spaced
<1> QED BY <1>1, <1>2 DEF Spaced, Apart

\* What one step may do to the rows and callers, apart from alerts.
LEMMA IncidentFacts ==
    ASSUME IncidentsAssumption, IncidentInv
    PROVE  /\ Cooldown \in Nat \ {0} /\ Window \in Nat /\ Threshold \in Nat \ {0}
           /\ MaxTime \in Nat /\ MaxRaises \in Nat /\ MaxCrashes \in Nat
           /\ IsFiniteSet(Callers) /\ None \notin Incidents
           /\ now \in Nat /\ now \in Times /\ raises \in Nat /\ raises <= MaxRaises /\ crashes \in Nat
           /\ \A k \in DedupeKeys : incidents[k] # None => incidents[k] \in Incidents
           /\ \A k \in DedupeKeys : counters[k] \in [count : 0 .. MaxRaises, start : Times]
           /\ \A k \in DedupeKeys : Seen(k) \in Nat /\ Cardinality(Coming(k)) \in Nat
           /\ \A s \in Callers : callers[s] # Idle =>
                callers[s] \in Raisings
           /\ \A s \in Callers : callers[s].pc # "idle" => callers[s] # Idle
<1>1. \A k \in DedupeKeys : incidents[k] # None => incidents[k] \in Incidents
  BY DEF IncidentInv, IncidentTyped, IncidentTypeOK
<1>2. \A k \in DedupeKeys : Seen(k) \in Nat
  BY <1>1 DEF Seen, Incidents, IncidentsAssumption
<1>3. \A k \in DedupeKeys : Cardinality(Coming(k)) \in Nat
  BY FS_Subset, FS_CardinalityType DEF Coming, IncidentsAssumption
<1> QED
  BY <1>1, <1>2, <1>3 DEF IncidentInv, IncidentTyped, IncidentTypeOK, IncidentsAssumption, Idle, Times

\* A caller starts a raise.
LEMMA StartKeeps ==
    ASSUME IncidentsAssumption, IncidentInv, NEW s \in Callers, NEW k \in DedupeKeys,
           callers[s] = Idle, raises < MaxRaises, raises' = raises + 1,
           Start(s, k) \/ UNCHANGED callers,
           UNCHANGED <<now, incidents, audits, alerts, crashes>>,
           counters' \in [DedupeKeys -> [count : 0 .. MaxRaises, start : Times]],
           \A q \in DedupeKeys : counters'[q].count <= raises'
    PROVE  IncidentInv'
<1>1. /\ \A t \in Callers \ {s} : callers'[t] = callers[t]
      /\ callers'[s] \in {Idle, [pc |-> "raise", key |-> k, at |-> now, ok |-> FALSE]}
      /\ callers' \in [Callers -> {Idle} \cup Raisings]
  <2>1. [pc |-> "raise", key |-> k, at |-> now, ok |-> FALSE]
          \in Raisings
    BY IncidentFacts DEF Steps, Raisings
  <2>2. callers \in [Callers -> {Idle} \cup Raisings]
    BY DEF IncidentInv, IncidentTyped
  <2>3. CASE UNCHANGED callers
    BY <2>2, <2>3
  <2>4. CASE Start(s, k)
    BY <2>1, <2>2, <2>4 DEF Start
  <2> QED BY <2>3, <2>4
<1>2. callers'[s].pc \in {"idle", "raise"} /\ callers[s].pc = "idle"
  BY <1>1 DEF Idle
<1>3. IncidentTyped'
  <2>1. IncidentTypeOK'
    <3>1. \A t \in Callers : callers'[t] # Idle =>
            callers'[t].pc \in Steps /\ callers'[t].key \in DedupeKeys /\ callers'[t].at \in Times
      BY <1>1 DEF Raisings
    <3>2. /\ now' \in Times /\ crashes' \in 0 .. MaxCrashes
          /\ incidents' \in [DedupeKeys -> Incidents \cup {None}]
          /\ \A q \in DedupeKeys : \A i \in DOMAIN audits'[q] :
               audits'[q][i] \in IncidentStates \X IncidentStates
      BY DEF IncidentTypeOK, IncidentInv, IncidentTyped
    <3>3. raises' \in 0 .. MaxRaises
      BY IncidentFacts
    <3> QED BY <3>1, <3>2, <3>3 DEF IncidentTypeOK
  <2>2. \A t \in Callers :
          callers'[t].pc \in {"dispatch", "record"} => incidents'[callers'[t].key] # None
    <3> SUFFICES ASSUME NEW t \in Callers, callers'[t].pc \in {"dispatch", "record"}
                 PROVE  incidents'[callers'[t].key] # None
      OBVIOUS
    <3>1. t # s /\ callers'[t] = callers[t]
      BY <1>1, <1>2
    <3> QED BY <3>1 DEF IncidentInv, IncidentTyped
  <2> QED BY <1>1, <2>1, <2>2 DEF IncidentInv, IncidentTyped
<1>4. Counted'
  <2> SUFFICES ASSUME NEW q \in DedupeKeys
               PROVE  counters'[q].count <= raises' /\ Seen(q)' + Cardinality(Coming(q))' <= raises'
    BY DEF Counted
  <2>1. Seen(q)' = Seen(q) /\ Seen(q) + Cardinality(Coming(q)) <= raises
    BY DEF Seen, IncidentInv, Counted
  <2>2. /\ Cardinality(Coming(q)) \in Nat /\ Cardinality(Coming(q)') \in Nat
        /\ Cardinality(Coming(q)') <= Cardinality(Coming(q)) + 1
    <3>1. ~Comes(s, q)
      BY <1>2 DEF Comes
    <3>2. Comes(s, q)' \in BOOLEAN /\ Comes(s, q) \in BOOLEAN
      BY DEF Comes
    <3> QED BY <1>1, <3>1, <3>2, ComingChanges, IncidentFacts
  <2>3. Seen(q) \in Nat /\ raises \in Nat
    BY IncidentFacts
  <2> QED BY <2>1, <2>2, <2>3
<1>5. \A q \in DedupeKeys : Spaced(q)'
  <2> SUFFICES ASSUME NEW q \in DedupeKeys PROVE Spaced(q)'
    OBVIOUS
  <2>1. \A t \in Callers : Alerting(t, q)' => Alerting(t, q) /\ callers'[t].at = callers[t].at
    BY <1>1, <1>2 DEF Alerting
  <2>2. \A t \in Callers : Alerting(t, q) => incidents[q] # None
    BY DEF Alerting, IncidentInv, IncidentTyped
  <2> QED BY <2>1, <2>2, SpacedStands DEF IncidentInv
<1>6. AlertsAreApart'
  BY DEF AlertsAreApart, IncidentInv
<1>7. Audited'
  BY DEF Audited, AuditExplainsState, IncidentInv
<1> QED BY <1>3, <1>4, <1>5, <1>6, <1>7 DEF IncidentInv

LEMMA RaiseKeeps ==
    ASSUME IncidentsAssumption, IncidentInv, NEW s \in Callers, NEW k \in DedupeKeys,
           Raise(s, k) \/ RecordBrokerConflict(s, k)
    PROVE  IncidentInv'
<1>1. CASE Raise(s, k)
  <2>1. \A q \in DedupeKeys : counters'[q].count <= raises'
    BY <1>1, IncidentFacts DEF Raise, IncidentInv, Counted
  <2>2. counters' \in [DedupeKeys -> [count : 0 .. MaxRaises, start : Times]]
    BY <1>1 DEF Raise, IncidentInv, IncidentTyped, IncidentTypeOK
  <2> QED BY <1>1, <2>1, <2>2, StartKeeps DEF Raise
<1>2. CASE RecordBrokerConflict(s, k)
  <2> DEFINE c == counters[k]
             expired == c.count > 0 /\ now - c.start > Window
             n == IF expired THEN 1 ELSE c.count + 1
             row == [count |-> n, start |-> IF expired \/ c.count = 0 THEN now ELSE c.start]
  <2>1. /\ callers[s] = Idle /\ raises < MaxRaises /\ raises' = raises + 1
        /\ counters' = [counters EXCEPT ![k] = row]
        /\ Start(s, k) \/ UNCHANGED callers
        /\ UNCHANGED <<now, incidents, audits, alerts, crashes>>
    BY <1>2 DEF RecordBrokerConflict
  <2>2. c.count \in Nat /\ c.count <= raises /\ c.start \in Times
    BY IncidentFacts DEF IncidentInv, Counted
  <2>3. n \in Nat /\ n <= raises + 1 /\ n <= MaxRaises
    BY <2>1, <2>2, IncidentFacts
  <2>4. row \in [count : 0 .. MaxRaises, start : Times] /\ row.count <= raises + 1
    BY <2>2, <2>3, IncidentFacts
  <2> HIDE DEF row, n, expired, c
  <2>5. /\ counters' \in [DedupeKeys -> [count : 0 .. MaxRaises, start : Times]]
        /\ \A q \in DedupeKeys : counters'[q].count <= raises'
    <3>1. counters \in [DedupeKeys -> [count : 0 .. MaxRaises, start : Times]]
      BY DEF IncidentInv, IncidentTyped, IncidentTypeOK
    <3>2. \A q \in DedupeKeys : counters[q].count <= raises /\ counters[q].count \in Nat
      BY <3>1 DEF IncidentInv, Counted
    <3>3. raises \in Nat
      BY IncidentFacts
    <3> QED BY <2>1, <2>4, <3>1, <3>2, <3>3
  <2> QED BY <2>1, <2>5, StartKeeps
<1> QED BY <1>1, <1>2

\* Rows may appear open and may be reopened: the audit rows still explain them.
LEMMA AuditedStands ==
    ASSUME Audited, audits' = audits,
           \A k \in DedupeKeys : incidents'[k] = None => incidents[k] = None,
           \A k \in DedupeKeys :
             incidents[k] = None /\ incidents'[k] # None => incidents'[k].state = "open",
           \A k \in DedupeKeys : incidents[k] # None =>
             \/ incidents'[k].state = incidents[k].state
             \/ incidents[k].state = "resolved" /\ incidents'[k].state = "open"
    PROVE  Audited'
<1>1. \A k \in DedupeKeys : incidents'[k] = None => audits'[k] = <<>>
  BY DEF Audited
<1>2. AuditExplainsState'
  <2> SUFFICES ASSUME NEW k \in DedupeKeys, incidents'[k] # None
               PROVE  LET log == audits'[k] IN
                      /\ incidents'[k].state # "open" =>
                           log # <<>> /\ log[Len(log)][2] = incidents'[k].state
                      /\ incidents'[k].state = "open" => log = <<>> \/ log[Len(log)][2] = "resolved"
                      /\ \A i \in 1 .. Len(log) - 1 :
                           \/ log[i + 1][1] = log[i][2]
                           \/ log[i][2] = "resolved" /\ log[i + 1][1] = "open"
    BY DEF AuditExplainsState
  <2>1. CASE incidents[k] = None
    BY <2>1 DEF Audited
  <2>2. CASE incidents[k] # None
    BY <2>2 DEF Audited, AuditExplainsState
  <2> QED BY <2>1, <2>2
<1> QED BY <1>1, <1>2 DEF Audited

\* A caller finds no row, gives up or is lost.
LEMMA MoveKeeps ==
    ASSUME IncidentsAssumption, IncidentInv, NEW s \in Callers, NEW w \in {Idle} \cup Raisings,
           callers' = [callers EXCEPT ![s] = w], w.pc \in {"idle", "insert"},
           w.pc = "insert" => callers[s].pc = "raise" /\ w.key = callers[s].key,
           crashes' \in 0 .. MaxCrashes,
           UNCHANGED <<now, incidents, counters, audits, alerts, raises>>
    PROVE  IncidentInv'
<1>1. /\ \A t \in Callers \ {s} : callers'[t] = callers[t]
      /\ callers'[s] = w
      /\ callers' \in [Callers -> {Idle} \cup Raisings]
  BY DEF IncidentInv, IncidentTyped
<1>2. IncidentTyped'
  <2>1. \A t \in Callers : callers'[t] # Idle =>
            callers'[t].pc \in Steps /\ callers'[t].key \in DedupeKeys /\ callers'[t].at \in Times
    BY <1>1 DEF Raisings
  <2>2. \A t \in Callers :
          callers'[t].pc \in {"dispatch", "record"} => incidents'[callers'[t].key] # None
    <3> SUFFICES ASSUME NEW t \in Callers, callers'[t].pc \in {"dispatch", "record"}
                 PROVE  incidents'[callers'[t].key] # None
      OBVIOUS
    <3>1. t # s /\ callers'[t] = callers[t]
      BY <1>1
    <3> QED BY <3>1 DEF IncidentInv, IncidentTyped
  <2> QED BY <1>1, <2>1, <2>2 DEF IncidentInv, IncidentTyped, IncidentTypeOK
<1>3. Counted'
  <2> SUFFICES ASSUME NEW q \in DedupeKeys
               PROVE  counters'[q].count <= raises' /\ Seen(q)' + Cardinality(Coming(q))' <= raises'
    BY DEF Counted
  <2>1. /\ Seen(q)' = Seen(q) /\ Seen(q) + Cardinality(Coming(q)) <= raises
        /\ Seen(q) \in Nat /\ raises \in Nat
    BY IncidentFacts DEF Seen, IncidentInv, Counted
  <2>2. /\ Cardinality(Coming(q)) \in Nat /\ Cardinality(Coming(q)') \in Nat
        /\ Cardinality(Coming(q)') <= Cardinality(Coming(q))
    <3>1. Comes(s, q)' => Comes(s, q)
      BY <1>1 DEF Comes
    <3>2. Comes(s, q)' \in BOOLEAN /\ Comes(s, q) \in BOOLEAN
      BY DEF Comes
    <3> QED BY <1>1, <3>1, <3>2, ComingChanges, IncidentFacts
  <2> QED BY <2>1, <2>2 DEF IncidentInv, Counted
<1>4. \A q \in DedupeKeys : Spaced(q)'
  <2> SUFFICES ASSUME NEW q \in DedupeKeys PROVE Spaced(q)'
    OBVIOUS
  <2>1. \A t \in Callers : Alerting(t, q)' => Alerting(t, q) /\ callers'[t].at = callers[t].at
    BY <1>1 DEF Alerting
  <2>2. \A t \in Callers : Alerting(t, q) => incidents[q] # None
    BY DEF Alerting, IncidentInv, IncidentTyped
  <2> QED BY <2>1, <2>2, SpacedStands DEF IncidentInv
<1>5. AlertsAreApart' /\ Audited'
  BY DEF AlertsAreApart, Audited, AuditExplainsState, IncidentInv
<1> QED BY <1>2, <1>3, <1>4, <1>5 DEF IncidentInv

LEMMA FindNoneKeeps ==
    ASSUME IncidentsAssumption, IncidentInv, NEW s \in Callers, FindNone(s)
    PROVE  IncidentInv'
<1> DEFINE w == [callers[s] EXCEPT !.pc = "insert"]
<1>1. callers[s] \in Raisings /\ callers[s].pc = "raise"
  BY IncidentFacts DEF FindNone
<1>2. w \in Raisings /\ w.pc = "insert" /\ w.key = callers[s].key
  BY <1>1 DEF Raisings, Steps
<1>3. /\ callers' = [callers EXCEPT ![s] = w]
      /\ UNCHANGED <<now, incidents, counters, audits, alerts, raises, crashes>>
  BY DEF FindNone, Goto
<1>4. crashes \in 0 .. MaxCrashes
  BY DEF IncidentInv, IncidentTyped, IncidentTypeOK
<1> HIDE DEF w
<1> QED BY <1>1, <1>2, <1>3, <1>4, MoveKeeps

LEMMA CrashKeeps ==
    ASSUME IncidentsAssumption, IncidentInv, NEW s \in Callers, Crash(s)
    PROVE  IncidentInv'
<1>1. Idle.pc = "idle"
  BY DEF Idle
<1>2. crashes' \in 0 .. MaxCrashes
  BY IncidentFacts DEF Crash
<1> QED BY <1>1, <1>2, MoveKeeps DEF Crash, Done

\* A caller that came to a row is counted, so the row has room for it.
LEMMA RoomForOne ==
    ASSUME IncidentsAssumption, IncidentInv, NEW s \in Callers, NEW k \in DedupeKeys, Comes(s, k)
    PROVE  Seen(k) + 1 <= MaxRaises /\ Seen(k) + 1 \in 1 .. MaxRaises
<1>1. Coming(k) # {} /\ IsFiniteSet(Coming(k))
  BY FS_Subset, IncidentFacts DEF Coming
<1>2. Cardinality(Coming(k)) # 0 /\ Cardinality(Coming(k)) \in Nat
  BY <1>1, FS_EmptySet, FS_CardinalityType
<1>3. Seen(k) + Cardinality(Coming(k)) <= raises
  BY DEF IncidentInv, Counted
<1> QED BY <1>2, <1>3, IncidentFacts

\* One occurrence of k is stored, with or without a new alert.
LEMMA OccurrenceKeeps ==
    ASSUME IncidentsAssumption, IncidentInv, NEW s \in Callers, NEW k \in DedupeKeys, Comes(s, k),
           NEW row \in Incidents, NEW w \in {Idle} \cup Raisings,
           incidents' = [incidents EXCEPT ![k] = row],
           callers' = [callers EXCEPT ![s] = w],
           row.occurrences = Seen(k) + 1, w.pc \in {"idle", "dispatch"},
           w.pc = "dispatch" =>
             /\ w.key = k /\ row.until = w.at + Cooldown
             /\ incidents[k] # None => w.at >= incidents[k].until,
           w.pc = "idle" => incidents[k] # None /\ row.until = incidents[k].until,
           incidents[k] = None => row.state = "open",
           incidents[k] # None =>
             \/ row.state = incidents[k].state
             \/ incidents[k].state = "resolved" /\ row.state = "open",
           UNCHANGED <<now, counters, audits, alerts, raises, crashes>>
    PROVE  IncidentInv'
<1>1. /\ \A t \in Callers \ {s} : callers'[t] = callers[t]
      /\ callers'[s] = w
      /\ callers' \in [Callers -> {Idle} \cup Raisings]
  BY DEF IncidentInv, IncidentTyped
<1>2. /\ incidents' \in [DedupeKeys -> Incidents \cup {None}]
      /\ incidents'[k] = row /\ row # None
      /\ \A q \in DedupeKeys \ {k} : incidents'[q] = incidents[q]
  BY IncidentFacts DEF IncidentInv, IncidentTyped, IncidentTypeOK
<1>3. callers[s].pc \in {"raise", "insert"} /\ callers[s].key = k
  BY DEF Comes
<1>4. IncidentTyped'
  <2>1. \A t \in Callers : callers'[t] # Idle =>
            callers'[t].pc \in Steps /\ callers'[t].key \in DedupeKeys /\ callers'[t].at \in Times
    BY <1>1 DEF Raisings
  <2>2. \A t \in Callers :
          callers'[t].pc \in {"dispatch", "record"} => incidents'[callers'[t].key] # None
    <3> SUFFICES ASSUME NEW t \in Callers, callers'[t].pc \in {"dispatch", "record"}
                 PROVE  incidents'[callers'[t].key] # None
      OBVIOUS
    <3>1. CASE t = s
      BY <1>1, <1>2, <3>1
    <3>2. CASE t # s
      <4>1. callers'[t] = callers[t] /\ incidents[callers[t].key] # None
        BY <1>1, <3>2 DEF IncidentInv, IncidentTyped
      <4>2. callers[t] \in Raisings
        BY <4>1, IncidentFacts
      <4> QED BY <1>2, <4>1, <4>2 DEF Raisings
    <3> QED BY <3>1, <3>2
  <2> QED BY <1>1, <1>2, <2>1, <2>2 DEF IncidentInv, IncidentTyped, IncidentTypeOK
<1>5. Counted'
  <2> SUFFICES ASSUME NEW q \in DedupeKeys
               PROVE  counters'[q].count <= raises' /\ Seen(q)' + Cardinality(Coming(q))' <= raises'
    BY DEF Counted
  <2>1. Comes(s, q)' = FALSE /\ (Comes(s, q) <=> q = k)
    BY <1>1, <1>3 DEF Comes
  <2>2. /\ Cardinality(Coming(q)) \in Nat /\ Cardinality(Coming(q)') \in Nat
        /\ q = k => Cardinality(Coming(q)') = Cardinality(Coming(q)) - 1
        /\ q # k => Cardinality(Coming(q)') = Cardinality(Coming(q))
    <3>1. Comes(s, q) \in BOOLEAN
      BY DEF Comes
    <3> QED BY <1>1, <2>1, <3>1, ComingChanges, IncidentFacts
  <2>3. /\ q = k => Seen(q)' = Seen(q) + 1
        /\ q # k => Seen(q)' = Seen(q)
    BY <1>2 DEF Seen
  <2>4. Seen(q) \in Nat /\ raises \in Nat /\ Seen(q) + Cardinality(Coming(q)) <= raises
    BY IncidentFacts DEF IncidentInv, Counted
  <2> QED BY <2>2, <2>3, <2>4 DEF IncidentInv, Counted
<1>6. \A q \in DedupeKeys : Spaced(q)'
  <2> SUFFICES ASSUME NEW q \in DedupeKeys PROVE Spaced(q)'
    OBVIOUS
  <2>1. \A t \in Callers : Alerting(t, q) => incidents[q] # None
    BY DEF Alerting, IncidentInv, IncidentTyped
  <2>2. CASE q # k \/ w.pc = "idle"
    <3>1. \A t \in Callers : Alerting(t, q)' => Alerting(t, q) /\ callers'[t].at = callers[t].at
      BY <1>1, <2>2 DEF Alerting
    <3>2. /\ incidents'[q] = None <=> incidents[q] = None
          /\ incidents[q] # None => incidents'[q].until = incidents[q].until
      BY <1>2, <2>2
    <3> QED BY <2>1, <3>1, <3>2, SpacedStands DEF IncidentInv
  <2>3. CASE q = k /\ w.pc = "dispatch"
    <3>0. Spaced(k)
      BY DEF IncidentInv
    <3>1. /\ Cooldown \in Nat /\ w.at \in Nat /\ incidents'[k].until = w.at + Cooldown
          /\ alerts[k] \in Seq(Times)
      BY <1>2, <2>3, IncidentFacts DEF Raisings, Idle, Times, IncidentInv, IncidentTyped
    <3>2. \A i \in DOMAIN alerts[k] : alerts[k][i] \in Nat
      <4>1. \A i \in DOMAIN alerts[k] : alerts[k][i] \in Times
        BY ONLY <3>1, ElementOfSeq, LenProperties
      <4> QED BY <4>1, IncidentFacts DEF Times
    <3>3. \A i \in DOMAIN alerts[k] : w.at >= alerts[k][i] + Cooldown
      <4>1. CASE incidents[k] = None
        BY <3>0, <4>1 DEF Spaced
      <4>2. CASE incidents[k] # None
        <5>1. incidents[k].until \in Nat
          BY <4>2, IncidentFacts DEF Incidents
        <5>2. w.at >= incidents[k].until
          BY <2>3, <4>2
        <5> QED BY <3>0, <3>1, <3>2, <4>2, <5>1, <5>2 DEF Spaced
      <4> QED BY <4>1, <4>2
    <3>4. \A t \in Callers \ {s} : Alerting(t, k)' =>
            callers'[t].at \in Nat /\ w.at >= callers'[t].at + Cooldown
      <4> SUFFICES ASSUME NEW t \in Callers \ {s}, Alerting(t, k)'
                   PROVE  callers'[t].at \in Nat /\ w.at >= callers'[t].at + Cooldown
        OBVIOUS
      <4>1. Alerting(t, k) /\ callers'[t] = callers[t] /\ callers[t] \in Raisings
        BY <1>1, IncidentFacts DEF Alerting
      <4>2. incidents[k] # None /\ incidents[k].until >= callers[t].at + Cooldown
        BY <2>1, <2>3, <3>0, <4>1 DEF Spaced
      <4>3. incidents[k].until \in Nat /\ callers[t].at \in Nat /\ w.at >= incidents[k].until
        BY <2>3, <4>1, <4>2, IncidentFacts DEF Incidents, Raisings, Times
      <4> QED BY <3>1, <4>1, <4>2, <4>3
    <3>5. ASSUME NEW t \in Callers, Alerting(t, k)'
          PROVE  /\ incidents'[k].until >= callers'[t].at + Cooldown
                 /\ \A i \in DOMAIN alerts'[k] : Apart(callers'[t].at, alerts'[k][i])
                 /\ \A u \in Callers \ {t} : Alerting(u, k)' => Apart(callers'[t].at, callers'[u].at)
      <4>1. CASE t = s
        BY <1>1, <3>1, <3>3, <3>4, <4>1 DEF Apart
      <4>2. CASE t # s
        <5>1. Alerting(t, k) /\ callers'[t] = callers[t]
          BY <1>1, <3>5, <4>2 DEF Alerting
        <5>2. incidents'[k].until >= callers'[t].at + Cooldown
          BY <3>1, <3>4, <3>5, <4>2
        <5>3. \A i \in DOMAIN alerts'[k] : Apart(callers'[t].at, alerts'[k][i])
          BY <3>0, <5>1 DEF Spaced, Apart
        <5>4. ASSUME NEW u \in Callers \ {t}, Alerting(u, k)'
              PROVE  Apart(callers'[t].at, callers'[u].at)
          <6>1. CASE u = s
            BY <1>1, <3>4, <3>5, <4>2, <6>1 DEF Apart
          <6>2. CASE u # s
            <7>1. Alerting(u, k) /\ callers'[u] = callers[u]
              BY <1>1, <5>4, <6>2 DEF Alerting
            <7> QED BY <3>0, <5>1, <7>1 DEF Spaced, Apart
          <6> QED BY <6>1, <6>2
        <5> QED BY <5>2, <5>3, <5>4
      <4> QED BY <4>1, <4>2
    <3>6. /\ incidents'[k] # None
          /\ \A i \in DOMAIN alerts'[k] : incidents'[k].until >= alerts'[k][i] + Cooldown
      BY <1>2, <3>1, <3>2, <3>3
    <3>7. Spaced(k)'
      BY <3>5, <3>6 DEF Spaced, Apart
    <3> QED BY <2>3, <3>7
  <2> QED BY <1>1, <2>2, <2>3
<1>7. AlertsAreApart'
  BY DEF AlertsAreApart, IncidentInv
<1>8. Audited'
  <2>1. \A q \in DedupeKeys : incidents'[q] = None => incidents[q] = None
    BY <1>2
  <2>2. \A q \in DedupeKeys :
          incidents[q] = None /\ incidents'[q] # None => incidents'[q].state = "open"
    BY <1>2
  <2>3. \A q \in DedupeKeys : incidents[q] # None =>
             \/ incidents'[q].state = incidents[q].state
             \/ incidents[q].state = "resolved" /\ incidents'[q].state = "open"
    BY <1>2
  <2> QED BY <2>1, <2>2, <2>3, AuditedStands DEF IncidentInv
<1> QED BY <1>4, <1>5, <1>6, <1>7, <1>8 DEF IncidentInv

LEMMA InsertKeeps ==
    ASSUME IncidentsAssumption, IncidentInv, NEW s \in Callers, Insert(s)
    PROVE  IncidentInv'
<1> DEFINE k == callers[s].key
           row == [state |-> "open", occurrences |-> 1, until |-> callers[s].at + Cooldown,
                   lastSeen |-> callers[s].at, delivery |-> "not_configured"]
           w == [callers[s] EXCEPT !.pc = "dispatch"]
<1>1. callers[s] \in Raisings /\ callers[s].pc = "insert" /\ k \in DedupeKeys
  BY IncidentFacts DEF Insert, Raisings
<1>2. CASE incidents[k] = None
  <2>1. w \in Raisings /\ w.pc = "dispatch" /\ w.key = k /\ w.at = callers[s].at
    BY <1>1 DEF Raisings, Steps
  <2>2. Comes(s, k) /\ Seen(k) = 0
    BY <1>1, <1>2 DEF Comes, Seen
  <2>3. 1 \in 1 .. MaxRaises
    BY <1>1, <2>2, RoomForOne
  <2>4. callers[s].at \in Times /\ callers[s].at + Cooldown \in Nat
    BY <1>1, IncidentFacts DEF Raisings, Times
  <2>5. /\ row \in Incidents /\ row.occurrences = Seen(k) + 1 /\ row.state = "open"
        /\ row.until = w.at + Cooldown
    BY <2>1, <2>2, <2>3, <2>4 DEF Incidents, IncidentStates
  <2>6. /\ incidents' = [incidents EXCEPT ![k] = row] /\ callers' = [callers EXCEPT ![s] = w]
        /\ UNCHANGED <<now, counters, audits, alerts, raises, crashes>>
    BY <1>2 DEF Insert, Goto
  <2> HIDE DEF row, w, k
  <2> QED BY <1>1, <1>2, <2>1, <2>2, <2>5, <2>6, OccurrenceKeeps
<1>3. CASE incidents[k] # None
  <2>1. callers' = [callers EXCEPT ![s] = Idle]
        /\ UNCHANGED <<now, incidents, counters, audits, alerts, raises, crashes>>
    BY <1>3 DEF Insert, Done
  <2>2. crashes \in 0 .. MaxCrashes /\ Idle.pc = "idle"
    BY DEF IncidentInv, IncidentTyped, IncidentTypeOK, Idle
  <2> QED BY <2>1, <2>2, MoveKeeps
<1> QED BY <1>2, <1>3

LEMMA RepeatKeeps ==
    ASSUME IncidentsAssumption, IncidentInv, NEW s \in Callers, Repeat(s)
    PROVE  IncidentInv'
<1> DEFINE k == callers[s].key
           old == incidents[k]
           due == callers[s].at >= old.until
           row == [old EXCEPT !.occurrences = @ + 1, !.lastSeen = callers[s].at,
                              !.until = IF due THEN callers[s].at + Cooldown ELSE @,
                              !.state = IF @ = "resolved" THEN "open" ELSE @]
           w == IF due THEN [callers[s] EXCEPT !.pc = "dispatch"] ELSE Idle
<1>1. /\ callers[s] \in Raisings /\ callers[s].pc = "raise" /\ k \in DedupeKeys
      /\ old # None /\ old \in Incidents
  BY IncidentFacts DEF Repeat, Raisings
<1>2. Comes(s, k) /\ Seen(k) = old.occurrences
  BY <1>1 DEF Comes, Seen
<1>3. old.occurrences + 1 \in 1 .. MaxRaises
  BY <1>1, <1>2, RoomForOne
<1>4. callers[s].at \in Times /\ callers[s].at + Cooldown \in Nat
  BY <1>1, IncidentFacts DEF Raisings, Times
<1>5. /\ w \in {Idle} \cup Raisings /\ w.pc \in {"idle", "dispatch"}
      /\ w.pc = "dispatch" <=> due
      /\ due => w.key = k /\ w.at = callers[s].at
  BY <1>1 DEF Raisings, Steps, Idle
<1>6. /\ row \in Incidents /\ row.occurrences = Seen(k) + 1
      /\ row.until = IF due THEN callers[s].at + Cooldown ELSE old.until
      /\ row.state = old.state \/ (old.state = "resolved" /\ row.state = "open")
  BY <1>1, <1>2, <1>3, <1>4 DEF Incidents, IncidentStates
<1>7. /\ incidents' = [incidents EXCEPT ![k] = row] /\ callers' = [callers EXCEPT ![s] = w]
      /\ UNCHANGED <<now, counters, audits, alerts, raises, crashes>>
  BY DEF Repeat, Goto, Done
<1>8. /\ w.pc = "dispatch" => w.key = k /\ row.until = w.at + Cooldown /\ w.at >= old.until
      /\ w.pc = "idle" => row.until = old.until
  BY <1>5, <1>6
<1> HIDE DEF row, w, due
<1> QED BY <1>1, <1>2, <1>5, <1>6, <1>7, <1>8, OccurrenceKeeps

LEMMA DispatchKeeps ==
    ASSUME IncidentsAssumption, IncidentInv, NEW s \in Callers, Dispatch(s)
    PROVE  IncidentInv'
<1> DEFINE k == callers[s].key
           a == callers[s].at
<1>1. PICK ok \in BOOLEAN :
        /\ callers[s].pc = "dispatch" /\ alerts' = [alerts EXCEPT ![k] = Append(@, a)]
        /\ callers' = [callers EXCEPT ![s].pc = "record", ![s].ok = ok]
        /\ UNCHANGED <<now, incidents, counters, audits, raises, crashes>>
  BY DEF Dispatch
<1>2. callers[s] \in Raisings /\ k \in DedupeKeys /\ a \in Times /\ incidents[k] # None
  BY <1>1, IncidentFacts DEF Raisings, IncidentInv, IncidentTyped
<1> DEFINE w == [callers[s] EXCEPT !.pc = "record", !.ok = ok]
<1>3. w \in Raisings /\ w.pc = "record" /\ w.key = k
  BY <1>2 DEF Raisings, Steps
<1>4. /\ \A t \in Callers \ {s} : callers'[t] = callers[t]
      /\ callers'[s] = w
      /\ callers' \in [Callers -> {Idle} \cup Raisings]
  <2>1. callers' = [callers EXCEPT ![s] = w] /\ callers \in [Callers -> {Idle} \cup Raisings]
    BY <1>1 DEF IncidentInv, IncidentTyped
  <2> HIDE DEF w
  <2> QED BY <1>3, <2>1
<1> HIDE DEF w
<1>5. /\ alerts[k] \in Seq(Times) /\ alerts'[k] = Append(alerts[k], a)
      /\ \A q \in DedupeKeys \ {k} : alerts'[q] = alerts[q]
      /\ alerts' \in [DedupeKeys -> Seq(Times)]
  <2>1. alerts \in [DedupeKeys -> Seq(Times)]
    BY DEF IncidentInv, IncidentTyped
  <2>2. Append(alerts[k], a) \in Seq(Times)
    BY <1>2, <2>1, AppendProperties
  <2> HIDE DEF k, a
  <2> QED BY <1>1, <1>2, <2>1, <2>2
<1>6. ASSUME NEW i \in DOMAIN alerts'[k]
      PROVE  \/ i \in DOMAIN alerts[k] /\ alerts'[k][i] = alerts[k][i] /\ i # Len(alerts[k]) + 1
             \/ i = Len(alerts[k]) + 1 /\ alerts'[k][i] = a
  BY <1>2, <1>5, <1>6, AppendProperties
<1>7. IncidentTyped'
  <2>1. \A t \in Callers : callers'[t] # Idle =>
            callers'[t].pc \in Steps /\ callers'[t].key \in DedupeKeys /\ callers'[t].at \in Times
    BY <1>4 DEF Raisings
  <2>2. \A t \in Callers :
          callers'[t].pc \in {"dispatch", "record"} => incidents'[callers'[t].key] # None
    <3>1. \A t \in Callers : callers'[t] = callers[t] \/ (t = s /\ callers'[t] = w)
      BY <1>4
    <3> QED BY <1>1, <1>2, <1>3, <3>1 DEF IncidentInv, IncidentTyped
  <2> QED BY <1>1, <1>4, <1>5, <2>1, <2>2 DEF IncidentInv, IncidentTyped, IncidentTypeOK
<1>8. Counted'
  <2> SUFFICES ASSUME NEW q \in DedupeKeys
               PROVE  counters'[q].count <= raises' /\ Seen(q)' + Cardinality(Coming(q))' <= raises'
    BY DEF Counted
  <2>1. Comes(s, q)' = FALSE /\ Comes(s, q) = FALSE
    BY <1>1, <1>3, <1>4 DEF Comes
  <2>2. Cardinality(Coming(q)') = Cardinality(Coming(q))
    BY <1>4, <2>1, ComingChanges, IncidentFacts
  <2>3. Seen(q)' = Seen(q)
    BY <1>1 DEF Seen
  <2> QED BY <1>1, <2>2, <2>3 DEF IncidentInv, Counted
<1>9. \A q \in DedupeKeys : Spaced(q)'
  <2> SUFFICES ASSUME NEW q \in DedupeKeys PROVE Spaced(q)'
    OBVIOUS
  <2>0. Spaced(q)
    BY DEF IncidentInv
  <2>1. ASSUME NEW t \in Callers, Alerting(t, q)'
        PROVE  t # s /\ Alerting(t, q) /\ callers'[t] = callers[t]
    BY <1>3, <1>4, <2>1 DEF Alerting
  <2>2. Alerting(s, k)
    BY <1>1 DEF Alerting
  <2>3. /\ incidents'[q] = None => alerts'[q] = <<>>
        /\ incidents'[q] # None =>
             \A i \in DOMAIN alerts'[q] : incidents'[q].until >= alerts'[q][i] + Cooldown
    <3>1. CASE q # k
      BY <1>1, <1>5, <2>0, <3>1 DEF Spaced
    <3>2. CASE q = k
      BY <1>1, <1>2, <1>6, <2>0, <2>2, <3>2 DEF Spaced
    <3> QED BY <3>1, <3>2
  <2>4. ASSUME NEW t \in Callers, Alerting(t, q)'
        PROVE  /\ incidents'[q].until >= callers'[t].at + Cooldown
               /\ \A i \in DOMAIN alerts'[q] : Apart(callers'[t].at, alerts'[q][i])
               /\ \A u \in Callers \ {t} : Alerting(u, q)' => Apart(callers'[t].at, callers'[u].at)
    <3>1. t # s /\ Alerting(t, q) /\ callers'[t] = callers[t]
      BY <2>1, <2>4
    <3>2. incidents'[q].until >= callers'[t].at + Cooldown
      BY <1>1, <2>0, <3>1 DEF Spaced
    <3>3. ASSUME NEW u \in Callers \ {t}, Alerting(u, q)'
          PROVE  Apart(callers'[t].at, callers'[u].at)
      <4>1. Alerting(u, q) /\ callers'[u] = callers[u]
        BY <2>1, <3>3
      <4> QED BY <2>0, <3>1, <4>1 DEF Spaced, Apart
    <3>4. ASSUME NEW i \in DOMAIN alerts'[q] PROVE Apart(callers'[t].at, alerts'[q][i])
      <4>1. CASE q # k
        BY <1>5, <2>0, <3>1, <3>4, <4>1 DEF Spaced, Apart
      <4>2. CASE q = k
        <5>1. Apart(callers[t].at, a)
          BY <2>0, <2>2, <3>1, <4>2 DEF Spaced
        <5>2. \A j \in DOMAIN alerts[k] : Apart(callers[t].at, alerts[k][j])
          BY <2>0, <3>1, <4>2 DEF Spaced
        <5> HIDE DEF a
        <5> QED BY <1>6, <3>1, <3>4, <4>2, <5>1, <5>2 DEF Apart
      <4> QED BY <4>1, <4>2
    <3> QED BY <3>2, <3>3, <3>4
  <2> QED BY <2>3, <2>4 DEF Spaced, Apart
<1>10. AlertsAreApart'
  <2> SUFFICES ASSUME NEW q \in DedupeKeys, NEW i \in DOMAIN alerts'[q], NEW j \in DOMAIN alerts'[q],
                      i # j
               PROVE  Apart(alerts'[q][i], alerts'[q][j])
    BY DEF AlertsAreApart, Apart
  <2>1. \A m, n \in DOMAIN alerts[q] : m # n => Apart(alerts[q][m], alerts[q][n])
    BY DEF IncidentInv, AlertsAreApart, Apart
  <2>2. CASE q # k
    BY <1>5, <2>1, <2>2
  <2>3. CASE q = k
    <3>1. \A m \in DOMAIN alerts[k] : Apart(a, alerts[k][m])
      BY <1>1, <1>2 DEF IncidentInv, Spaced, Alerting
    <3>2. \A x, y : Apart(x, y) <=> Apart(y, x)
      BY DEF Apart
    <3> HIDE DEF a
    <3> QED BY <1>6, <2>1, <2>3, <3>1, <3>2
  <2> QED BY <2>2, <2>3
<1>11. Audited'
  BY <1>1 DEF Audited, AuditExplainsState, IncidentInv
<1> QED BY <1>7, <1>8, <1>9, <1>10, <1>11 DEF IncidentInv

\* A row changes in what neither alerts nor occurrences depend on.
LEMMA RowKeeps ==
    ASSUME IncidentsAssumption, IncidentInv, NEW k \in DedupeKeys, NEW row \in Incidents,
           incidents[k] # None, incidents' = [incidents EXCEPT ![k] = row],
           row.occurrences = incidents[k].occurrences, row.until = incidents[k].until,
           callers' \in [Callers -> {Idle} \cup Raisings],
           \A s \in Callers : callers'[s] = callers[s] \/ callers'[s] = Idle,
           audits' \in [DedupeKeys -> Seq(IncidentStates \X IncidentStates)],
           UNCHANGED <<now, counters, alerts, raises, crashes>>, Audited'
    PROVE  IncidentInv'
<1>1. /\ incidents' \in [DedupeKeys -> Incidents \cup {None}]
      /\ incidents'[k] = row /\ row # None
      /\ \A q \in DedupeKeys \ {k} : incidents'[q] = incidents[q]
  BY IncidentFacts DEF IncidentInv, IncidentTyped, IncidentTypeOK
<1>2. \A q \in DedupeKeys :
        /\ incidents'[q] = None <=> incidents[q] = None
        /\ incidents[q] # None => incidents'[q].until = incidents[q].until
                                  /\ incidents'[q].occurrences = incidents[q].occurrences
  BY <1>1
<1>3. Idle.pc = "idle"
  BY DEF Idle
<1>4. IncidentTyped'
  <2>1. \A t \in Callers : callers'[t] # Idle =>
            callers'[t].pc \in Steps /\ callers'[t].key \in DedupeKeys /\ callers'[t].at \in Times
    BY DEF Raisings
  <2>2. \A t \in Callers :
          callers'[t].pc \in {"dispatch", "record"} => incidents'[callers'[t].key] # None
    <3> SUFFICES ASSUME NEW t \in Callers, callers'[t].pc \in {"dispatch", "record"}
                 PROVE  incidents'[callers'[t].key] # None
      OBVIOUS
    <3>1. callers'[t] = callers[t]
      BY <1>3
    <3>2. incidents[callers[t].key] # None
      BY <3>1 DEF IncidentInv, IncidentTyped
    <3>3. callers[t] \in Raisings
      BY <1>3, <3>1, IncidentFacts
    <3> QED BY <1>2, <3>1, <3>2, <3>3 DEF Raisings
  <2>3. \A q \in DedupeKeys : \A i \in DOMAIN audits'[q] : audits'[q][i] \in IncidentStates \X IncidentStates
    BY ElementOfSeq, LenProperties
  <2>4. /\ now' \in Times /\ raises' \in 0 .. MaxRaises /\ crashes' \in 0 .. MaxCrashes
        /\ counters' \in [DedupeKeys -> [count : 0 .. MaxRaises, start : Times]]
        /\ alerts' \in [DedupeKeys -> Seq(Times)]
    BY DEF IncidentInv, IncidentTyped, IncidentTypeOK
  <2>5. IncidentTypeOK'
    BY <1>1, <2>1, <2>3, <2>4 DEF IncidentTypeOK
  <2> QED BY <2>2, <2>4, <2>5 DEF IncidentTyped
<1>5. Counted'
  <2> SUFFICES ASSUME NEW q \in DedupeKeys
               PROVE  counters'[q].count <= raises' /\ Seen(q)' + Cardinality(Coming(q))' <= raises'
    BY DEF Counted
  <2>1. Coming(q)' \subseteq Coming(q) /\ IsFiniteSet(Coming(q))
    BY <1>3, FS_Subset, IncidentFacts DEF Coming, Comes
  <2>2. Cardinality(Coming(q)') <= Cardinality(Coming(q)) /\ Cardinality(Coming(q)) \in Nat
    BY <2>1, FS_Subset, FS_CardinalityType
  <2>3. Cardinality(Coming(q)') \in Nat
    BY <2>1, FS_Subset, FS_CardinalityType
  <2>4. Seen(q)' = Seen(q)
    BY <1>2 DEF Seen
  <2>5. Seen(q) + Cardinality(Coming(q)) <= raises /\ Seen(q) \in Nat /\ raises \in Nat
    BY IncidentFacts DEF IncidentInv, Counted
  <2> QED BY <2>2, <2>3, <2>4, <2>5 DEF IncidentInv, Counted
<1>6. \A q \in DedupeKeys : Spaced(q)'
  <2> SUFFICES ASSUME NEW q \in DedupeKeys PROVE Spaced(q)'
    OBVIOUS
  <2>1. \A t \in Callers : Alerting(t, q)' => Alerting(t, q) /\ callers'[t].at = callers[t].at
    BY <1>3 DEF Alerting
  <2>2. \A t \in Callers : Alerting(t, q) => incidents[q] # None
    BY DEF Alerting, IncidentInv, IncidentTyped
  <2> QED BY <1>2, <2>1, <2>2, SpacedStands DEF IncidentInv
<1>7. AlertsAreApart'
  BY DEF AlertsAreApart, IncidentInv
<1> QED BY <1>4, <1>5, <1>6, <1>7 DEF IncidentInv

LEMMA RecordDeliveryKeeps ==
    ASSUME IncidentsAssumption, IncidentInv, NEW s \in Callers, RecordDelivery(s)
    PROVE  IncidentInv'
<1> DEFINE k == callers[s].key
           old == incidents[k]
           row == [old EXCEPT !.delivery = IF callers[s].ok THEN "delivered" ELSE "failed"]
<1>1. callers[s] \in Raisings /\ k \in DedupeKeys /\ old # None /\ old \in Incidents
  BY IncidentFacts DEF RecordDelivery, Raisings, IncidentInv, IncidentTyped
<1>2. /\ row \in Incidents /\ row.occurrences = old.occurrences /\ row.until = old.until
      /\ row.state = old.state
  BY <1>1 DEF Incidents
<1>3. incidents' = [incidents EXCEPT ![k] = row]
  BY DEF RecordDelivery
<1>4. /\ callers' \in [Callers -> {Idle} \cup Raisings]
      /\ \A t \in Callers : callers'[t] = callers[t] \/ callers'[t] = Idle
  BY DEF RecordDelivery, Done, IncidentInv, IncidentTyped
<1>5. /\ audits' = audits /\ audits' \in [DedupeKeys -> Seq(IncidentStates \X IncidentStates)]
      /\ UNCHANGED <<now, counters, alerts, raises, crashes>>
  BY DEF RecordDelivery, IncidentInv, IncidentTyped
<1> HIDE DEF row
<1>6. Audited'
  <2>1. /\ incidents'[k] = row /\ row # None
        /\ \A q \in DedupeKeys \ {k} : incidents'[q] = incidents[q]
    BY <1>1, <1>2, <1>3, IncidentFacts DEF IncidentInv, IncidentTyped, IncidentTypeOK
  <2>2. \A q \in DedupeKeys : /\ incidents'[q] = None <=> incidents[q] = None
                              /\ incidents[q] # None => incidents'[q].state = incidents[q].state
    BY <1>1, <1>2, <2>1
  <2> QED BY <1>5, <2>2, AuditedStands DEF IncidentInv
<1> QED BY <1>1, <1>2, <1>3, <1>4, <1>5, <1>6, RowKeeps

LEMMA TransitionIncidentKeeps ==
    ASSUME IncidentsAssumption, IncidentInv, NEW k \in DedupeKeys, NEW to \in IncidentStates,
           TransitionIncident(k, to)
    PROVE  IncidentInv'
<1> DEFINE old == incidents[k]
           row == [old EXCEPT !.state = to]
           log == audits[k]
<1>1. /\ old # None /\ old \in Incidents /\ old.state \in IncidentStates
      /\ Legal(old.state, to) /\ log \in Seq(IncidentStates \X IncidentStates)
  BY IncidentFacts DEF TransitionIncident, Incidents, IncidentInv, IncidentTyped
<1>2. /\ row \in Incidents /\ row.occurrences = old.occurrences /\ row.until = old.until
      /\ row.state = to
  BY <1>1 DEF Incidents
<1>3. /\ incidents' = [incidents EXCEPT ![k] = row]
      /\ audits' = [audits EXCEPT ![k] = Append(log, <<old.state, to>>)]
      /\ UNCHANGED <<now, counters, alerts, callers, raises, crashes>>
  BY DEF TransitionIncident
<1>4. <<old.state, to>> \in IncidentStates \X IncidentStates
  BY <1>1
<1>5. /\ audits' \in [DedupeKeys -> Seq(IncidentStates \X IncidentStates)]
      /\ audits'[k] = Append(log, <<old.state, to>>)
      /\ \A q \in DedupeKeys \ {k} : audits'[q] = audits[q]
  <2>1. Append(log, <<old.state, to>>) \in Seq(IncidentStates \X IncidentStates)
    BY <1>1, <1>4, AppendProperties
  <2>2. audits \in [DedupeKeys -> Seq(IncidentStates \X IncidentStates)]
    BY DEF IncidentInv, IncidentTyped
  <2> HIDE DEF log, old
  <2> QED BY <1>3, <2>1, <2>2
<1> HIDE DEF row
<1>6. /\ incidents'[k] = row /\ row # None
      /\ \A q \in DedupeKeys \ {k} : incidents'[q] = incidents[q]
  BY <1>1, <1>2, <1>3, IncidentFacts DEF IncidentInv, IncidentTyped, IncidentTypeOK
<1>7. Audited'
  <2> DEFINE new == audits'[k]
  <2>1. /\ Len(log) \in Nat /\ Len(new) = Len(log) + 1
        /\ new[Len(new)][1] = old.state /\ new[Len(new)][2] = to /\ new # <<>>
        /\ \A i \in 1 .. Len(log) : new[i] = log[i]
    <3>1. /\ Len(log) \in Nat /\ Len(new) = Len(log) + 1
          /\ new[Len(log) + 1] = <<old.state, to>>
          /\ \A i \in 1 .. Len(log) : new[i] = log[i]
      BY <1>1, <1>4, <1>5, AppendProperties, LenProperties
    <3>2. new # <<>>
      BY <3>1
    <3> QED BY <3>1, <3>2
  <2>2. /\ old.state # "open" => log # <<>> /\ log[Len(log)][2] = old.state
        /\ old.state = "open" => log = <<>> \/ log[Len(log)][2] = "resolved"
        /\ \A i \in 1 .. Len(log) - 1 :
             log[i + 1][1] = log[i][2] \/ (log[i][2] = "resolved" /\ log[i + 1][1] = "open")
    BY <1>1 DEF IncidentInv, Audited, AuditExplainsState
  <2>3. to # "open"
    BY <1>1 DEF Legal
  <2>4. ASSUME NEW i \in 1 .. Len(new) - 1
        PROVE  new[i + 1][1] = new[i][2] \/ (new[i][2] = "resolved" /\ new[i + 1][1] = "open")
    <3>1. CASE i < Len(log)
      <4>1. i \in 1 .. Len(log) - 1 /\ i \in 1 .. Len(log) /\ i + 1 \in 1 .. Len(log)
        BY <2>1, <3>1
      <4>2. new[i] = log[i] /\ new[i + 1] = log[i + 1]
        BY <2>1, <4>1
      <4> QED BY <2>2, <4>1, <4>2
    <3>2. CASE i = Len(log)
      <4>1. new[i] = log[Len(log)] /\ new[i + 1][1] = old.state /\ log # <<>>
        BY <1>1, <2>1, <3>2
      <4> QED BY <2>2, <3>2, <4>1
    <3> QED BY <2>1, <3>1, <3>2
  <2>5. AuditExplainsState'
    <3> SUFFICES ASSUME NEW q \in DedupeKeys, incidents'[q] # None
                 PROVE  LET l == audits'[q] IN
                        /\ incidents'[q].state # "open" => l # <<>> /\ l[Len(l)][2] = incidents'[q].state
                        /\ incidents'[q].state = "open" => l = <<>> \/ l[Len(l)][2] = "resolved"
                        /\ \A i \in 1 .. Len(l) - 1 :
                             l[i + 1][1] = l[i][2] \/ (l[i][2] = "resolved" /\ l[i + 1][1] = "open")
      BY DEF AuditExplainsState
    <3>1. CASE q = k
      BY <1>2, <1>6, <2>1, <2>3, <2>4, <3>1
    <3>2. CASE q # k
      BY <1>5, <1>6, <3>2 DEF IncidentInv, Audited, AuditExplainsState
    <3> QED BY <3>1, <3>2
  <2>6. \A q \in DedupeKeys : incidents'[q] = None => audits'[q] = <<>>
    BY <1>5, <1>6 DEF IncidentInv, Audited
  <2> QED BY <2>5, <2>6 DEF Audited
<1>8. callers' \in [Callers -> {Idle} \cup Raisings]
  BY <1>3 DEF IncidentInv, IncidentTyped
<1> QED BY <1>1, <1>2, <1>3, <1>5, <1>7, <1>8, RowKeeps

LEMMA ClockKeeps ==
    ASSUME IncidentsAssumption, IncidentInv, now' \in Times,
           UNCHANGED <<incidents, counters, audits, alerts, callers, raises, crashes>>
    PROVE  IncidentInv'
<1>1. IncidentTyped'
  BY DEF IncidentInv, IncidentTyped, IncidentTypeOK
<1>2. Counted' /\ AlertsAreApart' /\ Audited'
  BY DEF IncidentInv, Counted, Seen, Coming, Comes, AlertsAreApart, Audited, AuditExplainsState
<1>3. \A k \in DedupeKeys : Spaced(k)'
  BY DEF IncidentInv, Spaced, Alerting, Apart
<1> QED BY <1>1, <1>2, <1>3 DEF IncidentInv

LEMMA IncidentStarts == ASSUME IncidentsAssumption, IncidentInit PROVE IncidentInv
<1>1. /\ MaxTime \in Nat /\ MaxRaises \in Nat /\ MaxCrashes \in Nat /\ IsFiniteSet(Callers)
  BY DEF IncidentsAssumption
<1>2. \A s \in Callers : callers[s] = Idle /\ callers[s].pc = "idle"
  BY DEF IncidentInit, Idle
<1>3. /\ \A k \in DedupeKeys : alerts[k] = <<>> /\ audits[k] = <<>> /\ incidents[k] = None
      /\ \A k \in DedupeKeys : counters[k] = [count |-> 0, start |-> 0]
  BY DEF IncidentInit
<1>4. IncidentTyped
  <2>1. /\ alerts \in [DedupeKeys -> Seq(Times)]
        /\ audits \in [DedupeKeys -> Seq(IncidentStates \X IncidentStates)]
        /\ counters \in [DedupeKeys -> [count : 0 .. MaxRaises, start : Times]]
    BY <1>1 DEF IncidentInit, Times
  <2>2. \A k \in DedupeKeys : \A i \in DOMAIN audits[k] : audits[k][i] \in IncidentStates \X IncidentStates
    BY <1>3
  <2>3. /\ incidents \in [DedupeKeys -> Incidents \cup {None}]
        /\ callers \in [Callers -> {Idle} \cup Raisings]
        /\ now \in Times /\ raises \in 0 .. MaxRaises /\ crashes \in 0 .. MaxCrashes
    BY <1>1 DEF IncidentInit, Times
  <2> QED BY <1>2, <2>1, <2>2, <2>3 DEF IncidentTyped, IncidentTypeOK
<1>5. Counted
  <2> SUFFICES ASSUME NEW k \in DedupeKeys
               PROVE  counters[k].count <= raises /\ Seen(k) + Cardinality(Coming(k)) <= raises
    BY DEF Counted
  <2>1. Coming(k) = {} /\ Seen(k) = 0 /\ counters[k].count = 0 /\ raises = 0
    BY <1>2, <1>3 DEF Coming, Comes, Seen, IncidentInit
  <2> QED BY <2>1, FS_EmptySet
<1>6. \A k \in DedupeKeys : Spaced(k)
  BY <1>2, <1>3 DEF Spaced, Alerting
<1>7. AlertsAreApart /\ Audited
  BY <1>3 DEF AlertsAreApart, Audited, AuditExplainsState
<1> QED BY <1>4, <1>5, <1>6, <1>7 DEF IncidentInv

LEMMA IncidentStep ==
    ASSUME IncidentsAssumption, IncidentInv, [IncidentNext]_incidentVars
    PROVE  IncidentInv'
<1>1. CASE \E s \in Callers, k \in DedupeKeys : Raise(s, k) \/ RecordBrokerConflict(s, k)
  BY <1>1, RaiseKeeps
<1>2. CASE \E s \in Callers : Step(s) \/ Crash(s)
  BY <1>2, FindNoneKeeps, InsertKeeps, RepeatKeeps, DispatchKeeps, RecordDeliveryKeeps, CrashKeeps
  DEF Step
<1>3. CASE \E k \in DedupeKeys, to \in IncidentStates : TransitionIncident(k, to)
  BY <1>3, TransitionIncidentKeeps
<1>4. CASE Tick
  <2>1. now' \in Times
    BY <1>4, IncidentFacts DEF Tick, Times
  <2> QED BY <1>4, <2>1, ClockKeeps DEF Tick
<1>5. CASE UNCHANGED incidentVars
  <2>1. now' \in Times
    BY <1>5, IncidentFacts DEF incidentVars
  <2> QED BY <1>5, <2>1, ClockKeeps DEF incidentVars
<1> QED BY <1>1, <1>2, <1>3, <1>4, <1>5 DEF IncidentNext

\* RaiseIncident and TransitionIncident: however many callers raise one
\* incident at once, whatever clock each of them read, and wherever one of them
\* is lost, alerts about it are a cooldown apart and the audit rows explain its
\* state; for any callers, keys and cooldown and any number of raises.
THEOREM IncidentsAudited ==
    ASSUME IncidentsAssumption PROVE IncidentSpec => []IncidentsAreAudited
<1>1. IncidentInit => IncidentInv
  BY IncidentStarts
<1>2. IncidentInv /\ [IncidentNext]_incidentVars => IncidentInv'
  BY IncidentStep
<1>3. IncidentInv => IncidentsAreAudited
  BY DEF IncidentInv, IncidentTyped, Audited, IncidentsAreAudited
<1> QED BY <1>1, <1>2, <1>3, PTL DEF IncidentSpec

-----------------------------------------------------------------------------
\* What is stored is what the population's own policy makes of two outcomes.
Judged ==
    \A o \in observations :
        /\ o.comparison.legacy \in Outcomes /\ o.comparison.candidate \in Outcomes
        /\ VerifyComparisonWithPolicy(o.comparison, Acceptance[o.population.policy])

\* One row for each context of a population.
OnePerContext ==
    \A o, q \in observations : o.population = q.population /\ o.context = q.context => o = q

Capped == \A p \in parityPopulations : Cardinality(p.contexts) <= MaxDecisions

ParityInv ==
    /\ ParityTypeOK /\ IsFiniteSet(observations)
    /\ Judged /\ OnePerContext /\ Capped /\ AggregateIsSum

-----------------------------------------------------------------------------
LEMMA MagnitudeIsNat == ASSUME NEW x \in Int PROVE Magnitude(x) \in Nat /\ Magnitude(x - x) = 0
BY DEF Magnitude

\* A numeric field differs beyond the tolerance only if it differs.
LEMMA BeyondDiffers ==
    ASSUME NEW x \in Int, NEW y \in Int, NEW t \in Nat, Basis \in Nat
    PROVE  ~withinBPS(x, y, t) <=>
             /\ x # y
             /\ Magnitude(x - y) * Basis >
                  t * (IF Magnitude(x) > Magnitude(y) THEN Magnitude(x) ELSE Magnitude(y))
<1> DEFINE base == IF Magnitude(x) > Magnitude(y) THEN Magnitude(x) ELSE Magnitude(y)
           m == Magnitude(x - y)
<1>1. base \in Nat /\ m \in Nat
  BY MagnitudeIsNat
<1>2. t * base \in Nat /\ m * Basis \in Nat
  <2> HIDE DEF base, m
  <2>1. \A i, j \in Nat : i * j \in Nat
    OBVIOUS
  <2> QED BY <1>1, <2>1
<1>3. withinBPS(x, y, t) <=> m * Basis <= t * base
  BY DEF withinBPS
<1>4. x = y => m * Basis = 0
  <2>1. x = y => m = 0
    BY MagnitudeIsNat
  <2> HIDE DEF m
  <2> QED BY <2>1
<1> HIDE DEF m, base
<1>5. (~(m * Basis <= t * base)) <=> (x # y /\ m * Basis > t * base)
  BY <1>2, <1>4
<1> QED BY <1>3, <1>5 DEF m, base

\* An exact pair of values is declared as a whole.
LEMMA DeclaredPair ==
    ASSUME ParityAssumption, NEW n \in Names, NEW c, NEW a, NEW b
    PROVE  LET p == Acceptance[n] IN
           trustedExpected(c, a, b, p) <=>
             \E r \in p.expected : /\ c \in Explainable /\ r.code = c
                                   /\ r.legacy = Field(a, c) /\ r.candidate = Field(b, c)
<1>1. \A r \in Acceptance[n].expected :
        r = [code |-> r.code, legacy |-> r.legacy, candidate |-> r.candidate]
  BY DEF ParityAssumption, Names
<1>2. ASSUME trustedExpected(c, a, b, Acceptance[n])
      PROVE  \E r \in Acceptance[n].expected : /\ c \in Explainable /\ r.code = c
                                   /\ r.legacy = Field(a, c) /\ r.candidate = Field(b, c)
  BY <1>2 DEF trustedExpected
<1>3. ASSUME NEW r \in Acceptance[n].expected, c \in Explainable, r.code = c,
             r.legacy = Field(a, c), r.candidate = Field(b, c)
      PROVE  trustedExpected(c, a, b, Acceptance[n])
  BY <1>1, <1>3 DEF trustedExpected
<1> QED BY <1>2, <1>3

LEMMA JudgedIsNoRelabel == ASSUME ParityAssumption, ParityTypeOK, Judged PROVE NoRelabel
<1> SUFFICES ASSUME NEW o \in observations
             PROVE  (o.comparison.class = "unexplained") <=>
            \E f \in Exact \cup Numeric :
                LET a == Field(o.comparison.legacy, f) b == Field(o.comparison.candidate, f)
                    p == Acceptance[o.population.policy] IN
                /\ a # b
                /\ f \in Numeric => Magnitude(a - b) * Basis >
                     p.tolerance * (IF Magnitude(a) > Magnitude(b) THEN Magnitude(a) ELSE Magnitude(b))
                /\ ~\E r \in p.expected : f \in Explainable /\ r.code = f /\ r.legacy = a /\ r.candidate = b
  BY DEF NoRelabel
<1> DEFINE n == o.population.policy
           p == Acceptance[n]
           a == o.comparison.legacy
           b == o.comparison.candidate
           Differs(f) == /\ Field(a, f) # Field(b, f)
                         /\ f \in Numeric => Magnitude(Field(a, f) - Field(b, f)) * Basis >
                              p.tolerance * (IF Magnitude(Field(a, f)) > Magnitude(Field(b, f))
                                             THEN Magnitude(Field(a, f)) ELSE Magnitude(Field(b, f)))
<1>1. n \in Names
  BY DEF ParityTypeOK, ParityPopulations
<1>2. p.tolerance \in Nat /\ Basis \in Nat
  BY <1>1 DEF ParityAssumption, Names
<1>3. a \in Outcomes /\ b \in Outcomes /\ VerifyComparisonWithPolicy(o.comparison, p)
  BY DEF Judged
<1>4. ASSUME NEW f \in Exact \cup Numeric
      PROVE  f \in compareOutcomes(a, b, p) <=> Differs(f)
  <2>1. CASE f \in Exact
    <3>1. f \notin Numeric
      BY <2>1 DEF ParityAssumption
    <3> QED BY <2>1, <3>1 DEF compareOutcomes
  <2>2. CASE f \in Numeric
    <3>1. f \notin Exact
      BY <2>2 DEF ParityAssumption
    <3>2. Field(a, f) \in Int /\ Field(b, f) \in Int
      BY <1>3, <2>2, <3>1 DEF Field, Outcomes, ParityAssumption
    <3>3. ~withinBPS(Field(a, f), Field(b, f), p.tolerance) <=> Differs(f)
      BY <1>2, <2>2, <3>2, BeyondDiffers
    <3> HIDE DEF p, a, b, Differs
    <3> QED BY <2>2, <3>1, <3>3 DEF compareOutcomes
  <2> QED BY <2>1, <2>2
<1>5. compareOutcomes(a, b, p) \subseteq Exact \cup Numeric
  BY DEF compareOutcomes
<1>6. o.comparison.class = "unexplained" <=>
        \E f \in compareOutcomes(a, b, p) : ~trustedExpected(f, a, b, p)
  BY <1>3 DEF VerifyComparisonWithPolicy, Classification
<1>7. \A f : trustedExpected(f, a, b, p) <=>
        \E r \in p.expected : /\ f \in Explainable /\ r.code = f
                              /\ r.legacy = Field(a, f) /\ r.candidate = Field(b, f)
  <2> TAKE f
  <2> HIDE DEF n, a, b
  <2> QED BY <1>1, DeclaredPair
<1>8. o.comparison.class = "unexplained" <=>
        \E f \in Exact \cup Numeric : Differs(f) /\ ~trustedExpected(f, a, b, p)
  <2> HIDE DEF Differs, p, a, b
  <2> QED BY <1>4, <1>5, <1>6
<1> QED BY <1>7, <1>8

-----------------------------------------------------------------------------
\* The verdict: within its cap, a population whose policy tolerates nothing is
\* not accepted with a single unexplained difference.
LEMMA RateRoundsUp ==
    ASSUME NEW v \in Nat, NEW total \in Nat \ {0}, NEW q \in Nat \ {0}, total <= q,
           (v * q) \div total <= 0
    PROVE  v = 0
<1>1. CASE v = 0
  BY <1>1
<1>2. CASE v >= 1
  <2>1. v * q \in Nat /\ v * q >= q
    BY <1>2
  <2> DEFINE n == v * q
             d == n \div total
  <2>2. n \in Nat /\ n >= total
    BY <2>1
  <2> HIDE DEF n
  <2>3. d \in Int /\ n = d * total + (n % total) /\ (n % total) < total /\ (n % total) \in Nat
    BY <2>2
  <2>4. d <= 0
    BY DEF n
  <2> HIDE DEF d
  <2>5. d * total <= 0
    BY <2>3, <2>4
  <2> QED BY <2>2, <2>3, <2>5
<1> QED BY <1>1, <1>2

LEMMA AcceptedIsClean ==
    ASSUME ParityAssumption, ParityTypeOK, IsFiniteSet(observations), Capped
    PROVE  AcceptedIsExplained
<1> SUFFICES ASSUME NEW p \in parityPopulations, EvaluateParity(p),
                    \A b \in Buckets : Acceptance[p.policy].rate[b] = 0,
                    NEW o \in Unexplained(p),
                    NEW c \in CodesOf(o) \cap ({"action", "quantity", "notional",
                        "primary_exit_reason", "concurrent_exit_reasons", "engine_version",
                        "model_version"})
             PROVE  FALSE
  BY DEF AcceptedIsExplained
<1> DEFINE b == Bucket(c)
           U == {r \in Unexplained(p) : b \in BucketsOf(r)}
           total == Cardinality(Observed(p))
<1>1. b \in Buckets
  BY DEF Bucket, Buckets
<1>2. o \in U
  BY <1>1 DEF BucketsOf
<1>3. IsFiniteSet(Observed(p)) /\ total \in Nat
  BY FS_Subset, FS_CardinalityType DEF Observed
<1>4. U \subseteq Observed(p)
  BY DEF Unexplained
<1>5. IsFiniteSet(U) /\ Cardinality(U) \in Nat /\ Cardinality(U) # 0
  <2> HIDE DEF U
  <2> QED BY <1>2, <1>3, <1>4, FS_Subset, FS_EmptySet, FS_CardinalityType
<1>6. total > 0 /\ total <= Cardinality(p.contexts)
  BY DEF EvaluateParity
<1>7. (Cardinality(U) * Basis) \div total <= Acceptance[p.policy].rate[b]
  BY <1>1 DEF EvaluateParity
<1>8. p.contexts \subseteq Decisions
  BY DEF ParityTypeOK, ParityPopulations
<1>9. Cardinality(p.contexts) \in Nat /\ Cardinality(p.contexts) <= MaxDecisions
  BY <1>8, FS_Subset, FS_CardinalityType DEF Capped, ParityAssumption
<1>10. Basis \in Nat \ {0} /\ MaxDecisions \in Nat /\ MaxDecisions <= Basis
  BY DEF ParityAssumption
<1> HIDE DEF total, U
<1>11. total \in Nat \ {0} /\ total <= Basis
  BY <1>3, <1>6, <1>9, <1>10
<1>12. (Cardinality(U) * Basis) \div total <= 0
  BY <1>1, <1>7
<1> QED BY <1>5, <1>10, <1>11, <1>12, RateRoundsUp

-----------------------------------------------------------------------------
LEMMA CountOneMore ==
    ASSUME NEW A, IsFiniteSet(A), NEW x, x \notin A, NEW yes \in BOOLEAN,
           NEW B, B = IF yes THEN A \cup {x} ELSE A
    PROVE  Cardinality(B) = Cardinality(A) + (IF yes THEN 1 ELSE 0)
<1>1. Cardinality(A) \in Nat
  BY FS_CardinalityType
<1>2. CASE yes
  BY <1>1, <1>2, FS_AddElement
<1>3. CASE ~yes
  BY <1>1, <1>3
<1> QED BY <1>2, <1>3

\* One more row is one more in each counter that its class and its divergence
\* codes add to.
LEMMA OneMore ==
    ASSUME NEW rows, IsFiniteSet(rows), NEW new, new \notin rows, NEW k
    PROVE  Sums(rows \cup {new}, k) =
             IF new.population.pair = k THEN Incremented(Sums(rows, k), new) ELSE Sums(rows, k)
<1> DEFINE Mine(R) == {o \in R : o.population.pair = k}
           Of(R, c) == {o \in Mine(R) : ClassOf(o) = c}
           In(R, b) == {o \in Mine(R) : b \in BucketsOf(o)}
           more == rows \cup {new}
<1>1. CASE new.population.pair # k
  <2>1. Mine(more) = Mine(rows)
    BY <1>1
  <2> QED BY <1>1, <2>1 DEF Sums
<1>2. CASE new.population.pair = k
  <2>1. Mine(more) = Mine(rows) \cup {new} /\ new \notin Mine(rows)
    BY <1>2
  <2>2. IsFiniteSet(Mine(rows))
    BY FS_Subset
  <2>3. \A c : /\ Of(more, c) = IF ClassOf(new) = c THEN Of(rows, c) \cup {new} ELSE Of(rows, c)
               /\ new \notin Of(rows, c) /\ Of(rows, c) \subseteq Mine(rows)
    BY <2>1
  <2>4. \A b : /\ In(more, b) = IF b \in BucketsOf(new) THEN In(rows, b) \cup {new} ELSE In(rows, b)
               /\ new \notin In(rows, b) /\ In(rows, b) \subseteq Mine(rows)
    BY <2>1
  <2> DEFINE mineN == Mine(rows)
             mineM == Mine(more)
             plus(n, yes) == n + (IF yes THEN 1 ELSE 0)
  <2>5. Cardinality(mineN) \in Nat /\ Cardinality(mineM) = Cardinality(mineN) + 1
    <3> HIDE DEF Mine, more
    <3> QED BY <2>1, <2>2, FS_AddElement, FS_CardinalityType
  <2>6. \A c : Cardinality(Of(more, c)) = plus(Cardinality(Of(rows, c)), ClassOf(new) = c)
    <3> TAKE c
    <3> DEFINE A == Of(rows, c)
               B == Of(more, c)
    <3>1. IsFiniteSet(A) /\ new \notin A /\ B = IF ClassOf(new) = c THEN A \cup {new} ELSE A
      <4> HIDE DEF Of, Mine, more
      <4> QED BY <2>2, <2>3, FS_Subset
    <3> HIDE DEF A, B
    <3>2. Cardinality(B) = plus(Cardinality(A), ClassOf(new) = c)
      BY <3>1, CountOneMore
    <3> QED BY <3>2 DEF A, B
  <2>7. \A b : Cardinality(In(more, b)) = plus(Cardinality(In(rows, b)), b \in BucketsOf(new))
    <3> TAKE b
    <3> DEFINE A == In(rows, b)
               B == In(more, b)
    <3>1. IsFiniteSet(A) /\ new \notin A /\ B = IF b \in BucketsOf(new) THEN A \cup {new} ELSE A
      <4> HIDE DEF In, Mine, more
      <4> QED BY <2>2, <2>4, FS_Subset
    <3> HIDE DEF A, B
    <3>2. Cardinality(B) = plus(Cardinality(A), b \in BucketsOf(new))
      BY <3>1, CountOneMore
    <3> QED BY <3>2 DEF A, B
  <2>8. \A R : Sums(R, k) =
          [total |-> Cardinality(Mine(R)), match |-> Cardinality(Of(R, "match")),
           expected |-> Cardinality(Of(R, "expected")),
           unexplained |-> Cardinality(Of(R, "unexplained")),
           buckets |-> [b \in Buckets |-> Cardinality(In(R, b))]]
    BY DEF Sums
  <2> HIDE DEF Of, In, Mine, more
  <2>9. [b \in Buckets |-> Cardinality(In(more, b))] =
        [b \in Buckets |-> plus([d \in Buckets |-> Cardinality(In(rows, d))][b], b \in BucketsOf(new))]
    BY <2>7
  <2>10. Sums(more, k) = Incremented(Sums(rows, k), new)
    BY <2>5, <2>6, <2>8, <2>9 DEF Incremented
  <2> QED BY <1>2, <2>10 DEF more
<1> QED BY <1>1, <1>2

LEMMA NothingObserved == ASSUME NEW k PROVE Sums({}, k) = Zero
BY FS_EmptySet DEF Sums, Zero

-----------------------------------------------------------------------------
LEMMA ParityStarts == ASSUME ParityAssumption, ParityInit PROVE ParityInv
<1>1. ParityTypeOK
  BY DEF ParityInit, ParityAssumption, ParityTypeOK, Zero, Counters
<1>2. AggregateIsSum
  BY NothingObserved DEF ParityInit, AggregateIsSum
<1>3. IsFiniteSet(observations) /\ Judged /\ OnePerContext /\ Capped
  BY FS_EmptySet DEF ParityInit, Judged, OnePerContext, Capped
<1> QED BY <1>1, <1>2, <1>3 DEF ParityInv

\* Steps that store nothing.
LEMMA RowsStand ==
    ASSUME ParityInv, ParityTypeOK', Capped', UNCHANGED <<observations, aggregates>>
    PROVE  ParityInv'
BY DEF ParityInv, Judged, OnePerContext, AggregateIsSum

LEMMA PersistKeeps ==
    ASSUME ParityAssumption, ParityInv,
           NEW p \in parityPopulations, NEW x \in Decisions, NEW q \in Pairs, NEW n \in Names,
           PersistParityBound(p, x, RunParity(q[1], q[2], Acceptance[n]))
    PROVE  ParityInv'
<1> DEFINE v == RunParity(q[1], q[2], Acceptance[n])
           new == [population |-> p, context |-> x, comparison |-> v]
<1>1. /\ new.population = p /\ new.context = x /\ new.comparison = v
      /\ v.legacy = q[1] /\ v.candidate = q[2]
  BY DEF RunParity
<1>2. q[1] \in Outcomes /\ q[2] \in Outcomes
  BY DEF ParityAssumption
<1>3. /\ x \in p.contexts /\ VerifyComparisonWithPolicy(v, Acceptance[p.policy])
      /\ \A o \in Observed(p) : o.context # x
      /\ observations' = observations \cup {new}
      /\ aggregates' = [aggregates EXCEPT ![p.pair] = Incremented(aggregates[p.pair], new)]
      /\ UNCHANGED <<attempt, policies, declaring, parityPopulations>>
  BY DEF PersistParityBound
<1>4. v.codes \subseteq Exact \cup Numeric
  BY DEF RunParity, compareOutcomes
<1> HIDE DEF v, new
<1>5. new \notin observations
  BY <1>1, <1>3 DEF Observed
<1>6. IsFiniteSet(observations')
  BY <1>3, FS_AddElement DEF ParityInv
<1>7. Judged'
  BY <1>1, <1>2, <1>3 DEF Judged, ParityInv
<1>8. OnePerContext'
  BY <1>1, <1>3 DEF OnePerContext, ParityInv, Observed
<1>9. Capped'
  BY <1>3 DEF Capped, ParityInv
<1>10. p.pair \in PairKeys
  BY DEF ParityInv, ParityTypeOK, ParityPopulations
<1>11. AggregateIsSum'
  <2> SUFFICES ASSUME NEW k \in PairKeys PROVE aggregates'[k] = Sums(observations', k)
    BY DEF AggregateIsSum
  <2>1. aggregates[k] = Sums(observations, k) /\ aggregates[p.pair] = Sums(observations, p.pair)
    BY <1>10 DEF ParityInv, AggregateIsSum
  <2>2. aggregates'[k] = IF k = p.pair THEN Incremented(aggregates[k], new) ELSE aggregates[k]
    BY <1>3, <1>10 DEF ParityInv, ParityTypeOK
  <2>3. Sums(observations', k) = IF p.pair = k THEN Incremented(Sums(observations, k), new)
                                 ELSE Sums(observations, k)
    BY <1>1, <1>3, <1>5, OneMore DEF ParityInv
  <2> QED BY <2>1, <2>2, <2>3
<1>12. ParityTypeOK'
  <2>1. Incremented(aggregates[p.pair], new) \in Counters
    <3>1. aggregates[p.pair] \in Counters
      BY <1>10 DEF ParityInv, ParityTypeOK
    <3> DEFINE a == aggregates[p.pair]
    <3>2. /\ a.total \in Nat /\ a.match \in Nat /\ a.expected \in Nat /\ a.unexplained \in Nat
          /\ \A b \in Buckets : a.buckets[b] \in Nat
      BY <3>1 DEF Counters
    <3> HIDE DEF a
    <3>3. Incremented(a, new) \in Counters
      BY <3>2 DEF Incremented, Counters
    <3> QED BY <3>3 DEF a
  <2>2. aggregates' \in [PairKeys -> Counters]
    BY <1>3, <2>1 DEF ParityInv, ParityTypeOK
  <2>3. \A o \in observations' : /\ o.population \in parityPopulations'
                                 /\ o.context \in o.population.contexts
                                 /\ o.comparison.codes \subseteq Exact \cup Numeric
    BY <1>1, <1>3, <1>4 DEF ParityInv, ParityTypeOK
  <2> QED BY <1>3, <2>2, <2>3 DEF ParityInv, ParityTypeOK
<1> QED BY <1>6, <1>7, <1>8, <1>9, <1>11, <1>12 DEF ParityInv

LEMMA ParityStep ==
    ASSUME ParityAssumption, ParityInv, [ParityNext]_parityVars PROVE ParityInv'
<1>1. CASE \E n \in Names : CountObservations(n) \/ DeclareParityPolicy(n)
  BY <1>1, RowsStand
  DEF CountObservations, DeclareParityPolicy, ParityInv, ParityTypeOK, Capped
<1>2. ASSUME NEW k \in PairKeys, NEW n \in Names, NEW c \in SUBSET Decisions, BeginPopulation(k, n, c)
      PROVE  ParityInv'
  <2> DEFINE p == [pair |-> k, policy |-> n, attempt |-> attempt, contexts |-> c]
  <2>1. p \in ParityPopulations /\ p.contexts = c
    BY DEF ParityPopulations, ParityInv, ParityTypeOK
  <2>2. /\ parityPopulations' = parityPopulations \cup {p} /\ Cardinality(c) <= MaxDecisions
        /\ UNCHANGED <<attempt, policies, declaring, observations, aggregates>>
    BY <1>2 DEF BeginPopulation
  <2> HIDE DEF p
  <2>3. ParityTypeOK' /\ Capped'
    BY <2>1, <2>2 DEF ParityInv, ParityTypeOK, Capped
  <2> QED BY <2>2, <2>3, RowsStand
<1>3. CASE \E p \in parityPopulations, x \in Decisions, q \in Pairs, n \in Names :
             PersistParityBound(p, x, RunParity(q[1], q[2], Acceptance[n]))
  BY <1>3, PersistKeeps
<1>4. CASE NewAttempt
  BY <1>4, RowsStand DEF NewAttempt, ParityInv, ParityTypeOK, Capped, ParityAssumption
<1>5. CASE UNCHANGED parityVars
  BY <1>5, RowsStand DEF parityVars, ParityInv, ParityTypeOK, Capped
<1> QED BY <1>1, <1>2, <1>3, <1>4, <1>5 DEF ParityNext

\* PersistParityBound, EvaluateParity: comparisons are judged by the policy of
\* their population, the aggregate counts what is stored, and a verdict without
\* tolerance is one on every decision; for any policies, outcomes, contexts and
\* pairs of engines and any number of populations, as long as a population has at
\* most as many contexts as a rate has basis points.
THEOREM ParityJudged == ASSUME ParityAssumption PROVE ParitySpec => []ParityIsJudged
<1>1. ParityInit => ParityInv
  BY ParityStarts
<1>2. ParityInv /\ [ParityNext]_parityVars => ParityInv'
  BY ParityStep
<1>3. ParityInv => ParityIsJudged
  BY JudgedIsNoRelabel, AcceptedIsClean DEF ParityInv, ParityIsJudged
<1> QED BY <1>1, <1>2, <1>3, PTL DEF ParitySpec

\* A completely observed population has a row for each of its contexts.
LEMMA CompleteIsClosed ==
    ASSUME ParityAssumption, ParityInv, NEW p \in parityPopulations,
           Cardinality(Observed(p)) = Cardinality(p.contexts)
    PROVE  \A x \in p.contexts : \E o \in Observed(p) : o.context = x
<1> DEFINE f == [o \in Observed(p) |-> o.context]
<1>1. p.contexts \subseteq Decisions
  BY DEF ParityInv, ParityTypeOK, ParityPopulations
<1>2. IsFiniteSet(p.contexts)
  BY <1>1, FS_Subset DEF ParityAssumption
<1>3. \A o \in Observed(p) : o \in observations /\ o.population = p /\ o.context \in p.contexts
  BY DEF Observed, ParityInv, ParityTypeOK
<1>4. f \in Injection(Observed(p), p.contexts)
  BY <1>3 DEF Injection, IsInjective, ParityInv, OnePerContext
<1>5. f \in Surjection(Observed(p), p.contexts)
  BY <1>2, <1>4, FS_Injection
<1> QED BY <1>5 DEF Surjection

\* PersistParityBound: once every context of a population is observed, neither a
\* replayed nor a changed comparison turns its verdict within its attempt.
THEOREM VerdictsFinal == ASSUME ParityAssumption PROVE ParitySpec => [][VerdictIsFinal]_parityVars
<1>1. ASSUME ParityInv, [ParityNext]_parityVars, NEW p \in parityPopulations,
             Cardinality(Observed(p)) = Cardinality(p.contexts), attempt' = attempt
      PROVE  EvaluateParity(p) <=> EvaluateParity(p)'
  <2>1. p \in parityPopulations'
    BY <1>1 DEF ParityNext, CountObservations, DeclareParityPolicy, BeginPopulation,
                PersistParityBound, NewAttempt, parityVars
  <2>2. Observed(p)' = Observed(p)
    <3>1. CASE UNCHANGED observations
      BY <3>1 DEF Observed
    <3>2. ASSUME NEW q \in parityPopulations, NEW x, NEW v, PersistParityBound(q, x, v)
          PROVE  Observed(p)' = Observed(p)
      <4>1. q # p
        BY <1>1, <3>2, CompleteIsClosed DEF PersistParityBound
      <4> QED BY <3>2, <4>1 DEF PersistParityBound, Observed
    <3> QED BY <1>1, <3>1, <3>2 DEF ParityNext, CountObservations, DeclareParityPolicy,
                                   BeginPopulation, NewAttempt, parityVars
  <2>3. Unexplained(p)' = Unexplained(p)
    BY <2>2 DEF Unexplained
  <2> QED BY <1>1, <2>1, <2>2, <2>3 DEF EvaluateParity
<1>2. ParityInv /\ [ParityNext]_parityVars => VerdictIsFinal
  BY <1>1 DEF VerdictIsFinal
<1>3. ParityInit => ParityInv
  BY ParityStarts
<1>4. ParityInv /\ [ParityNext]_parityVars => ParityInv'
  BY ParityStep
<1> QED BY <1>2, <1>3, <1>4, PTL DEF ParitySpec

-----------------------------------------------------------------------------

\* A subscription that is being handed over is alive, of the right symbol, and
\* nobody else's: no worker's and no other caller's.
HandedOver ==
    \A c \in Reconcilers : call[c].at = "insert" =>
        /\ call[c].stream \in Streams /\ call[c].symbol \in Symbols
        /\ streams[call[c].stream] = [symbol |-> call[c].symbol, state |-> "live"]
        /\ \A s \in Symbols : workers[s] # call[c].stream
        /\ \A d \in Reconcilers \ {c} : call[d].at = "insert" => call[d].stream # call[c].stream

\* A reconciliation that is alone has read what is open, and what it has taken
\* has a worker, except what it is subscribing to.
AloneIsRight ==
    \A c \in Reconcilers : call[c].alone =>
        /\ call[c].at \in {"ensure", "subscribe", "insert"}
        /\ \A d \in Reconcilers \ {c} : call[d].at = "idle"
        /\ call[c].required = open
        /\ \A s \in open \ call[c].todo :
             workers[s] # 0 \/ (call[c].at # "ensure" /\ s = call[c].symbol)

\* An exact state is one between reconciliations.
ExactIsQuiet == exact => \A c \in Reconcilers : call[c].at = "idle"

Calls ==
    [at : {"idle", "enabled", "read", "ensure", "subscribe", "insert"},
     required : SUBSET Symbols, todo : SUBSET Symbols, symbol : Symbols \cup {""},
     stream : Streams \cup {0}, alone : BOOLEAN]

LiveIsNamed == \A i \in Streams : streams[i].state = "live" => streams[i].symbol \in Symbols

WorkersInv ==
    /\ WorkersTypeOK /\ NoOrphanStream /\ WorkerIsAlive /\ HandedOver /\ LiveIsNamed
    /\ AloneIsRight /\ ExactIsQuiet /\ ReconciledIsExact
    /\ \A c \in Reconcilers : call[c].at = "subscribe" => call[c].symbol \in Symbols

-----------------------------------------------------------------------------
LEMMA WorkerBounds ==
    ASSUME WorkersAssumption PROVE MaxStreams \in Nat /\ MaxChanges \in Nat /\ MaxMisses \in Nat
BY DEF WorkersAssumption

LEMMA WorkersStart == ASSUME WorkersAssumption, WorkersInit PROVE WorkersInv
<1>1. WorkersTypeOK
  <2>5. open \subseteq Symbols
    BY DEF WorkersInit
  <2>6. enabled \in BOOLEAN /\ exact \in BOOLEAN
    BY DEF WorkersInit
  <2>1. /\ workers \in [Symbols -> Streams \cup {0}]
    BY DEF WorkersInit
  <2>4. changes \in 0 .. MaxChanges /\ misses \in 0 .. MaxMisses
    <3>1. changes = 0 /\ misses = 0
      BY DEF WorkersInit
    <3> QED BY <3>1, WorkerBounds
  <2>2. streams \in [Streams -> [symbol : Symbols \cup {""},
                                state : {"unused", "live", "cancelled", "ended"}]]
    BY DEF WorkersInit
  <2>3. call \in [Reconcilers -> Calls]
    BY DEF WorkersInit, Calls, Asleep
  <2> QED BY <2>1, <2>2, <2>3, <2>4, <2>5, <2>6 DEF WorkersTypeOK, Calls
<1>2. \A c \in Reconcilers : call[c].at = "idle" /\ ~call[c].alone
  BY DEF WorkersInit, Asleep
<1>3. NoOrphanStream /\ WorkerIsAlive /\ ReconciledIsExact /\ LiveIsNamed
  BY DEF WorkersInit, NoOrphanStream, WorkerIsAlive, ReconciledIsExact, LiveIsNamed
<1> QED BY <1>1, <1>2, <1>3 DEF WorkersInv, HandedOver, AloneIsRight, ExactIsQuiet

\* The streams a set of symbols was watched by, cancelled.
LEMMA Cancelled ==
    ASSUME WorkersTypeOK, NEW S, streams' = Cancel(S)
    PROVE  /\ streams' \in [Streams -> [symbol : Symbols \cup {""},
                                        state : {"unused", "live", "cancelled", "ended"}]]
           /\ \A i \in Streams \ S : streams'[i] = streams[i]
           /\ \A i \in Streams \cap S : streams'[i].state = "cancelled"
<1>1. \A i \in Streams : streams'[i] = IF i \in S THEN [streams[i] EXCEPT !.state = "cancelled"]
                                       ELSE streams[i]
  BY DEF Cancel
<1>2. \A i \in Streams : /\ streams[i] \in [symbol : Symbols \cup {""},
                                             state : {"unused", "live", "cancelled", "ended"}]
                         /\ [streams[i] EXCEPT !.state = "cancelled"]
                              \in [symbol : Symbols \cup {""},
                                   state : {"unused", "live", "cancelled", "ended"}]
                         /\ [streams[i] EXCEPT !.state = "cancelled"].state = "cancelled"
  BY DEF WorkersTypeOK
<1>3. streams' = [i \in Streams |-> streams'[i]]
  BY DEF Cancel
<1> QED BY <1>1, <1>2, <1>3

\* Steps that touch no worker, no stream and no subscription.
LEMMA CallsKeep ==
    ASSUME WorkersInv, UNCHANGED <<workers, streams>>,
           \A c \in Reconcilers : call[c].at = "insert" <=> call'[c].at = "insert",
           \A c \in Reconcilers : call[c].at = "insert" =>
               call'[c].stream = call[c].stream /\ call'[c].symbol = call[c].symbol
    PROVE  NoOrphanStream' /\ WorkerIsAlive' /\ HandedOver' /\ LiveIsNamed'
<1>1. NoOrphanStream' /\ WorkerIsAlive' /\ LiveIsNamed'
  BY DEF WorkersInv, NoOrphanStream, WorkerIsAlive, LiveIsNamed
<1>2. HandedOver'
  BY DEF WorkersInv, HandedOver, Streams
<1> QED BY <1>1, <1>2

\* A caller that is at work is at work alone, and the workers are not yet exact.
LEMMA Busy ==
    ASSUME WorkersInv, NEW c \in Reconcilers, call[c].at # "idle"
    PROVE  ~exact /\ \A d \in Reconcilers \ {c} : ~call[d].alone
BY DEF WorkersInv, ExactIsQuiet, AloneIsRight

\* The three parts of the invariant about streams, for one stream each.
LEMMA HandedFacts ==
    ASSUME WorkersInv, NEW c \in Reconcilers, call[c].at = "insert"
    PROVE  /\ call[c].stream \in Streams /\ call[c].symbol \in Symbols
           /\ streams[call[c].stream] = [symbol |-> call[c].symbol, state |-> "live"]
           /\ streams[call[c].stream].state = "live"
           /\ \A s \in Symbols : workers[s] # call[c].stream
           /\ \A d \in Reconcilers \ {c} :
                call[d].at = "insert" => call[d].stream # call[c].stream
<1>1. HandedOver
  BY DEF WorkersInv
<1> QED BY <1>1 DEF HandedOver

LEMMA WorkerFacts ==
    ASSUME WorkersInv, NEW s \in Symbols, workers[s] # 0
    PROVE  /\ workers[s] \in Streams /\ streams[workers[s]] = [symbol |-> s, state |-> "live"]
           /\ streams[workers[s]].state = "live"
<1>1. WorkerIsAlive /\ workers \in [Symbols -> Streams \cup {0}]
  BY DEF WorkersInv, WorkersTypeOK
<1> QED BY <1>1 DEF WorkerIsAlive

LEMMA LiveFacts ==
    ASSUME WorkersInv, NEW i \in Streams, streams[i].state = "live"
    PROVE  /\ streams[i].symbol \in Symbols
           /\ \/ workers[streams[i].symbol] = i
              \/ \E d \in Reconcilers : call[d].at = "insert" /\ call[d].stream = i
<1>1. NoOrphanStream /\ LiveIsNamed
  BY DEF WorkersInv
<1> QED BY <1>1 DEF NoOrphanStream, LiveIsNamed

\* What a caller's step leaves alone, and what it makes of its own record.
LEMMA CallStep ==
    ASSUME WorkersTypeOK, NEW c \in Reconcilers, NEW r \in Calls, call' = [call EXCEPT ![c] = r]
    PROVE  /\ call' \in [Reconcilers -> Calls] /\ call'[c] = r
           /\ \A d \in Reconcilers \ {c} : call'[d] = call[d]
BY DEF WorkersTypeOK, Calls

LEMMA SleepIsTyped ==
    /\ Asleep \in Calls /\ Asleep.at = "idle" /\ ~Asleep.alone
    /\ [Asleep EXCEPT !.at = "enabled"] \in Calls
    /\ [Asleep EXCEPT !.at = "enabled"].at = "enabled"
    /\ ~[Asleep EXCEPT !.at = "enabled"].alone
BY DEF Asleep, Calls

\* Workers that stop are forgotten together with their streams.
LEMMA ForgetKeeps ==
    ASSUME WorkersInv, NEW S \in SUBSET Symbols,
           streams' = Cancel({workers[s] : s \in S}),
           workers' = [s \in Symbols |-> IF s \in S THEN 0 ELSE workers[s]],
           \A c \in Reconcilers : call[c].at = "insert" <=> call'[c].at = "insert",
           \A c \in Reconcilers : call[c].at = "insert" =>
               call'[c].stream = call[c].stream /\ call'[c].symbol = call[c].symbol
    PROVE  /\ workers' \in [Symbols -> Streams \cup {0}]
           /\ streams' \in [Streams -> [symbol : Symbols \cup {""},
                                        state : {"unused", "live", "cancelled", "ended"}]]
           /\ NoOrphanStream' /\ WorkerIsAlive' /\ HandedOver' /\ LiveIsNamed'
<1> DEFINE gone == {workers[s] : s \in S}
<1>1. workers' \in [Symbols -> Streams \cup {0}]
  BY DEF WorkersInv, WorkersTypeOK
<1>2. /\ streams' \in [Streams -> [symbol : Symbols \cup {""},
                                   state : {"unused", "live", "cancelled", "ended"}]]
      /\ \A i \in Streams \ gone : streams'[i] = streams[i]
      /\ \A i \in Streams \cap gone : streams'[i].state = "cancelled"
  <2> HIDE DEF gone
  <2> QED BY Cancelled DEF WorkersInv, gone
<1>3. NoOrphanStream' /\ LiveIsNamed'
  <2> SUFFICES ASSUME NEW i \in Streams, streams'[i].state = "live"
               PROVE  /\ streams'[i].symbol \in Symbols
                      /\ \/ workers'[streams'[i].symbol] = i
                         \/ \E c \in Reconcilers : call'[c].at = "insert" /\ call'[c].stream = i
    BY DEF NoOrphanStream, LiveIsNamed
  <2>1. i \notin gone
    BY <1>2
  <2>2. streams'[i] = streams[i] /\ streams[i].symbol \in Symbols
    BY <1>2, <2>1 DEF WorkersInv, LiveIsNamed
  <2>3. \/ workers[streams[i].symbol] = i
        \/ \E c \in Reconcilers : call[c].at = "insert" /\ call[c].stream = i
    BY <2>2 DEF WorkersInv, NoOrphanStream
  <2>4. CASE workers[streams[i].symbol] = i
    <3>1. streams[i].symbol \notin S
      BY <2>1, <2>4
    <3> QED BY <2>2, <2>4, <3>1
  <2>5. CASE \E c \in Reconcilers : call[c].at = "insert" /\ call[c].stream = i
    BY <2>2, <2>5
  <2> QED BY <2>3, <2>4, <2>5
<1>4. WorkerIsAlive'
  <2> SUFFICES ASSUME NEW s \in Symbols, workers'[s] # 0
               PROVE  streams'[workers'[s]] = [symbol |-> s, state |-> "live"]
    BY DEF WorkerIsAlive
  <2>1. s \notin S /\ workers'[s] = workers[s] /\ workers[s] \in Streams
    BY DEF WorkersInv, WorkersTypeOK
  <2>2. streams[workers[s]] = [symbol |-> s, state |-> "live"]
    BY <2>1 DEF WorkersInv, WorkerIsAlive
  <2>3. ASSUME NEW t \in S, workers[t] = workers[s] PROVE FALSE
    <3>1. streams[workers[s]] = [symbol |-> t, state |-> "live"]
      BY <2>1, <2>3 DEF WorkersInv, WorkerIsAlive
    <3>2. t = s
      BY <2>2, <3>1
    <3> QED BY <2>1, <3>2
  <2>4. workers[s] \notin gone
    BY <2>3
  <2>5. streams'[workers[s]] = streams[workers[s]]
    BY <1>2, <2>1, <2>4
  <2> QED BY <2>1, <2>2, <2>5
<1>5. HandedOver'
  <2> SUFFICES ASSUME NEW c \in Reconcilers, call'[c].at = "insert"
               PROVE  /\ call'[c].stream \in Streams /\ call'[c].symbol \in Symbols
                      /\ streams'[call'[c].stream] = [symbol |-> call'[c].symbol, state |-> "live"]
                      /\ \A s \in Symbols : workers'[s] # call'[c].stream
                      /\ \A d \in Reconcilers \ {c} :
                           call'[d].at = "insert" => call'[d].stream # call'[c].stream
    BY DEF HandedOver
  <2>1. /\ call[c].at = "insert"
        /\ call'[c].stream = call[c].stream /\ call'[c].symbol = call[c].symbol
    OBVIOUS
  <2>2. /\ call[c].stream \in Streams /\ call[c].symbol \in Symbols
        /\ streams[call[c].stream] = [symbol |-> call[c].symbol, state |-> "live"]
        /\ \A s \in Symbols : workers[s] # call[c].stream
        /\ \A d \in Reconcilers \ {c} : call[d].at = "insert" => call[d].stream # call[c].stream
    BY <2>1 DEF WorkersInv, HandedOver
  <2>3. call[c].stream \notin gone
    BY <2>2
  <2>4. streams'[call[c].stream] = streams[call[c].stream]
    BY <1>2, <2>2, <2>3
  <2>5. 0 \notin Streams
    BY DEF Streams
  <2> QED BY <2>1, <2>2, <2>4, <2>5
<1> QED BY <1>1, <1>2, <1>3, <1>4, <1>5

-----------------------------------------------------------------------------
LEMMA ChangeKeeps ==
    ASSUME WorkersAssumption, WorkersInv, NEW c \in Reconcilers, NEW s \in Symbols, Change(c, s)
    PROVE  WorkersInv'
<1>1. /\ call' \in [Reconcilers -> Calls] /\ call'[c].at = "enabled" /\ ~call'[c].alone
      /\ \A d \in Reconcilers \ {c} : /\ call'[d].at = call[d].at /\ ~call'[d].alone
                                       /\ call'[d].stream = call[d].stream
                                       /\ call'[d].symbol = call[d].symbol
  <2>1. \A d \in Reconcilers : call[d] \in Calls
    BY DEF WorkersInv, WorkersTypeOK, Calls
  <2>2. \A d \in Reconcilers :
            call'[d] = IF d = c THEN [Asleep EXCEPT !.at = "enabled"]
                                ELSE [call[d] EXCEPT !.alone = FALSE]
    BY DEF Change
  <2>3. \A d \in Reconcilers \ {c} :
            /\ [call[d] EXCEPT !.alone = FALSE] \in Calls
            /\ [call[d] EXCEPT !.alone = FALSE].at = call[d].at
            /\ [call[d] EXCEPT !.alone = FALSE].alone = FALSE
            /\ [call[d] EXCEPT !.alone = FALSE].stream = call[d].stream
            /\ [call[d] EXCEPT !.alone = FALSE].symbol = call[d].symbol
    BY <2>1 DEF Calls
  <2>4. call' = [d \in Reconcilers |-> call'[d]]
    BY DEF Change
  <2>5. \A d \in Reconcilers : call'[d] \in Calls
    BY <2>2, <2>3, SleepIsTyped
  <2> QED BY <2>2, <2>3, <2>4, <2>5, SleepIsTyped
<1>2. NoOrphanStream' /\ WorkerIsAlive' /\ HandedOver' /\ LiveIsNamed'
  BY <1>1, CallsKeep DEF Change
<1>3. WorkersTypeOK'
  <2>1. changes' \in 0 .. MaxChanges
    <3>1. changes < MaxChanges /\ changes' = changes + 1 /\ changes \in 0 .. MaxChanges
      BY DEF Change, WorkersInv, WorkersTypeOK
    <3> QED BY <3>1, WorkerBounds
  <2>2. open' \subseteq Symbols
    BY DEF Change, WorkersInv, WorkersTypeOK
  <2>3. exact' = FALSE /\ UNCHANGED <<enabled, workers, streams, misses>>
    BY DEF Change
  <2> QED BY <1>1, <2>1, <2>2, <2>3 DEF WorkersInv, WorkersTypeOK, Calls
<1>4. AloneIsRight'
  BY <1>1 DEF AloneIsRight
<1>5. ExactIsQuiet' /\ ReconciledIsExact'
  BY DEF Change, ExactIsQuiet, ReconciledIsExact
<1>6. \A d \in Reconcilers : call'[d].at = "subscribe" => call'[d].symbol \in Symbols
  BY <1>1 DEF WorkersInv
<1> QED BY <1>2, <1>3, <1>4, <1>5, <1>6 DEF WorkersInv

LEMMA CheckEnabledKeeps ==
    ASSUME WorkersInv, NEW c \in Reconcilers, CheckEnabled(c) PROVE WorkersInv'
<1>1. call[c].at = "enabled" /\ ~call[c].alone /\ call[c] \in Calls
  BY DEF CheckEnabled, WorkersInv, AloneIsRight, WorkersTypeOK, Calls
<1>2. ~exact /\ \A d \in Reconcilers \ {c} : ~call[d].alone
  BY <1>1, Busy
<1>3. PICK r \in Calls :
          /\ call' = [call EXCEPT ![c] = r] /\ r.at \in {"idle", "read"} /\ ~r.alone
  <2>1. /\ [call[c] EXCEPT !.at = "read"] \in Calls
        /\ [call[c] EXCEPT !.at = "read"].at = "read"
        /\ ~[call[c] EXCEPT !.at = "read"].alone
    BY <1>1 DEF Calls
  <2> QED BY <2>1, SleepIsTyped DEF CheckEnabled, Return
<1>4. /\ call' \in [Reconcilers -> Calls] /\ call'[c] = r
      /\ \A d \in Reconcilers \ {c} : call'[d] = call[d]
  BY <1>3, CallStep DEF WorkersInv
<1>5. /\ \A d \in Reconcilers : call[d].at = "insert" <=> call'[d].at = "insert"
      /\ \A d \in Reconcilers : call[d].at = "insert" =>
            call'[d].stream = call[d].stream /\ call'[d].symbol = call[d].symbol
  BY <1>1, <1>3, <1>4
<1>6. /\ workers' \in [Symbols -> Streams \cup {0}]
      /\ streams' \in [Streams -> [symbol : Symbols \cup {""},
                                   state : {"unused", "live", "cancelled", "ended"}]]
      /\ NoOrphanStream' /\ WorkerIsAlive' /\ HandedOver' /\ LiveIsNamed'
  <2>1. CASE UNCHANGED <<workers, streams>>
    BY <1>5, <2>1, CallsKeep DEF WorkersInv, WorkersTypeOK
  <2>2. CASE /\ streams' = Cancel({workers[s] : s \in Symbols})
             /\ workers' = [s \in Symbols |-> 0]
    <3>1. workers' = [s \in Symbols |-> IF s \in Symbols THEN 0 ELSE workers[s]]
      BY <2>2
    <3> QED BY <1>5, <2>2, <3>1, ForgetKeeps
  <2> QED BY <2>1, <2>2 DEF CheckEnabled
<1>7. ~exact' /\ exact' \in BOOLEAN
  <2>1. exact' = exact \/ exact' = FALSE
    BY DEF CheckEnabled
  <2>2. exact \in BOOLEAN
    BY DEF WorkersInv, WorkersTypeOK
  <2>3. CASE exact' = exact
    BY <1>2, <2>2, <2>3, Zenon
  <2>4. CASE exact' = FALSE
    BY <2>4, Zenon
  <2> QED BY <2>1, <2>3, <2>4
<1>8. WorkersTypeOK'
  BY <1>4, <1>6, <1>7 DEF WorkersInv, WorkersTypeOK, CheckEnabled, Calls
<1>9. AloneIsRight'
  BY <1>2, <1>3, <1>4 DEF AloneIsRight
<1>10. ExactIsQuiet' /\ ReconciledIsExact'
  BY <1>7 DEF ExactIsQuiet, ReconciledIsExact
<1>11. \A d \in Reconcilers : call'[d].at = "subscribe" => call'[d].symbol \in Symbols
  BY <1>3, <1>4 DEF WorkersInv
<1> QED BY <1>6, <1>8, <1>9, <1>10, <1>11 DEF WorkersInv

LEMMA ReadOpenKeeps ==
    ASSUME WorkersAssumption, WorkersInv, NEW c \in Reconcilers, ReadOpen(c) PROVE WorkersInv'
<1>1. call[c].at = "read" /\ ~call[c].alone /\ call[c] \in Calls
  BY DEF ReadOpen, WorkersInv, AloneIsRight, WorkersTypeOK, Calls
<1>2. ~exact /\ \A d \in Reconcilers \ {c} : ~call[d].alone
  BY <1>1, Busy
<1>3. PICK r \in Calls :
          /\ call' = [call EXCEPT ![c] = r] /\ r.at \in {"idle", "ensure"}
          /\ r.alone => /\ r.at = "ensure" /\ r.required = open /\ r.todo = open
                        /\ \A d \in Reconcilers \ {c} : call[d].at = "idle"
  <2>1. CASE Return(c)
    BY <2>1, SleepIsTyped DEF Return
  <2>2. CASE call' = [call EXCEPT ![c].at = "ensure", ![c].required = open, ![c].todo = open,
                                  ![c].alone = \A d \in Reconcilers \ {c} : call[d].at = "idle"]
    <3> DEFINE yes == \A d \in Reconcilers \ {c} : call[d].at = "idle"
    <3>1. yes \in BOOLEAN /\ open \in SUBSET Symbols
      BY DEF WorkersInv, WorkersTypeOK
    <3>2. call' = [call EXCEPT ![c] = [call[c] EXCEPT !.at = "ensure", !.required = open,
                                                      !.todo = open, !.alone = yes]]
      BY <2>2
    <3> HIDE DEF yes
    <3>3. /\ [call[c] EXCEPT !.at = "ensure", !.required = open, !.todo = open, !.alone = yes]
               \in Calls
          /\ [call[c] EXCEPT !.at = "ensure", !.required = open, !.todo = open,
                             !.alone = yes].at = "ensure"
          /\ [call[c] EXCEPT !.at = "ensure", !.required = open, !.todo = open,
                             !.alone = yes].required = open
          /\ [call[c] EXCEPT !.at = "ensure", !.required = open, !.todo = open,
                             !.alone = yes].todo = open
          /\ [call[c] EXCEPT !.at = "ensure", !.required = open, !.todo = open,
                             !.alone = yes].alone = yes
      BY <1>1, <3>1 DEF Calls
    <3> QED BY <3>2, <3>3 DEF yes
  <2> QED BY <2>1, <2>2 DEF ReadOpen
<1>4. /\ call' \in [Reconcilers -> Calls] /\ call'[c] = r
      /\ \A d \in Reconcilers \ {c} : call'[d] = call[d]
  BY <1>3, CallStep DEF WorkersInv
<1>5. NoOrphanStream' /\ WorkerIsAlive' /\ HandedOver' /\ LiveIsNamed'
  <2>1. UNCHANGED <<workers, streams>>
    BY DEF ReadOpen
  <2> QED BY <1>1, <1>3, <1>4, <2>1, CallsKeep
<1>6. UNCHANGED <<open, enabled, workers, streams, exact, changes>> /\ misses' \in 0 .. MaxMisses
  <2>1. misses' = misses \/ (misses < MaxMisses /\ misses' = misses + 1)
    BY DEF ReadOpen, Fail
  <2>2. misses \in 0 .. MaxMisses
    BY DEF WorkersInv, WorkersTypeOK
  <2>3. misses' \in 0 .. MaxMisses
    BY <2>1, <2>2, WorkerBounds
  <2> QED BY <2>3 DEF ReadOpen
<1>7. WorkersTypeOK'
  BY <1>4, <1>6 DEF WorkersInv, WorkersTypeOK, Calls
<1>8. AloneIsRight'
  BY <1>2, <1>3, <1>4, <1>6 DEF AloneIsRight
<1>9. ExactIsQuiet' /\ ReconciledIsExact'
  BY <1>2, <1>6 DEF ExactIsQuiet, ReconciledIsExact
<1>10. \A d \in Reconcilers : call'[d].at = "subscribe" => call'[d].symbol \in Symbols
  BY <1>3, <1>4 DEF WorkersInv
<1> QED BY <1>5, <1>7, <1>8, <1>9, <1>10 DEF WorkersInv
LEMMA EnsureWorkerKeeps ==
    ASSUME WorkersInv, NEW c \in Reconcilers, EnsureWorker(c) PROVE WorkersInv'
<1>1. call[c].at = "ensure" /\ call[c] \in Calls
  BY DEF EnsureWorker, WorkersInv, WorkersTypeOK, Calls
<1>2. ~exact /\ \A d \in Reconcilers \ {c} : ~call[d].alone
  BY <1>1, Busy
<1>3. PICK s \in call[c].todo :
          call' = [call EXCEPT ![c].todo = @ \ {s}, ![c].symbol = s,
                               ![c].at = IF workers[s] = 0 THEN "subscribe" ELSE "ensure"]
  BY DEF EnsureWorker
<1>4. s \in Symbols
  BY <1>1 DEF Calls
<1> DEFINE at == IF workers[s] = 0 THEN "subscribe" ELSE "ensure"
           r == [call[c] EXCEPT !.todo = @ \ {s}, !.symbol = s, !.at = at]
<1>5. /\ r \in Calls /\ r.at = at /\ r.todo = call[c].todo \ {s} /\ r.symbol = s
      /\ r.required = call[c].required /\ r.alone = call[c].alone
  <2>1. at \in {"subscribe", "ensure"}
    OBVIOUS
  <2> HIDE DEF at
  <2> QED BY <1>1, <1>4, <2>1 DEF Calls
<1>6. call' = [call EXCEPT ![c] = r]
  BY <1>3
<1> HIDE DEF r
<1>7. /\ call' \in [Reconcilers -> Calls] /\ call'[c] = r
      /\ \A d \in Reconcilers \ {c} : call'[d] = call[d]
  BY <1>5, <1>6, CallStep DEF WorkersInv
<1>8. UNCHANGED <<open, enabled, workers, streams, exact, changes, misses>>
  BY DEF EnsureWorker
<1>9. NoOrphanStream' /\ WorkerIsAlive' /\ HandedOver' /\ LiveIsNamed'
  BY <1>1, <1>5, <1>7, <1>8, CallsKeep
<1>10. WorkersTypeOK'
  BY <1>7, <1>8 DEF WorkersInv, WorkersTypeOK, Calls
<1>11. AloneIsRight'
  <2> SUFFICES ASSUME call[c].alone
               PROVE  /\ r.at \in {"ensure", "subscribe", "insert"}
                      /\ \A d \in Reconcilers \ {c} : call[d].at = "idle"
                      /\ r.required = open
                      /\ \A t \in open \ r.todo :
                           workers[t] # 0 \/ (r.at # "ensure" /\ t = r.symbol)
    BY <1>2, <1>5, <1>7, <1>8 DEF AloneIsRight
  <2>1. /\ \A d \in Reconcilers \ {c} : call[d].at = "idle"
        /\ call[c].required = open
        /\ \A t \in open \ call[c].todo : workers[t] # 0
    BY <1>1 DEF WorkersInv, AloneIsRight
  <2>2. workers[s] # 0 \/ (r.at # "ensure" /\ s = r.symbol)
    BY <1>5
  <2>3. \A t \in open \ r.todo : t = s \/ workers[t] # 0
    BY <1>5, <2>1
  <2> QED BY <1>5, <2>1, <2>2, <2>3
<1>12. ExactIsQuiet' /\ ReconciledIsExact'
  BY <1>2, <1>8 DEF ExactIsQuiet, ReconciledIsExact
<1>13. \A d \in Reconcilers : call'[d].at = "subscribe" => call'[d].symbol \in Symbols
  BY <1>4, <1>5, <1>7 DEF WorkersInv
<1> QED BY <1>9, <1>10, <1>11, <1>12, <1>13 DEF WorkersInv

LEMMA SubscribeKeeps ==
    ASSUME WorkersAssumption, WorkersInv, NEW c \in Reconcilers, Subscribe(c) PROVE WorkersInv'
<1>1. call[c].at = "subscribe" /\ call[c] \in Calls /\ call[c].symbol \in Symbols
  BY DEF Subscribe, WorkersInv, WorkersTypeOK, Calls
<1>2. ~exact /\ \A d \in Reconcilers \ {c} : ~call[d].alone
  BY <1>1, Busy
<1>3. UNCHANGED <<open, enabled, workers, exact, changes>> /\ misses' \in 0 .. MaxMisses
  <2>1. misses' = misses \/ (misses < MaxMisses /\ misses' = misses + 1)
    BY DEF Subscribe, Fail
  <2>2. misses \in 0 .. MaxMisses
    BY DEF WorkersInv, WorkersTypeOK
  <2>3. misses' \in 0 .. MaxMisses
    BY <2>1, <2>2, WorkerBounds
  <2> QED BY <2>3 DEF Subscribe
<1>4. ExactIsQuiet' /\ ReconciledIsExact'
  BY <1>2, <1>3 DEF ExactIsQuiet, ReconciledIsExact
<1>5. CASE Return(c) /\ UNCHANGED streams
  <2>1. /\ call' \in [Reconcilers -> Calls] /\ call'[c] = Asleep
        /\ \A d \in Reconcilers \ {c} : call'[d] = call[d]
    BY <1>5, SleepIsTyped, CallStep DEF WorkersInv, Return
  <2>2. NoOrphanStream' /\ WorkerIsAlive' /\ HandedOver' /\ LiveIsNamed'
    BY <1>1, <1>3, <1>5, <2>1, SleepIsTyped, CallsKeep
  <2>3. WorkersTypeOK'
    BY <1>3, <1>5, <2>1 DEF WorkersInv, WorkersTypeOK, Calls
  <2>4. AloneIsRight'
    BY <1>2, <2>1, SleepIsTyped DEF AloneIsRight
  <2>5. \A d \in Reconcilers : call'[d].at = "subscribe" => call'[d].symbol \in Symbols
    BY <2>1, SleepIsTyped DEF WorkersInv
  <2> QED BY <1>4, <2>2, <2>3, <2>4, <2>5 DEF WorkersInv
<1>6. CASE \E i \in Streams :
             /\ streams[i].state = "unused"
             /\ streams' = [streams EXCEPT ![i] = [symbol |-> call[c].symbol, state |-> "live"]]
             /\ call' = [call EXCEPT ![c].at = "insert", ![c].stream = i]
  <2>1. PICK i \in Streams :
             /\ streams[i].state = "unused"
             /\ streams' = [streams EXCEPT ![i] = [symbol |-> call[c].symbol, state |-> "live"]]
             /\ call' = [call EXCEPT ![c].at = "insert", ![c].stream = i]
    BY <1>6
  <2> DEFINE r == [call[c] EXCEPT !.at = "insert", !.stream = i]
  <2>2. /\ r \in Calls /\ r.at = "insert" /\ r.stream = i /\ r.symbol = call[c].symbol
        /\ r.required = call[c].required /\ r.todo = call[c].todo /\ r.alone = call[c].alone
    BY <1>1 DEF Calls
  <2>3. call' = [call EXCEPT ![c] = r]
    BY <2>1
  <2> HIDE DEF r
  <2>4. /\ call' \in [Reconcilers -> Calls] /\ call'[c] = r
        /\ \A d \in Reconcilers \ {c} : call'[d] = call[d]
    BY <2>2, <2>3, CallStep DEF WorkersInv
  <2>5. /\ streams'[i] = [symbol |-> call[c].symbol, state |-> "live"]
        /\ \A j \in Streams \ {i} : streams'[j] = streams[j]
        /\ streams' \in [Streams -> [symbol : Symbols \cup {""},
                                     state : {"unused", "live", "cancelled", "ended"}]]
    BY <1>1, <2>1 DEF WorkersInv, WorkersTypeOK
  <2>6. \A s \in Symbols : workers[s] # i
    <3>1. i # 0
      BY DEF Streams
    <3> QED BY <2>1, <3>1, WorkerFacts
  <2>7. NoOrphanStream' /\ LiveIsNamed'
    <3> SUFFICES ASSUME NEW j \in Streams, streams'[j].state = "live"
                 PROVE  /\ streams'[j].symbol \in Symbols
                        /\ \/ workers'[streams'[j].symbol] = j
                           \/ \E d \in Reconcilers : call'[d].at = "insert" /\ call'[d].stream = j
      BY DEF NoOrphanStream, LiveIsNamed
    <3>1. CASE j = i
      <4>1. streams'[i].symbol \in Symbols
        <5> DEFINE new == [symbol |-> call[c].symbol, state |-> "live"]
        <5>1. new.symbol = call[c].symbol
          OBVIOUS
        <5>2. streams'[i] = new
          BY <2>5
        <5> HIDE DEF new
        <5> QED BY <1>1, <5>1, <5>2
      <4>2. call'[c].at = "insert" /\ call'[c].stream = i
        BY <2>2, <2>4
      <4> QED BY <3>1, <4>1, <4>2
    <3>2. CASE j # i
      <4>1. streams'[j] = streams[j]
        BY <2>5, <3>2
      <4>2. /\ streams[j].symbol \in Symbols
            /\ \/ workers[streams[j].symbol] = j
               \/ \E d \in Reconcilers : call[d].at = "insert" /\ call[d].stream = j
        BY <4>1, LiveFacts
      <4>3. \A d \in Reconcilers : call[d].at = "insert" => call'[d] = call[d]
        BY <1>1, <2>4
      <4> QED BY <1>3, <4>1, <4>2, <4>3
    <3> QED BY <3>1, <3>2
  <2>8. WorkerIsAlive'
    BY <1>3, <2>5, <2>6 DEF WorkersInv, WorkersTypeOK, WorkerIsAlive
  <2>9. HandedOver'
    <3> SUFFICES ASSUME NEW d \in Reconcilers, call'[d].at = "insert"
                 PROVE  /\ call'[d].stream \in Streams /\ call'[d].symbol \in Symbols
                        /\ streams'[call'[d].stream] = [symbol |-> call'[d].symbol, state |-> "live"]
                        /\ \A s \in Symbols : workers'[s] # call'[d].stream
                        /\ \A e \in Reconcilers \ {d} :
                             call'[e].at = "insert" => call'[e].stream # call'[d].stream
      BY DEF HandedOver
    <3>1. \A e \in Reconcilers \ {c} : call[e].at = "insert" => call[e].stream # i
      BY <2>1, HandedFacts
    <3>2. CASE d = c
      BY <1>1, <1>3, <2>2, <2>4, <2>5, <2>6, <3>1, <3>2
    <3>3. CASE d # c
      <4>1. /\ call'[d] = call[d]
            /\ call[d].stream \in Streams /\ call[d].symbol \in Symbols
            /\ streams[call[d].stream] = [symbol |-> call[d].symbol, state |-> "live"]
            /\ \A s \in Symbols : workers[s] # call[d].stream
            /\ \A e \in Reconcilers \ {d} :
                  call[e].at = "insert" => call[e].stream # call[d].stream
        BY <2>4, <3>3, HandedFacts
      <4>2. call[d].stream # i
        BY <2>4, <3>1, <3>3
      <4>3. /\ call'[d].stream = call[d].stream /\ call'[d].symbol = call[d].symbol
            /\ streams'[call[d].stream] = streams[call[d].stream]
        BY <2>5, <4>1, <4>2
      <4>4. \A e \in Reconcilers \ {d} :
                call'[e].at = "insert" => call'[e].stream # call[d].stream
        BY <2>2, <2>4, <4>1, <4>2
      <4> QED BY <1>3, <4>1, <4>3, <4>4
    <3> QED BY <3>2, <3>3
  <2>10. WorkersTypeOK'
    BY <1>3, <2>4, <2>5 DEF WorkersInv, WorkersTypeOK, Calls
  <2>11. AloneIsRight'
    <3> SUFFICES ASSUME call[c].alone
                 PROVE  /\ r.at \in {"ensure", "subscribe", "insert"}
                        /\ \A d \in Reconcilers \ {c} : call[d].at = "idle"
                        /\ r.required = open
                        /\ \A t \in open \ r.todo :
                             workers[t] # 0 \/ (r.at # "ensure" /\ t = r.symbol)
      BY <1>2, <1>3, <2>2, <2>4 DEF AloneIsRight
    <3> QED BY <1>1, <2>2 DEF WorkersInv, AloneIsRight
  <2>12. \A d \in Reconcilers : call'[d].at = "subscribe" => call'[d].symbol \in Symbols
    BY <1>1, <2>2, <2>4 DEF WorkersInv
  <2> QED BY <1>4, <2>7, <2>8, <2>9, <2>10, <2>11, <2>12 DEF WorkersInv
<1> QED BY <1>5, <1>6 DEF Subscribe
LEMMA InsertWorkerKeeps ==
    ASSUME WorkersInv, NEW c \in Reconcilers, InsertWorker(c) PROVE WorkersInv'
<1>1. call[c].at = "insert" /\ call[c] \in Calls
  BY DEF InsertWorker, WorkersInv, WorkersTypeOK, Calls
<1>2. ~exact /\ \A d \in Reconcilers \ {c} : ~call[d].alone
  BY <1>1, Busy
<1> DEFINE own == call[c].stream
           sym == call[c].symbol
           r == [call[c] EXCEPT !.at = "ensure", !.stream = 0]
<1>3. /\ r \in Calls /\ r.at = "ensure" /\ r.alone = call[c].alone
      /\ r.required = call[c].required /\ r.todo = call[c].todo
  BY <1>1 DEF Calls
<1>4. call' = [call EXCEPT ![c] = r]
  BY DEF InsertWorker
<1> HIDE DEF r
<1>5. /\ call' \in [Reconcilers -> Calls] /\ call'[c] = r
      /\ \A d \in Reconcilers \ {c} : call'[d] = call[d]
  BY <1>3, <1>4, CallStep DEF WorkersInv
<1>6. /\ own \in Streams /\ sym \in Symbols
      /\ streams[own] = [symbol |-> sym, state |-> "live"]
      /\ \A s \in Symbols : workers[s] # own
      /\ \A d \in Reconcilers \ {c} : call[d].at = "insert" => call[d].stream # own
  BY <1>1, HandedFacts
<1>7. UNCHANGED <<open, enabled, exact, changes, misses>>
  BY DEF InsertWorker
<1>8. \A d \in Reconcilers : call'[d].at = "insert" => d # c /\ call'[d] = call[d]
  BY <1>3, <1>5
<1>9. \A d \in Reconcilers \ {c} : call[d].at = "insert" =>
        /\ call[d].stream \in Streams /\ call[d].symbol \in Symbols
        /\ streams[call[d].stream] = [symbol |-> call[d].symbol, state |-> "live"]
        /\ \A s \in Symbols : workers[s] # call[d].stream
        /\ \A e \in Reconcilers \ {d} : call[e].at = "insert" => call[e].stream # call[d].stream
  BY HandedFacts
<1>10. \A i \in Streams : streams[i].state = "live" =>
        /\ streams[i].symbol \in Symbols
        /\ \/ workers[streams[i].symbol] = i
           \/ \E d \in Reconcilers : call[d].at = "insert" /\ call[d].stream = i
  BY LiveFacts
<1>11. ExactIsQuiet' /\ ReconciledIsExact'
  BY <1>2, <1>7 DEF ExactIsQuiet, ReconciledIsExact
<1>12. \A d \in Reconcilers : call'[d].at = "subscribe" => call'[d].symbol \in Symbols
  BY <1>3, <1>5 DEF WorkersInv
<1>13. ASSUME workers'[sym] # 0, \A s \in Symbols : workers[s] # 0 => workers'[s] # 0
       PROVE  AloneIsRight'
  <2> SUFFICES ASSUME call[c].alone
               PROVE  /\ \A d \in Reconcilers \ {c} : call[d].at = "idle"
                      /\ r.required = open
                      /\ \A t \in open \ r.todo : workers'[t] # 0
    BY <1>2, <1>3, <1>5, <1>7 DEF AloneIsRight
  <2>1. /\ \A d \in Reconcilers \ {c} : call[d].at = "idle"
        /\ call[c].required = open
        /\ \A t \in open \ call[c].todo : workers[t] # 0 \/ t = sym
    BY DEF WorkersInv, AloneIsRight
  <2>2. open \subseteq Symbols
    BY DEF WorkersInv, WorkersTypeOK
  <2> QED BY <1>3, <1>13, <2>1, <2>2
<1>14. CASE Occupied(c) /\ streams' = Cancel({own}) /\ UNCHANGED workers
  <2>1. /\ streams' \in [Streams -> [symbol : Symbols \cup {""},
                                     state : {"unused", "live", "cancelled", "ended"}]]
        /\ \A i \in Streams \ {own} : streams'[i] = streams[i]
        /\ streams'[own].state = "cancelled"
    BY <1>6, <1>14, Cancelled DEF WorkersInv
  <2>2. WorkersTypeOK'
    BY <1>5, <1>7, <1>14, <2>1 DEF WorkersInv, WorkersTypeOK, Calls
  <2>3. NoOrphanStream' /\ LiveIsNamed'
    <3> SUFFICES ASSUME NEW i \in Streams, streams'[i].state = "live"
                 PROVE  /\ streams'[i].symbol \in Symbols
                        /\ \/ workers'[streams'[i].symbol] = i
                           \/ \E d \in Reconcilers : call'[d].at = "insert" /\ call'[d].stream = i
      BY DEF NoOrphanStream, LiveIsNamed
    <3>1. i # own /\ streams'[i] = streams[i]
      BY <2>1
    <3>2. \A d \in Reconcilers : call[d].at = "insert" /\ call[d].stream = i => call'[d] = call[d]
      BY <1>5, <3>1
    <3> QED BY <1>10, <1>14, <3>1, <3>2
  <2>4. WorkerIsAlive'
    <3> SUFFICES ASSUME NEW s \in Symbols, workers[s] # 0
                 PROVE  streams'[workers[s]] = [symbol |-> s, state |-> "live"]
      BY <1>14 DEF WorkerIsAlive
    <3>1. workers[s] \in Streams /\ workers[s] # own
      BY <1>6, WorkerFacts
    <3>2. streams'[workers[s]] = streams[workers[s]]
      BY <2>1, <3>1
    <3> QED BY <3>2, WorkerFacts
  <2>5. HandedOver'
    <3>1. \A d \in Reconcilers \ {c} : call[d].at = "insert" =>
             streams'[call[d].stream] = streams[call[d].stream]
      BY <1>6, <1>9, <2>1
    <3> SUFFICES ASSUME NEW d \in Reconcilers, call'[d].at = "insert"
                 PROVE  /\ call'[d].stream \in Streams /\ call'[d].symbol \in Symbols
                        /\ streams'[call'[d].stream] = [symbol |-> call'[d].symbol, state |-> "live"]
                        /\ \A s \in Symbols : workers'[s] # call'[d].stream
                        /\ \A e \in Reconcilers \ {d} :
                             call'[e].at = "insert" => call'[e].stream # call'[d].stream
      BY DEF HandedOver
    <3>2. d \in Reconcilers \ {c} /\ call[d].at = "insert" /\ call'[d] = call[d]
      BY <1>8
    <3>3. \A e \in Reconcilers \ {d} :
             call'[e].at = "insert" => call'[e].stream # call[d].stream
      BY <1>8, <1>9, <3>2
    <3> QED BY <1>9, <1>14, <3>1, <3>2, <3>3
  <2>6. AloneIsRight'
    BY <1>13, <1>14 DEF Occupied
  <2> QED BY <1>11, <1>12, <2>2, <2>3, <2>4, <2>5, <2>6 DEF WorkersInv
<1>15. CASE ~Occupied(c) /\ workers' = [workers EXCEPT ![sym] = own] /\ UNCHANGED streams
  <2>1. /\ workers' \in [Symbols -> Streams \cup {0}] /\ workers'[sym] = own
        /\ \A s \in Symbols \ {sym} : workers'[s] = workers[s]
    BY <1>6, <1>15 DEF WorkersInv, WorkersTypeOK
  <2>2. workers[sym] = 0 /\ own # 0
    BY <1>6, <1>15 DEF Occupied, Streams
  <2>3. WorkersTypeOK'
    BY <1>5, <1>7, <1>15, <2>1 DEF WorkersInv, WorkersTypeOK, Calls
  <2>4. NoOrphanStream' /\ LiveIsNamed'
    <3> SUFFICES ASSUME NEW i \in Streams, streams[i].state = "live"
                 PROVE  /\ streams[i].symbol \in Symbols
                        /\ \/ workers'[streams[i].symbol] = i
                           \/ \E d \in Reconcilers : call'[d].at = "insert" /\ call'[d].stream = i
      BY <1>15 DEF NoOrphanStream, LiveIsNamed
    <3>1. CASE i = own
      BY <1>6, <2>1, <3>1
    <3>2. CASE i # own
      <4>1. 0 \notin Streams
        BY DEF Streams
      <4>2. \A d \in Reconcilers :
                call[d].at = "insert" /\ call[d].stream = i => call'[d] = call[d]
        BY <1>5, <3>2
      <4>3. workers[streams[i].symbol] = i => streams[i].symbol # sym
        BY <2>2, <4>1
      <4> QED BY <1>10, <2>1, <4>2, <4>3
    <3> QED BY <3>1, <3>2
  <2>5. WorkerIsAlive'
    BY <1>6, <1>15, <2>1 DEF WorkersInv, WorkerIsAlive
  <2>6. HandedOver'
    <3>1. \A d \in Reconcilers \ {c} : call[d].at = "insert" =>
             \A s \in Symbols : workers'[s] # call[d].stream
      BY <1>6, <1>9, <2>1
    <3> QED BY <1>8, <1>9, <1>15, <3>1 DEF HandedOver
  <2>7. AloneIsRight'
    BY <1>13, <2>1, <2>2
  <2> QED BY <1>11, <1>12, <2>3, <2>4, <2>5, <2>6, <2>7 DEF WorkersInv
<1> QED BY <1>14, <1>15 DEF InsertWorker

LEMMA PruneKeeps == ASSUME WorkersInv, NEW c \in Reconcilers, Prune(c) PROVE WorkersInv'
<1> DEFINE surplus == Symbols \ call[c].required
<1>1. /\ call[c].at = "ensure" /\ call[c].todo = {} /\ exact' = call[c].alone
      /\ streams' = Cancel({workers[s] : s \in surplus})
      /\ workers' = [s \in Symbols |-> IF s \in surplus THEN 0 ELSE workers[s]]
      /\ UNCHANGED <<open, enabled, changes, misses>>
  BY DEF Prune
<1>2. call[c] \in Calls /\ exact' \in BOOLEAN
  BY <1>1 DEF WorkersInv, WorkersTypeOK, Calls
<1>3. \A d \in Reconcilers \ {c} : ~call[d].alone
  BY <1>1, Busy
<1>4. /\ call' \in [Reconcilers -> Calls] /\ call'[c] = Asleep
      /\ \A d \in Reconcilers \ {c} : call'[d] = call[d]
  BY SleepIsTyped, CallStep DEF WorkersInv, Prune, Return
<1>5. /\ workers' \in [Symbols -> Streams \cup {0}]
      /\ streams' \in [Streams -> [symbol : Symbols \cup {""},
                                   state : {"unused", "live", "cancelled", "ended"}]]
      /\ NoOrphanStream' /\ WorkerIsAlive' /\ HandedOver' /\ LiveIsNamed'
  <2>1. /\ \A d \in Reconcilers : call[d].at = "insert" <=> call'[d].at = "insert"
        /\ \A d \in Reconcilers : call[d].at = "insert" =>
              call'[d].stream = call[d].stream /\ call'[d].symbol = call[d].symbol
    BY <1>1, <1>4, SleepIsTyped
  <2>2. surplus \in SUBSET Symbols
    OBVIOUS
  <2> HIDE DEF surplus
  <2> QED BY <1>1, <2>1, <2>2, ForgetKeeps
<1>6. WorkersTypeOK'
  BY <1>1, <1>2, <1>4, <1>5 DEF WorkersInv, WorkersTypeOK, Calls
<1>7. AloneIsRight'
  BY <1>3, <1>4, SleepIsTyped DEF AloneIsRight
<1>8. ASSUME call[c].alone
      PROVE  /\ \A d \in Reconcilers : call'[d].at = "idle"
             /\ {s \in Symbols : workers'[s] # 0} = open'
  <2>1. /\ \A d \in Reconcilers \ {c} : call[d].at = "idle"
        /\ call[c].required = open /\ \A s \in open : workers[s] # 0
    BY <1>1, <1>8 DEF WorkersInv, AloneIsRight
  <2>2. open \subseteq Symbols
    BY DEF WorkersInv, WorkersTypeOK
  <2>3. \A s \in Symbols : workers'[s] # 0 <=> s \in open
    BY <1>1, <2>1, <2>2
  <2>4. open' = open
    BY <1>1
  <2> QED BY <1>4, <2>1, <2>2, <2>3, <2>4, SleepIsTyped
<1>9. exact' => call[c].alone
  BY <1>1, Zenon
<1>10. ExactIsQuiet' /\ ReconciledIsExact'
  BY <1>8, <1>9 DEF ExactIsQuiet, ReconciledIsExact
<1>11. \A d \in Reconcilers : call'[d].at = "subscribe" => call'[d].symbol \in Symbols
  BY <1>4, SleepIsTyped DEF WorkersInv
<1> QED BY <1>5, <1>6, <1>7, <1>10, <1>11 DEF WorkersInv

\* A stream that ends was cancelled before, and no worker has it any more.
LEMMA DrainedKeeps == ASSUME WorkersInv, NEW i \in Streams, Drained(i) PROVE WorkersInv'
<1>1. /\ streams[i].state = "cancelled" /\ streams' = [streams EXCEPT ![i].state = "ended"]
      /\ workers' = [s \in Symbols |-> IF workers[s] = i THEN 0 ELSE workers[s]]
      /\ UNCHANGED <<open, enabled, call, exact, changes, misses>>
  BY DEF Drained
<1>2. \A s \in Symbols : workers[s] # i
  <2>1. i # 0
    BY DEF Streams
  <2> QED BY <1>1, <2>1, WorkerFacts
<1>3. \A s \in Symbols : workers'[s] = workers[s]
  BY <1>1, <1>2
<1>4. /\ streams' \in [Streams -> [symbol : Symbols \cup {""},
                                   state : {"unused", "live", "cancelled", "ended"}]]
      /\ \A j \in Streams \ {i} : streams'[j] = streams[j]
      /\ streams'[i].state = "ended"
  BY <1>1 DEF WorkersInv, WorkersTypeOK
<1>5. WorkersTypeOK'
  <2>1. workers' \in [Symbols -> Streams \cup {0}]
    BY <1>1 DEF WorkersInv, WorkersTypeOK
  <2> QED BY <1>1, <1>4, <2>1 DEF WorkersInv, WorkersTypeOK
<1>6. NoOrphanStream' /\ LiveIsNamed'
  <2>1. \A j \in Streams : streams'[j].state = "live" => j # i /\ streams'[j] = streams[j]
    BY <1>4
  <2> QED BY <1>1, <1>3, <2>1, LiveFacts DEF NoOrphanStream, LiveIsNamed
<1>7. WorkerIsAlive'
  <2>1. \A s \in Symbols : workers[s] \in Streams \cup {0}
    BY DEF WorkersInv, WorkersTypeOK
  <2> QED BY <1>2, <1>3, <1>4, <2>1 DEF WorkersInv, WorkerIsAlive
<1>8. HandedOver'
  <2>1. \A c \in Reconcilers : call[c].at = "insert" =>
           call[c].stream \in Streams /\ streams[call[c].stream].state = "live"
    BY HandedFacts
  <2>2. \A c \in Reconcilers : call[c].at = "insert" => call[c].stream # i
    BY <1>1, <2>1
  <2>3. \A c \in Reconcilers : call[c].at = "insert" =>
           streams'[call[c].stream] = streams[call[c].stream]
    BY <1>4, <2>1, <2>2
  <2>4. call' = call
    BY <1>1
  <2>5. HandedOver
    BY DEF WorkersInv
  <2> QED BY <1>3, <2>3, <2>4, <2>5 DEF HandedOver
<1>9. AloneIsRight'
  <2>1. open \subseteq Symbols
    BY DEF WorkersInv, WorkersTypeOK
  <2> QED BY <1>1, <1>3, <2>1 DEF WorkersInv, AloneIsRight
<1>10. ExactIsQuiet' /\ ReconciledIsExact'
  BY <1>1, <1>3 DEF WorkersInv, ExactIsQuiet, ReconciledIsExact
<1> QED BY <1>1, <1>5, <1>6, <1>7, <1>8, <1>9, <1>10 DEF WorkersInv

LEMMA ToggleKeeps == ASSUME WorkersAssumption, WorkersInv, Toggle PROVE WorkersInv'
<1>1. UNCHANGED <<open, workers, streams, call, exact, misses>> /\ enabled' = ~enabled
  BY DEF Toggle
<1>2. changes' \in 0 .. MaxChanges
  <2>1. changes < MaxChanges /\ changes' = changes + 1 /\ changes \in 0 .. MaxChanges
    BY DEF Toggle, WorkersInv, WorkersTypeOK
  <2> QED BY <2>1, WorkerBounds
<1>3. WorkersTypeOK'
  BY <1>1, <1>2 DEF WorkersInv, WorkersTypeOK
<1> QED BY <1>1, <1>3 DEF WorkersInv, NoOrphanStream, WorkerIsAlive, HandedOver, LiveIsNamed,
                          AloneIsRight, ExactIsQuiet, ReconciledIsExact

LEMMA WorkersStep == ASSUME WorkersAssumption, WorkersInv, [WorkersNext]_workerVars PROVE WorkersInv'
<1>1. CASE WorkersNext
  BY <1>1, ChangeKeeps, ToggleKeeps, CheckEnabledKeeps, ReadOpenKeeps, EnsureWorkerKeeps,
     SubscribeKeeps, InsertWorkerKeeps, PruneKeeps, DrainedKeeps DEF WorkersNext, Reconcile
<1>2. CASE UNCHANGED workerVars
  <2>1. WorkersTypeOK'
    BY <1>2 DEF workerVars, WorkersInv, WorkersTypeOK
  <2> QED BY <1>2, <2>1 DEF workerVars, WorkersInv, NoOrphanStream, WorkerIsAlive, HandedOver,
                            LiveIsNamed, AloneIsRight, ExactIsQuiet, ReconciledIsExact
<1> QED BY <1>1, <1>2

\* Whatever changes, failures and reconciliations overlap, for any number of
\* symbols, goroutines and subscriptions: no live stream is forgotten, no
\* worker listens to a stream that is dead or of another symbol, and an
\* undisturbed reconciliation leaves exactly the workers of the open positions
\* (Reconcile, ensureWorker, runWorker and Close of position_monitor.go).
THEOREM StreamsOwned == ASSUME WorkersAssumption PROVE WorkersSpec => []StreamsAreOwned
<1>1. WorkersInit => WorkersInv
  BY WorkersStart
<1>2. WorkersInv /\ [WorkersNext]_workerVars => WorkersInv'
  BY WorkersStep
<1>3. WorkersInv => StreamsAreOwned
  BY DEF WorkersInv, StreamsAreOwned
<1> QED BY <1>1, <1>2, <1>3, PTL DEF WorkersSpec

-----------------------------------------------------------------------------
SeenRows == [trail : Nat, atr : BOOLEAN, pending : BOOLEAN]

Evaluations ==
    [at : EvaluationSteps, price : Prices \cup {0}, age : 0 .. MaxDelay, seen : SeenRows]

PositionRows ==
    [open : BOOLEAN, trail : Nat, atr : BOOLEAN, mark : Prices \cup {0}, age : 0 .. Old,
     pending : BOOLEAN, left : BOOLEAN]

\* An exit that an evaluator saw pending is pending still.
PendingSeen == \A e \in Evaluators : eval[e].seen.pending => position.pending

\* A mark that calls for an exit is in the hands of its writer, with the stop
\* that was written with it, unless a close is about to be requested.
WriterJudges ==
    Unanswered => \/ position.left
                  \/ \E e \in Evaluators :
                       \/ eval[e].at = "close"
                       \/ /\ eval[e].at = "judge" /\ eval[e].price = position.mark
                          /\ eval[e].seen.trail = position.trail

MarksInv == MarksTypeOK /\ PendingSeen /\ WriterJudges

-----------------------------------------------------------------------------
LEMMA MaxOfTwo ==
    ASSUME NEW x \in Int, NEW y \in Int PROVE Max({x, y}) \in {x, y}
<1>1. \E m \in {x, y} : \A n \in {x, y} : m >= n
  OBVIOUS
<1> QED BY <1>1 DEF Max

\* Old is older than every age that matters.
LEMMA OldIsOld ==
    ASSUME MarksAssumption PROVE Old \in Nat /\ MaxDelay \in Nat /\ MaxDelay < Old
<1> DEFINE S == {StaleAfter, MaxDelay, CronEvery}
<1>1. StaleAfter \in Nat /\ MaxDelay \in Nat /\ CronEvery \in Nat
  BY DEF MarksAssumption
<1>2. \E m \in S : \A n \in S : m >= n
  BY <1>1
<1>3. Max(S) \in S /\ \A n \in S : Max(S) >= n
  BY <1>2 DEF Max
<1>4. Max(S) \in Nat /\ Max(S) >= MaxDelay
  BY <1>1, <1>3
<1> QED BY <1>1, <1>4 DEF Old

LEMMA RatchetIsNat ==
    ASSUME NEW existing \in Nat, NEW candidate \in Int PROVE Ratchet(existing, candidate) \in Nat
BY DEF Ratchet

LEMMA TypingParts ==
    MarksTypeOK <=>
        /\ exitPolicy \in ExitPolicies /\ market \in Prices /\ position \in PositionRows
        /\ heard \in 0 .. Old /\ ran \in 0 .. Old /\ connected \in BOOLEAN /\ ticked \in BOOLEAN
        /\ eval \in [Evaluators -> Evaluations]
        /\ moves \in 0 .. MaxMoves /\ faults \in 0 .. MaxFaults
BY DEF MarksTypeOK, PositionRows, Evaluations, SeenRows

LEMMA EvaluationFields ==
    ASSUME NEW r \in Evaluations
    PROVE  /\ r.at \in EvaluationSteps /\ r.price \in Prices \cup {0} /\ r.age \in 0 .. MaxDelay
           /\ r.seen \in SeenRows /\ r.seen.trail \in Nat /\ r.seen.atr \in BOOLEAN
           /\ r.seen.pending \in BOOLEAN
BY DEF Evaluations, SeenRows

LEMMA RestingIsTyped ==
    ASSUME MarksAssumption
    PROVE  /\ Resting \in Evaluations /\ Resting.at = "idle" /\ ~Resting.seen.pending
           /\ [Resting EXCEPT !.at = "close"] \in Evaluations
           /\ [Resting EXCEPT !.at = "close"].at = "close"
           /\ ~[Resting EXCEPT !.at = "close"].seen.pending
<1>1. 0 \in 0 .. MaxDelay
  BY OldIsOld
<1>2. [trail |-> 0, atr |-> FALSE, pending |-> FALSE] \in SeenRows
  BY DEF SeenRows
<1> QED BY <1>1, <1>2 DEF Resting, Evaluations, EvaluationSteps

LEMMA TrailingIsNat ==
    ASSUME MarksAssumption, MarksTypeOK, NEW e \in Evaluators PROVE Trailing(e) \in Nat
<1>1. /\ eval[e] \in Evaluations /\ eval[e].seen.trail \in Nat
      /\ eval[e].price \in Nat
  <2>1. eval[e] \in Evaluations
    BY TypingParts
  <2>2. Prices \subseteq Nat
    BY DEF MarksAssumption
  <2>3. eval[e].price \in Prices \cup {0} /\ eval[e].seen.trail \in Nat
    BY <2>1, EvaluationFields
  <2>4. eval[e].price \in Nat
    BY <2>2, <2>3
  <2> QED BY <2>1, <2>3, <2>4
<1>2. Entry \in Nat /\ TrailDist \in Nat /\ AtrDist \in Nat
  BY DEF MarksAssumption
<1>3. RatchetPercentTrailingStop(eval[e].seen.trail, eval[e].price) \in Nat
  <2>1. eval[e].price - TrailDist \in Int
    BY <1>1, <1>2
  <2>2. Ratchet(eval[e].seen.trail, eval[e].price - TrailDist) \in Nat
    BY <1>1, <2>1, RatchetIsNat
  <2> QED BY <1>1, <2>2 DEF RatchetPercentTrailingStop
<1>4. RatchetATRTrailingStop(eval[e].seen.trail, eval[e].price) \in Nat
  <2>1. Max({eval[e].price, Entry}) \in Int
    BY <1>1, <1>2, MaxOfTwo
  <2>2. Max({eval[e].price, Entry}) - AtrDist \in Int
    BY <1>2, <2>1
  <2> QED BY <1>1, <2>2, RatchetIsNat DEF RatchetATRTrailingStop
<1> QED BY <1>1, <1>3, <1>4 DEF Trailing

LEMMA EvaluatorStep ==
    ASSUME MarksTypeOK, NEW e \in Evaluators, NEW r \in Evaluations, eval' = [eval EXCEPT ![e] = r]
    PROVE  /\ eval' \in [Evaluators -> Evaluations] /\ eval'[e] = r
           /\ \A d \in Evaluators \ {e} : eval'[d] = eval[d]
BY TypingParts

LEMMA MarksStart == ASSUME MarksAssumption, MarksInit PROVE MarksInv
<1>1. position \in PositionRows /\ position.mark = 0
  BY OldIsOld DEF MarksInit, PositionRows
<1>2. eval \in [Evaluators -> Evaluations] /\ \A e \in Evaluators : ~eval[e].seen.pending
  BY RestingIsTyped DEF MarksInit
<1>3. heard \in 0 .. Old /\ ran \in 0 .. Old
  <2>1. heard = Old /\ ran = Old
    BY DEF MarksInit
  <2> QED BY <2>1, OldIsOld
<1>4. moves \in 0 .. MaxMoves /\ faults \in 0 .. MaxFaults
  <2>1. moves = 0 /\ faults = 0
    BY DEF MarksInit
  <2>2. MaxMoves \in Nat /\ MaxFaults \in Nat
    BY DEF MarksAssumption
  <2> QED BY <2>1, <2>2
<1>5. exitPolicy \in ExitPolicies /\ market \in Prices /\ connected \in BOOLEAN /\ ticked \in BOOLEAN
  BY DEF MarksInit
<1>6. MarksTypeOK
  BY <1>1, <1>2, <1>3, <1>4, <1>5, TypingParts
<1> QED BY <1>1, <1>2, <1>6 DEF MarksInv, PendingSeen, WriterJudges, Unanswered

\* Steps that leave the row alone and take no judgement away.
LEMMA RowStays ==
    ASSUME MarksInv, UNCHANGED <<position, exitPolicy>>,
           \A e \in Evaluators : eval'[e].seen.pending => position.pending,
           \A e \in Evaluators : eval[e].at \in {"judge", "close"} => eval'[e] = eval[e]
    PROVE  PendingSeen' /\ WriterJudges'
<1>1. PendingSeen'
  BY DEF PendingSeen
<1>2. Unanswered' <=> Unanswered
  BY DEF Unanswered, Protective
<1>3. ASSUME Unanswered, ~position.left
      PROVE  \E e \in Evaluators :
               \/ eval'[e].at = "close"
               \/ /\ eval'[e].at = "judge" /\ eval'[e].price = position'.mark
                  /\ eval'[e].seen.trail = position'.trail
  <2>1. PICK e \in Evaluators :
               \/ eval[e].at = "close"
               \/ /\ eval[e].at = "judge" /\ eval[e].price = position.mark
                  /\ eval[e].seen.trail = position.trail
    BY <1>3 DEF MarksInv, WriterJudges
  <2>2. eval'[e] = eval[e]
    BY <2>1
  <2> QED BY <2>1, <2>2
<1> QED BY <1>1, <1>2, <1>3 DEF WriterJudges

-----------------------------------------------------------------------------
LEMMA HearTickKeeps == ASSUME MarksAssumption, MarksInv, HearTick PROVE MarksInv'
<1>1. PICK age \in 0 .. MaxDelay :
          /\ heard' = age
          /\ eval' = IF position.open
                     THEN [eval EXCEPT !["monitor"] =
                              [at |-> "update", seen |-> SeenRow, price |-> market, age |-> age]]
                     ELSE eval
  BY DEF HearTick
<1>2. /\ eval["monitor"].at = "idle" /\ ticked' = TRUE
      /\ UNCHANGED <<exitPolicy, market, position, connected, ran, moves, faults>>
  BY DEF HearTick
<1> DEFINE r == [at |-> "update", seen |-> SeenRow, price |-> market, age |-> age]
<1>3. position \in PositionRows /\ market \in Prices /\ eval \in [Evaluators -> Evaluations]
  BY TypingParts DEF MarksInv
<1>4. r \in Evaluations /\ r.seen.pending = position.pending
  <2>1. SeenRow \in SeenRows /\ SeenRow.pending = position.pending
    BY <1>3 DEF SeenRow, SeenRows, PositionRows
  <2> QED BY <1>3, <2>1 DEF Evaluations, EvaluationSteps
<1> HIDE DEF r
<1>5. "monitor" \in Evaluators
  BY DEF MarksAssumption
<1>6. /\ eval' \in [Evaluators -> Evaluations]
      /\ \A e \in Evaluators \ {"monitor"} : eval'[e] = eval[e]
      /\ eval'["monitor"] = r \/ eval'["monitor"] = eval["monitor"]
  <2>1. CASE position.open
    <3>1. eval' = [eval EXCEPT !["monitor"] = r]
      BY <1>1, <2>1 DEF r
    <3> QED BY <1>4, <1>5, <3>1, EvaluatorStep DEF MarksInv
  <2>2. CASE ~position.open
    BY <1>1, <1>3, <2>2
  <2> QED BY <2>1, <2>2
<1>7. PendingSeen' /\ WriterJudges'
  <2>1. \A e \in Evaluators : eval'[e].seen.pending => position.pending
    BY <1>4, <1>6 DEF MarksInv, PendingSeen
  <2>2. \A e \in Evaluators : eval[e].at \in {"judge", "close"} => eval'[e] = eval[e]
    BY <1>2, <1>6
  <2> QED BY <1>2, <2>1, <2>2, RowStays
<1>8. heard' \in 0 .. Old
  BY <1>1, OldIsOld
<1>9. MarksTypeOK'
  BY <1>2, <1>6, <1>8, TypingParts DEF MarksInv, MarksTypeOK, Evaluations, SeenRows
<1> QED BY <1>7, <1>9 DEF MarksInv

LEMMA StartKeepsMarks ==
    ASSUME MarksAssumption, MarksInv, NEW e \in Evaluators, StartEvaluation(e) PROVE MarksInv'
<1> DEFINE r == [Resting EXCEPT !.at = "fetch", !.seen = SeenRow]
<1>1. /\ eval[e].at = "idle" /\ UNCHANGED <<exitPolicy, market, position, heard, connected, ticked, moves, faults>>
      /\ eval' = [eval EXCEPT ![e] = r] \/ eval' = eval
      /\ ran' = 0 \/ ran' = ran
  BY DEF StartEvaluation
<1>2. position \in PositionRows /\ eval \in [Evaluators -> Evaluations]
  BY TypingParts DEF MarksInv
<1>3. r \in Evaluations /\ r.seen.pending = position.pending
  <2>1. SeenRow \in SeenRows /\ SeenRow.pending = position.pending
    BY <1>2 DEF SeenRow, SeenRows, PositionRows
  <2>2. 0 \in 0 .. MaxDelay
    BY OldIsOld
  <2> QED BY <2>1, <2>2 DEF Resting, Evaluations, EvaluationSteps
<1> HIDE DEF r
<1>4. /\ eval' \in [Evaluators -> Evaluations]
      /\ \A d \in Evaluators \ {e} : eval'[d] = eval[d]
      /\ eval'[e] = r \/ eval'[e] = eval[e]
  BY <1>1, <1>2, <1>3, EvaluatorStep DEF MarksInv
<1>5. PendingSeen' /\ WriterJudges'
  <2>1. \A d \in Evaluators : eval'[d].seen.pending => position.pending
    BY <1>3, <1>4 DEF MarksInv, PendingSeen
  <2>2. \A d \in Evaluators : eval[d].at \in {"judge", "close"} => eval'[d] = eval[d]
    BY <1>1, <1>4
  <2> QED BY <1>1, <2>1, <2>2, RowStays
<1>6. ran' \in 0 .. Old
  <2>1. ran \in 0 .. Old
    BY TypingParts DEF MarksInv
  <2> QED BY <1>1, <2>1, OldIsOld
<1>7. MarksTypeOK'
  BY <1>1, <1>4, <1>6, TypingParts DEF MarksInv, MarksTypeOK, Evaluations, SeenRows
<1> QED BY <1>5, <1>7 DEF MarksInv

LEMMA FaultsCounted ==
    ASSUME MarksAssumption, MarksInv, faults' = faults \/ (faults < MaxFaults /\ faults' = faults + 1)
    PROVE  faults' \in 0 .. MaxFaults
<1>1. faults \in 0 .. MaxFaults /\ MaxFaults \in Nat
  BY TypingParts DEF MarksInv, MarksAssumption
<1> QED BY <1>1

\* An evaluator that gives up before it judges.
LEMMA FetchKeeps ==
    ASSUME MarksAssumption, MarksInv, NEW e \in Evaluators, Fetch(e) PROVE MarksInv'
<1>1. /\ eval[e].at = "fetch"
      /\ UNCHANGED <<exitPolicy, market, position, heard, connected, ticked, ran, moves>>
      /\ faults' = faults \/ (faults < MaxFaults /\ faults' = faults + 1)
  BY DEF Fetch
<1>2. eval[e] \in Evaluations /\ market \in Prices
  BY TypingParts DEF MarksInv
<1>3. PICK r \in Evaluations :
          /\ eval' = [eval EXCEPT ![e] = r] /\ (r.seen.pending => eval[e].seen.pending)
  <2> DEFINE n == [eval[e] EXCEPT !.at = "update", !.price = market, !.age = 0]
  <2>1. 0 \in 0 .. MaxDelay
    BY OldIsOld
  <2>2. n \in Evaluations /\ n.seen = eval[e].seen
    BY <1>2, <2>1 DEF Evaluations, EvaluationSteps
  <2>3. eval' = [eval EXCEPT ![e] = n] \/ eval' = [eval EXCEPT ![e] = Resting]
    BY DEF Fetch, Stopped
  <2> HIDE DEF n
  <2> QED BY <2>2, <2>3, RestingIsTyped
<1>4. /\ eval' \in [Evaluators -> Evaluations] /\ eval'[e] = r
      /\ \A d \in Evaluators \ {e} : eval'[d] = eval[d]
  BY <1>3, EvaluatorStep DEF MarksInv
<1>5. PendingSeen' /\ WriterJudges'
  <2>1. \A d \in Evaluators : eval'[d].seen.pending => position.pending
    BY <1>3, <1>4 DEF MarksInv, PendingSeen
  <2>2. \A d \in Evaluators : eval[d].at \in {"judge", "close"} => eval'[d] = eval[d]
    BY <1>1, <1>4
  <2> QED BY <1>1, <2>1, <2>2, RowStays
<1>6. MarksTypeOK'
  BY <1>1, <1>4, FaultsCounted, TypingParts DEF MarksInv, MarksTypeOK, Evaluations, SeenRows
<1> QED BY <1>5, <1>6 DEF MarksInv

LEMMA UpdateMarkKeeps ==
    ASSUME MarksAssumption, MarksInv, NEW e \in Evaluators, UpdateMark(e) PROVE MarksInv'
<1>1. /\ eval[e].at = "update"
      /\ UNCHANGED <<exitPolicy, market, heard, connected, ticked, ran, moves, faults>>
  BY DEF UpdateMark
<1>2. eval[e] \in Evaluations /\ position \in PositionRows
  BY TypingParts DEF MarksInv
<1>3. CASE Stopped(e) /\ UNCHANGED position
  <2>1. /\ eval' \in [Evaluators -> Evaluations] /\ eval'[e] = Resting
        /\ \A d \in Evaluators \ {e} : eval'[d] = eval[d]
    BY <1>3, RestingIsTyped, EvaluatorStep DEF MarksInv, Stopped
  <2>2. PendingSeen' /\ WriterJudges'
    <3>1. \A d \in Evaluators : eval'[d].seen.pending => position.pending
      BY <2>1, RestingIsTyped DEF MarksInv, PendingSeen
    <3>2. \A d \in Evaluators : eval[d].at \in {"judge", "close"} => eval'[d] = eval[d]
      BY <1>1, <2>1
    <3> QED BY <1>1, <1>3, <3>1, <3>2, RowStays
  <2>3. MarksTypeOK'
    BY <1>1, <1>3, <2>1, TypingParts DEF MarksInv, MarksTypeOK, Evaluations, SeenRows
  <2> QED BY <2>2, <2>3 DEF MarksInv
<1>4. CASE /\ position' = [position EXCEPT !.mark = eval[e].price, !.age = eval[e].age,
                                          !.left = FALSE, !.trail = Trailing(e),
                                          !.atr = @ \/ (e = "bar" /\ exitPolicy.atr)]
           /\ eval' = [eval EXCEPT ![e].at = "judge", ![e].seen.trail = Trailing(e), ![e].age = 0]
  <2> DEFINE t == Trailing(e)
             s == [eval[e].seen EXCEPT !.trail = t]
             r == [eval[e] EXCEPT !.at = "judge", !.seen = s, !.age = 0]
             atr == position.atr \/ (e = "bar" /\ exitPolicy.atr)
             p == [position EXCEPT !.mark = eval[e].price, !.age = eval[e].age,
                                   !.left = FALSE, !.trail = t, !.atr = atr]
  <2>1. t \in Nat
    BY TrailingIsNat DEF MarksInv
  <2>2. position' = p /\ eval' = [eval EXCEPT ![e] = r]
    BY <1>4
  <2>3. atr \in BOOLEAN
    BY DEF MarksAssumption
  <2> HIDE DEF t, atr
  <2>4. s \in SeenRows /\ s.trail = t /\ s.pending = eval[e].seen.pending
    BY <1>2, <2>1, EvaluationFields DEF SeenRows
  <2> HIDE DEF s
  <2>5. /\ r \in Evaluations /\ r.at = "judge" /\ r.price = eval[e].price
        /\ r.seen.trail = t /\ r.seen.pending = eval[e].seen.pending
    <3>1. 0 \in 0 .. MaxDelay
      BY OldIsOld
    <3>2. r \in Evaluations /\ r.at = "judge" /\ r.price = eval[e].price /\ r.seen = s
      BY <1>2, <2>4, <3>1 DEF Evaluations, EvaluationSteps
    <3> QED BY <2>4, <3>2
  <2>6. /\ p \in PositionRows /\ p.mark = eval[e].price /\ p.trail = t
        /\ p.pending = position.pending
    <3>1. eval[e].age \in 0 .. Old
      BY <1>2, OldIsOld, EvaluationFields
    <3>2. eval[e].price \in Prices \cup {0}
      BY <1>2, EvaluationFields
    <3> QED BY <1>2, <2>1, <2>3, <3>1, <3>2 DEF PositionRows
  <2> HIDE DEF r, p
  <2>7. /\ eval' \in [Evaluators -> Evaluations] /\ eval'[e] = r
        /\ \A d \in Evaluators \ {e} : eval'[d] = eval[d]
    BY <2>2, <2>5, EvaluatorStep DEF MarksInv
  <2>8. PendingSeen'
    BY <2>2, <2>5, <2>6, <2>7 DEF MarksInv, PendingSeen
  <2>9. WriterJudges'
    BY <2>2, <2>5, <2>6, <2>7 DEF WriterJudges
  <2>10. MarksTypeOK'
    <3>1. position' \in PositionRows
      BY <2>2, <2>6
    <3> QED BY <1>1, <2>7, <3>1, TypingParts
            DEF MarksInv, MarksTypeOK, Evaluations, SeenRows, PositionRows
  <2> QED BY <2>8, <2>9, <2>10 DEF MarksInv
<1> QED BY <1>3, <1>4 DEF UpdateMark

LEMMA JudgeKeeps ==
    ASSUME MarksAssumption, MarksInv, NEW e \in Evaluators, Judge(e) PROVE MarksInv'
<1>1. /\ eval[e].at = "judge"
      /\ UNCHANGED <<exitPolicy, market, heard, connected, ticked, ran, moves, faults>>
  BY DEF Judge
<1>2. position \in PositionRows
  BY TypingParts DEF MarksInv
<1>3. PICK r \in Evaluations :
          /\ eval' = [eval EXCEPT ![e] = r] /\ ~r.seen.pending
          /\ Decides(e) /\ Protective(eval[e].price, eval[e].seen.trail) => r.at = "close"
  BY RestingIsTyped DEF Judge, Stopped, Closing
<1>4. /\ eval' \in [Evaluators -> Evaluations] /\ eval'[e] = r
      /\ \A d \in Evaluators \ {e} : eval'[d] = eval[d]
  BY <1>3, EvaluatorStep DEF MarksInv
<1>5. /\ position' \in PositionRows /\ position'.open = position.open
      /\ position'.pending = position.pending /\ position'.mark = position.mark
      /\ position'.trail = position.trail
      /\ position.left => position'.left
      /\ ~Decides(e) /\ ~eval[e].seen.pending => position'.left
  <2>1. /\ [position EXCEPT !.left = TRUE] \in PositionRows
        /\ [position EXCEPT !.left = TRUE].open = position.open
        /\ [position EXCEPT !.left = TRUE].pending = position.pending
        /\ [position EXCEPT !.left = TRUE].mark = position.mark
        /\ [position EXCEPT !.left = TRUE].trail = position.trail
        /\ [position EXCEPT !.left = TRUE].left
    BY <1>2 DEF PositionRows
  <2>2. ~Decides(e) /\ ~eval[e].seen.pending => e = "cron"
    BY DEF Decides
  <2>3. \/ UNCHANGED position /\ (Decides(e) \/ ~(e = "cron" /\ ~eval[e].seen.pending))
        \/ position' = [position EXCEPT !.left = TRUE]
    BY DEF Judge
  <2> QED BY <1>2, <2>1, <2>2, <2>3
<1>6. PendingSeen'
  BY <1>3, <1>4, <1>5 DEF MarksInv, PendingSeen
<1>7. Unanswered' <=> Unanswered
  BY <1>1, <1>5 DEF Unanswered, Protective
<1>8. ASSUME Unanswered, ~position'.left
      PROVE  \E d \in Evaluators :
               \/ eval'[d].at = "close"
               \/ /\ eval'[d].at = "judge" /\ eval'[d].price = position'.mark
                  /\ eval'[d].seen.trail = position'.trail
  <2>1. ~position.left /\ ~position.pending /\ Protective(position.mark, position.trail)
    BY <1>5, <1>8 DEF Unanswered
  <2>2. PICK d \in Evaluators :
               \/ eval[d].at = "close"
               \/ /\ eval[d].at = "judge" /\ eval[d].price = position.mark
                  /\ eval[d].seen.trail = position.trail
    BY <1>8, <2>1 DEF MarksInv, WriterJudges
  <2>3. CASE d # e
    BY <1>4, <1>5, <2>2, <2>3
  <2>4. CASE d = e
    <3>1. ~eval[e].seen.pending
      BY <2>1 DEF MarksInv, PendingSeen
    <3>2. Decides(e)
      BY <1>5, <1>8, <3>1
    <3>3. Protective(eval[e].price, eval[e].seen.trail)
      BY <1>1, <2>1, <2>2, <2>4
    <3> QED BY <1>3, <1>4, <3>2, <3>3
  <2> QED BY <2>3, <2>4
<1>9. WriterJudges'
  BY <1>7, <1>8 DEF WriterJudges
<1>10. MarksTypeOK'
  BY <1>1, <1>4, <1>5, TypingParts
     DEF MarksInv, MarksTypeOK, Evaluations, SeenRows, PositionRows
<1> QED BY <1>6, <1>9, <1>10 DEF MarksInv

LEMMA RequestCloseKeeps ==
    ASSUME MarksAssumption, MarksInv, NEW e \in Evaluators, RequestClose(e) PROVE MarksInv'
<1>1. /\ UNCHANGED <<exitPolicy, market, heard, connected, ticked, ran, moves, faults>>
      /\ eval' = [eval EXCEPT ![e] = Resting]
  BY DEF RequestClose, Stopped
<1>2. position \in PositionRows
  BY TypingParts DEF MarksInv
<1>3. /\ position' \in PositionRows /\ position'.open = position.open
      /\ position.pending => position'.pending
      /\ position.open => position'.pending
  <2>1. /\ [position EXCEPT !.pending = TRUE] \in PositionRows
        /\ [position EXCEPT !.pending = TRUE].open = position.open
        /\ [position EXCEPT !.pending = TRUE].pending
    BY <1>2 DEF PositionRows
  <2> QED BY <1>2, <2>1 DEF RequestClose
<1>4. /\ eval' \in [Evaluators -> Evaluations] /\ eval'[e] = Resting
      /\ \A d \in Evaluators \ {e} : eval'[d] = eval[d]
  BY <1>1, RestingIsTyped, EvaluatorStep DEF MarksInv
<1>5. PendingSeen'
  BY <1>3, <1>4, RestingIsTyped DEF MarksInv, PendingSeen
<1>6. WriterJudges'
  BY <1>3 DEF WriterJudges, Unanswered
<1>7. MarksTypeOK'
  BY <1>1, <1>3, <1>4, TypingParts
     DEF MarksInv, MarksTypeOK, Evaluations, SeenRows, PositionRows
<1> QED BY <1>5, <1>6, <1>7 DEF MarksInv

LEMMA ApplyCloseKeeps == ASSUME MarksAssumption, MarksInv, ApplyClose PROVE MarksInv'
<1>1. /\ UNCHANGED <<exitPolicy, market, heard, connected, ticked, ran, eval, moves, faults>>
      /\ position' = [position EXCEPT !.open = FALSE]
  BY DEF ApplyClose
<1>2. /\ position' \in PositionRows /\ ~position'.open
      /\ position'.pending = position.pending
  <2>1. position \in PositionRows
    BY TypingParts DEF MarksInv
  <2> QED BY <1>1, <2>1 DEF PositionRows
<1>3. PendingSeen'
  BY <1>1, <1>2 DEF MarksInv, PendingSeen
<1>4. WriterJudges'
  BY <1>2 DEF WriterJudges, Unanswered
<1>5. MarksTypeOK'
  BY <1>1, <1>2, TypingParts DEF MarksInv, MarksTypeOK, PositionRows
<1> QED BY <1>3, <1>4, <1>5 DEF MarksInv

\* The market, the connection and time change nothing that is written.
LEMMA SurroundingsKeep ==
    ASSUME MarksAssumption, MarksInv, Move \/ Disconnect \/ Reconnect PROVE MarksInv'
<1>1. UNCHANGED <<exitPolicy, position, heard, ticked, ran, eval>>
  BY DEF Move, Disconnect, Reconnect
<1>2. market' \in Prices /\ connected' \in BOOLEAN
  BY TypingParts DEF Move, Disconnect, Reconnect, MarksInv
<1>3. faults' = faults \/ (faults < MaxFaults /\ faults' = faults + 1)
  BY DEF Move, Disconnect, Reconnect
<1>4. moves' \in 0 .. MaxMoves
  <2>1. moves' = moves \/ (moves < MaxMoves /\ moves' = moves + 1)
    BY DEF Move, Disconnect, Reconnect
  <2>2. moves \in 0 .. MaxMoves /\ MaxMoves \in Nat
    BY TypingParts DEF MarksInv, MarksAssumption
  <2> QED BY <2>1, <2>2
<1>5. PendingSeen' /\ WriterJudges'
  <2>1. \A d \in Evaluators : eval'[d].seen.pending => position.pending
    BY <1>1 DEF MarksInv, PendingSeen
  <2>2. \A d \in Evaluators : eval[d].at \in {"judge", "close"} => eval'[d] = eval[d]
    BY <1>1
  <2> QED BY <1>1, <2>1, <2>2, RowStays
<1>6. MarksTypeOK'
  BY <1>1, <1>2, <1>3, <1>4, FaultsCounted, TypingParts DEF MarksInv, MarksTypeOK
<1> QED BY <1>5, <1>6 DEF MarksInv

LEMMA PassTimeKeeps == ASSUME MarksAssumption, MarksInv, PassTime PROVE MarksInv'
<1>1. /\ UNCHANGED <<exitPolicy, market, connected, eval, moves, faults>>
      /\ position' = [position EXCEPT !.age = Older(position.age)]
      /\ heard' = Older(heard) /\ ran' = Older(ran) /\ ticked' = FALSE
  BY DEF PassTime
<1>2. position \in PositionRows /\ heard \in 0 .. Old /\ ran \in 0 .. Old
  BY TypingParts DEF MarksInv
<1>3. \A age \in 0 .. Old : Older(age) \in 0 .. Old
  BY OldIsOld DEF Older
<1>4. /\ position' \in PositionRows /\ position'.open = position.open
      /\ position'.pending = position.pending /\ position'.mark = position.mark
      /\ position'.trail = position.trail /\ position'.left = position.left
  <2>1. Older(position.age) \in 0 .. Old
    BY <1>2, <1>3 DEF PositionRows
  <2> HIDE DEF Older
  <2> QED BY <1>1, <1>2, <2>1 DEF PositionRows
<1>5. PendingSeen'
  BY <1>1, <1>4 DEF MarksInv, PendingSeen
<1>6. WriterJudges'
  <2>1. Unanswered' <=> Unanswered
    BY <1>1, <1>4 DEF Unanswered, Protective
  <2> QED BY <1>1, <1>4, <2>1 DEF MarksInv, WriterJudges
<1>7. MarksTypeOK'
  <2>1. heard' \in 0 .. Old /\ ran' \in 0 .. Old
    BY <1>1, <1>2, <1>3
  <2>2. ticked' \in BOOLEAN
    BY <1>1
  <2> QED BY <1>1, <1>4, <2>1, <2>2, TypingParts DEF MarksInv, MarksTypeOK, PositionRows
<1> QED BY <1>5, <1>6, <1>7 DEF MarksInv

LEMMA MarksStep == ASSUME MarksAssumption, MarksInv, [MarksNext]_markVars PROVE MarksInv'
<1>1. CASE MarksNext
  BY <1>1, HearTickKeeps, StartKeepsMarks, FetchKeeps, UpdateMarkKeeps, JudgeKeeps,
     RequestCloseKeeps, ApplyCloseKeeps, SurroundingsKeep, PassTimeKeeps DEF MarksNext, Evaluate
<1>2. CASE UNCHANGED markVars
  <2>1. PendingSeen' /\ WriterJudges'
    <3>1. UNCHANGED <<position, exitPolicy, eval>>
      BY <1>2 DEF markVars
    <3>2. \A d \in Evaluators : eval'[d].seen.pending => position.pending
      BY <3>1 DEF MarksInv, PendingSeen
    <3> QED BY <3>1, <3>2, RowStays
  <2>2. MarksTypeOK'
    BY <1>2 DEF markVars, MarksInv, MarksTypeOK
  <2> QED BY <2>1, <2>2 DEF MarksInv
<1> QED BY <1>1, <1>2

\* Whichever evaluators race, for any prices, settings, distances and delays: an
\* accepted mark that calls for an exit is in the hands of an evaluator, or the
\* reconciler left it to a stream it believed alive; a refused mark, a row read
\* too early or an exit seen pending hides none (processPriceEvent,
\* UpdatePositionsPrices, EvaluateOpenPositionsOnBarClose).
THEOREM MarksAreJudged == ASSUME MarksAssumption PROVE MarksSpec => []MonitorsMissNothing
<1>1. MarksInit => MarksInv
  BY MarksStart
<1>2. MarksInv /\ [MarksNext]_markVars => MarksInv'
  BY MarksStep
<1>3. MarksInv => MonitorsMissNothing
  BY DEF MarksInv, MonitorsMissNothing, WriterJudges, MarkIsJudged
<1> QED BY <1>1, <1>2, <1>3, PTL DEF MarksSpec
=============================================================================
