-------------------------------- MODULE Drafts --------------------------------
(***************************************************************************)
(* The AI experiment dispatch: DispatchBacktestExperiments of              *)
(* internal/handlers/ai.go and GenerateExperimentDrafts of                 *)
(* internal/services/ai.go.  The configured model is asked for exactly the *)
(* requested number of experiments, asked once more when its answer does   *)
(* not parse, and every draft is resolved by the strategy registry before  *)
(* any of them is shown.                                                   *)
(*                                                                         *)
(* An answer of the model is an error, text that does not parse, or a      *)
(* sequence of partial parameter maps.                                     *)
(***************************************************************************)
EXTENDS Registry

CONSTANTS
  Bases,    \* base parameters a request may carry
  Changes,  \* parameter maps the model may propose for one experiment
  Counts    \* draft counts a request may ask for

\* What the instances have to satisfy.
DraftsAssumption == Counts \subseteq Nat

MaxDrafts == 8

VARIABLES
  ask,      \* the request: strategy version, base parameters, count
  stage,    \* idle, waiting for the model, checking drafts, ended
  calls,    \* calls of the model so far
  drafts,   \* the drafts, merged with the base; resolved up to checked
  checked,  \* how many drafts have passed the registry
  status    \* the HTTP status of the answer, 0 while there is none

draftsVars == <<ask, stage, calls, drafts, checked, status>>

DraftsInit ==
  /\ ask = [version |-> "", base |-> <<>>, count |-> 0]
  /\ stage = "idle" /\ calls = 0 /\ drafts = <<>> /\ checked = 0 /\ status = 0

Answer(code) == stage' = "ended" /\ status' = code

\* DispatchBacktestExperiments up to the first call: only a research strategy,
\* a base that resolves, and one to eight drafts.
Dispatch(v, base, count) ==
  /\ stage = "idle"
  /\ ask' = [version |-> v, base |-> base, count |-> count]
  /\ IF v \in Versions(Candidate) /\ Resolves(Candidate, v, base) /\ count \in 1..MaxDrafts
     THEN stage' = "waiting" /\ calls' = 1 /\ UNCHANGED status
     ELSE Answer(400) /\ UNCHANGED calls
  /\ UNCHANGED <<drafts, checked>>

\* callLLMWithOptions: an HTTP error, an empty answer or 300 seconds without one.
CallFails ==
  /\ stage = "waiting" /\ Answer(502)
  /\ UNCHANGED <<ask, calls, drafts, checked>>

\* parseExperimentDraftResponse: exactly the drafts asked for, none of them
\* without a parameter.
Accepted(answer) == Len(answer) = ask.count /\ \A i \in DOMAIN answer : answer[i] # <<>>

\* The model answered and the answer parses: the drafts are merged with the base.
Replies(answer) ==
  /\ stage = "waiting" /\ Accepted(answer)
  /\ drafts' = [i \in DOMAIN answer |-> Plus(ask.base, answer[i])]
  /\ stage' = "checking"
  /\ UNCHANGED <<ask, calls, checked, status>>

\* It does not parse (no text, a wrong count, an incomplete experiment): the
\* model is asked once more.
Garbled ==
  /\ stage = "waiting"
  /\ \/ calls = 1 /\ calls' = 2 /\ UNCHANGED <<stage, status>>
     \/ calls = 2 /\ Answer(502) /\ UNCHANGED calls
  /\ UNCHANGED <<ask, drafts, checked>>

Canonical(p) == Selected(Candidate, ask.version, p).parameters

\* Mutant: a draft is compared as the model wrote it.
SameRaw(p, q) == p = q

\* The canonical JSON of two resolved parameter maps
Same(p, q) == Canonical(p) = Canonical(q)

\* AI output is advisory: the backtest intent is forced.
Forced(p) == Plus(p, [execution_intent |-> "backtest"])

\* One draft: the intent, the registry, the base, the drafts before it.
Check ==
  /\ stage = "checking" /\ checked < Len(drafts)
  /\ LET p == Forced(drafts[checked + 1]) IN
     IF /\ Resolves(Candidate, ask.version, p)
        /\ ~Same(p, ask.base)
        /\ \A j \in 1..checked : ~Same(p, drafts[j])
     THEN /\ drafts' = [drafts EXCEPT ![checked + 1] = Canonical(p)]
          /\ checked' = checked + 1 /\ UNCHANGED <<stage, status>>
     ELSE Answer(422) /\ UNCHANGED <<drafts, checked>>
  /\ UNCHANGED <<ask, calls>>

Show ==
  /\ stage = "checking" /\ checked = Len(drafts) /\ Answer(200)
  /\ UNCHANGED <<ask, calls, drafts, checked>>

Answers == {<<a>> : a \in Changes} \cup {<<a, b>> : a, b \in Changes}

DraftsNext ==
  \/ \E v \in Versions(Candidate) \cup {"9"}, b \in Bases, n \in Counts : Dispatch(v, b, n)
  \/ \E a \in Answers : Replies(a)
  \/ CallFails \/ Garbled \/ Check \/ Show

\* What the handler does by itself, once the model was asked.
Handle == CallFails \/ Garbled \/ (\E a \in Answers : Replies(a)) \/ Check \/ Show

DraftsSpec == DraftsInit /\ [][DraftsNext]_draftsVars

-----------------------------------------------------------------------------
DraftsTypeOK ==
  /\ stage \in {"idle", "waiting", "checking", "ended"}
  /\ calls \in 0..2 /\ checked \in 0..Len(drafts)
  /\ status \in {0, 200, 400, 422, 502} /\ (status # 0) = (stage = "ended")
  /\ drafts # <<>> => Len(drafts) = ask.count

\* Drafts are shown only as a set of the size asked for, each a simulation
\* that the registry accepts again as it stands: re-submitting what was shown
\* resolves to the same configuration.
ShownIsRunnable ==
  status = 200 => \A i \in DOMAIN drafts :
    /\ drafts[i].execution_intent = "backtest"
    /\ Resolves(Candidate, ask.version, drafts[i])
    /\ Canonical(drafts[i]) = drafts[i]

\* No two shown drafts are the same experiment, and none is the base, whatever
\* defaults the model spelt out or left to the registry.  (A base that leaves
\* its intent to the registry is a research configuration, and differs from
\* every draft by that alone.)
ShownIsDistinct ==
  status = 200 => \A i, j \in 0..Len(drafts) :
    LET of(k) == IF k = 0 THEN Canonical(ask.base) ELSE drafts[k]
    IN of(i) = of(j) => i = j

\* Both: what the model drafted is advice that can be acted on.
DraftsAreSound == ShownIsRunnable /\ ShownIsDistinct
=============================================================================
