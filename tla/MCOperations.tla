---------------------------- MODULE MCOperations ----------------------------
(***************************************************************************)
(* The components by which operators move authority from the legacy to the *)
(* shared engine: the staged cutover, the parity populations and the       *)
(* incidents; the workers that listen for open positions and the marks     *)
(* they write.  A behaviour is one part, chosen by its first state.  A     *)
(* component that it is not of stays as it starts.                         *)
(***************************************************************************)
EXTENDS Cutover, Incidents, Parity, PositionWorkers, PositionMarks

VARIABLE part      \* which instance this behaviour is of

operations == <<part, vars, incidentVars, parityVars, workerVars, markVars>>

-----------------------------------------------------------------------------
\* One flag envelope for each kind of stage, beside SafeFlags.
ResearchFlags == [SafeFlags EXCEPT !.backtest = "research", !.pit = "research"]

ShadowFlags == [SafeFlags EXCEPT !.engine = "shadow", !.dual = "observe"]

PaperFlags == [ledger |-> "authoritative", engine |-> "paper", backtest |-> "off",
               pit |-> "authoritative", candidate |-> "paper", dual |-> "off",
               context |-> "c"]

FourEnvelopes == {SafeFlags, ResearchFlags, ShadowFlags, PaperFlags}

Outcome(action, side, quantity) ==
    <<[f \in {"action", "side"} |-> IF f = "action" THEN action ELSE side],
      [f \in {"quantity"} |-> quantity]>>

\* The same decision; another action; a small and a declared large difference
\* of quantity; another side.
DualRuns ==
    {<<Outcome("buy", "long", 10), o>> :
        o \in {Outcome("buy", "long", 10), Outcome("hold", "long", 10), Outcome("buy", "long", 11),
               Outcome("buy", "long", 30), Outcome("buy", "short", 10)}}

NoRate == [b \in {"action", "quantity", "reason", "version"} |-> 0]

\* In halves: a population of two contexts is as large as the basis, and one of
\* three too large.  "strict" tolerates nothing but a declared difference of
\* quantity; "loose" tolerates half of the actions and a quantity up to double.
TwoPolicies ==
    [n \in {"strict", "loose"} |->
        IF n = "strict"
        THEN [samples |-> 1, coverage |-> 2, tolerance |-> 0, rate |-> NoRate,
              expected |-> {[code |-> "quantity", legacy |-> 10, candidate |-> 30]}]
        ELSE [samples |-> 1, coverage |-> 1, tolerance |-> 1,
              rate |-> [NoRate EXCEPT !["action"] = 1], expected |-> {}]]

\* Populations of one, of two, and of more decisions than the cap lets in.
Windows == {{"c1"}, {"c1", "c2"}, {"c1", "c2", "c3"}}

ExitPolicy(atr) == [percent |-> TRUE, atr |-> atr, lossOk |-> FALSE]

TwoExitPolicies == {ExitPolicy(FALSE), ExitPolicy(TRUE)}

ASSUME /\ CutoverAssumption /\ IncidentsAssumption /\ ParityAssumption
       /\ WorkersAssumption /\ MarksAssumption

MCInit ==
    /\ Init /\ IncidentInit /\ ParityInit /\ WorkersInit /\ MarksInit
    /\ \/ /\ part \in {"cutover", "parity", "incidents", "workers", "stream"}
          /\ exitPolicy = ExitPolicy(FALSE)
          /\ part # "stream" => market = 13
       \/ part = "marks" /\ exitPolicy = ExitPolicy(TRUE)

MCNext ==
    \/ part = "cutover" /\ Next
       /\ UNCHANGED <<part, incidentVars, parityVars, workerVars, markVars>>
    \/ part = "parity" /\ ParityNext /\ {p.contexts : p \in parityPopulations'} \subseteq Windows
       /\ UNCHANGED <<part, vars, incidentVars, workerVars, markVars>>
    \/ part = "incidents" /\ IncidentNext
       /\ UNCHANGED <<part, vars, parityVars, workerVars, markVars>>
    \/ part = "workers" /\ WorkersNext
       /\ UNCHANGED <<part, vars, incidentVars, parityVars, markVars>>
    \* The stream may fail, and the reconciler takes over. In units of half a minute:
    \* a stream is stale after 90 seconds, the reconciler runs every 60.
    \/ part = "stream" /\ MarksNext /\ eval'["bar"] = Resting /\ moves' <= 1
       /\ UNCHANGED <<part, vars, incidentVars, parityVars, workerVars>>
    \* Ticks and closed bars race for the same row.
    \/ part = "marks" /\ MarksNext /\ eval'["cron"] = Resting
       /\ UNCHANGED <<part, vars, incidentVars, parityVars, workerVars>>

\* A caller that was not lost goes on: its goroutine waits for nobody. A
\* connected stream sends ticks, the reconciler has its schedule, an evaluation
\* that began goes on, and time passes, however busy the server is.
MCSpec ==
    /\ MCInit /\ [][MCNext]_operations
    /\ \A s \in Callers : WF_incidentVars(part = "incidents" /\ Step(s))
    /\ WF_markVars(part = "stream" /\ HearTick) /\ SF_markVars(part = "stream" /\ PassTime)
    /\ WF_markVars(part = "stream" /\ StartEvaluation("cron"))
    /\ \A e \in {"monitor", "cron"} : WF_markVars(part = "stream" /\ Evaluate(e))

-----------------------------------------------------------------------------
\* No step changes the authority the server trades by except a transition's own
\* activation, and a population that was observed completely keeps its verdict
\* within its attempt (Initialize, activateVerified, PersistParityBound).
HistoryIsKept ==
    [][OnlyTransitionsActivate /\ VerdictIsFinal]_operations

\* What the watchers wait for makes them react: broker conflicts that repeat
\* within the window end in an incident, even when the caller that counted one
\* of them is lost (RecordBrokerConflict); and a price that stays at the stop of
\* a position is noticed, although the stream may die, ticks may be refused as
\* older than the last mark, and the reconciler leaves exits to a stream that was
\* alive lately (ShouldFallback, updatePositionOperational).
WatchersReact ==
    /\ (part = "incidents" /\ counters["k"].count > 2)
            ~> (part = "incidents" /\ incidents["k"] # None)
    /\ part = "stream" => StopIsTaken
=============================================================================
