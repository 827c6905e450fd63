---------------------------- MODULE PositionMarks -----------------------------
(***************************************************************************)
(* Who notices that an open position has reached its stop: the worker that *)
(* hears the exchange stream, the reconciler that runs every minute and    *)
(* leaves the decision to a stream that is healthy, and the evaluation of  *)
(* closed bars. All three read the row, compute a trailing stop, write     *)
(* mark and stop if no later mark was written meanwhile, and only then     *)
(* decide. How a requested close is carried out is CloseCoordinator.       *)
(*                                                                         *)
(* Times are kept as ages, so that time never ends: Old is the age of what *)
(* is too old to matter, and of what never was.                            *)
(***************************************************************************)
EXTENDS Integers, FiniteSetsExt

CONSTANTS Evaluators,   \* of "monitor", "cron" and "bar"
          Prices,       \* what the market can show
          Entry, StopLoss, TakeProfit,  \* the position; 0 is a stop or target it has not
          ExitPolicies,     \* settings of the exits: [percent, atr, lossOk]
          TrailDist, AtrDist,   \* distances of the two trailing stops
          FallbackStop, FallbackTake,   \* distances of the percentages of the settings
          StaleAfter,   \* age at which the stream counts as unhealthy
          MaxDelay,     \* age of a tick when it is heard
          CronEvery,    \* time between two runs of the reconciler
          MaxMoves, MaxFaults

VARIABLES
    exitPolicy,     \* the settings
    market,     \* the price now
    position,        \* the position row
    heard,      \* age of the last event of the worker (lastEvent)
    connected,  \* whether the stream delivers
    ticked,     \* whether it has delivered since time last passed
    ran,        \* time since the reconciler last started
    eval,       \* what each evaluator is doing
    moves, faults

markVars == <<exitPolicy, market, position, heard, connected, ticked, ran, eval, moves, faults>>

Old == Max({StaleAfter, MaxDelay, CronEvery}) + 1

MarksAssumption ==
    /\ "monitor" \in Evaluators /\ Evaluators \subseteq {"monitor", "cron", "bar"}
    /\ Prices \subseteq Nat \ {0} /\ Prices # {} /\ Entry \in Nat \ {0}
    /\ StopLoss \in Nat /\ TakeProfit \in Nat
    /\ ExitPolicies \subseteq [percent : BOOLEAN, atr : BOOLEAN, lossOk : BOOLEAN] /\ ExitPolicies # {}
    /\ {TrailDist, AtrDist, FallbackStop, FallbackTake} \subseteq Nat
    /\ StaleAfter \in Nat /\ MaxDelay \in Nat /\ CronEvery \in Nat \ {0}
    /\ MaxMoves \in Nat /\ MaxFaults \in Nat

\* What an evaluator uses of the row it read.
SeenRow == [trail |-> position.trail, atr |-> position.atr, pending |-> position.pending]

Resting == [at |-> "idle", price |-> 0, age |-> 0,
         seen |-> [trail |-> 0, atr |-> FALSE, pending |-> FALSE]]

EvaluationSteps == {"idle", "fetch", "update", "judge", "close"}

MarksTypeOK ==
    /\ exitPolicy \in ExitPolicies /\ market \in Prices
    /\ position \in [open : BOOLEAN, trail : Nat, atr : BOOLEAN, mark : Prices \cup {0},
                     age : 0 .. Old, pending : BOOLEAN, left : BOOLEAN]
    /\ heard \in 0 .. Old /\ ran \in 0 .. Old
    /\ connected \in BOOLEAN /\ ticked \in BOOLEAN
    /\ eval \in [Evaluators -> [at : EvaluationSteps, price : Prices \cup {0}, age : 0 .. MaxDelay,
                               seen : [trail : Nat, atr : BOOLEAN, pending : BOOLEAN]]]
    /\ moves \in 0 .. MaxMoves /\ faults \in 0 .. MaxFaults

MarksInit ==
    /\ exitPolicy \in ExitPolicies /\ market \in Prices
    /\ position = [open |-> TRUE, trail |-> 0, atr |-> FALSE, mark |-> 0, age |-> Old,
              pending |-> FALSE, left |-> FALSE]
    /\ heard = Old /\ ran = Old /\ connected = TRUE /\ ticked = FALSE
    /\ eval = [e \in Evaluators |-> Resting]
    /\ moves = 0 /\ faults = 0

-----------------------------------------------------------------------------
\* The higher of the existing stop and the candidate; no stop is 0.
Ratchet(existing, candidate) == IF candidate > existing THEN candidate ELSE existing

RatchetPercentTrailingStop(existing, price) ==
    IF price <= Entry THEN existing ELSE Ratchet(existing, price - TrailDist)

RatchetATRTrailingStop(existing, price) ==
    Ratchet(existing, Max({price, Entry}) - AtrDist)

\* The trailing stop that evaluator e computes from the row it read. Only the
\* evaluation of bars learns the ATR; without it the others trail by percent.
Trailing(e) ==
    LET seen == eval[e].seen  price == eval[e].price IN
    CASE exitPolicy.atr /\ (e = "bar" \/ seen.atr) -> RatchetATRTrailingStop(seen.trail, price)
      [] exitPolicy.percent /\ ~(e = "bar" /\ exitPolicy.atr) -> RatchetPercentTrailingStop(seen.trail, price)
      [] OTHER -> seen.trail

\* EvaluateProtectiveExit: a stop, a target or a trailing stop is reached. The
\* percentages of the settings stand in for a stop or a target that is missing.
Protective(price, trail) ==
    \/ StopLoss > 0 /\ price <= StopLoss
    \/ TakeProfit > 0 /\ price >= TakeProfit
    \/ (exitPolicy.atr \/ exitPolicy.percent) /\ trail > 0 /\ price <= trail
    \/ StopLoss = 0 /\ FallbackStop > 0 /\ price <= Entry - FallbackStop
    \/ TakeProfit = 0 /\ FallbackTake > 0 /\ price >= Entry + FallbackTake

\* A time stop or a sell signal may close a position with a bar, at a loss only
\* if the settings allow it.
DiscretionaryAllowed(price) == exitPolicy.lossOk \/ price >= Entry

IsHealthy == heard <= StaleAfter

\* Mutant: the reconciler leaves every exit to the stream.
ShouldFallback_Never == FALSE

ShouldFallback == ~IsHealthy

-----------------------------------------------------------------------------
Closing(e) == eval' = [eval EXCEPT ![e] = [Resting EXCEPT !.at = "close"]]
Stopped(e) == eval' = [eval EXCEPT ![e] = Resting]

\* A tick, some time after the exchange stamped it: runWorker notes that it
\* came, processPriceEvent reads the open row.
HearTick ==
    /\ connected /\ eval["monitor"].at = "idle"
    /\ \E age \in 0 .. MaxDelay :
        /\ heard' = age
        /\ eval' = IF position.open
                   THEN [eval EXCEPT !["monitor"] =
                            [at |-> "update", seen |-> SeenRow, price |-> market, age |-> age]]
                   ELSE eval
    /\ ticked' = TRUE
    /\ UNCHANGED <<exitPolicy, market, position, connected, ran, moves, faults>>

\* UpdatePositionsPrices reads the open rows and then asks the exchange for their
\* prices; EvaluateOpenPositionsOnBarClose reads them, skips an exit that is
\* pending, and asks for the candles.
StartEvaluation(e) ==
    /\ eval[e].at = "idle"
    /\ e = "cron" => ran >= CronEvery
    /\ ran' = IF e = "cron" THEN 0 ELSE ran
    /\ eval' = IF position.open /\ ~(e = "bar" /\ position.pending)
               THEN [eval EXCEPT ![e] = [Resting EXCEPT !.at = "fetch", !.seen = SeenRow]]
               ELSE eval
    /\ UNCHANGED <<exitPolicy, market, position, heard, connected, ticked, moves, faults>>

Fetch(e) ==
    /\ eval[e].at = "fetch"
    /\ \/ /\ eval' = [eval EXCEPT ![e].at = "update", ![e].price = market, ![e].age = 0]
          /\ UNCHANGED faults
       \/ /\ faults < MaxFaults /\ faults' = faults + 1
          /\ Stopped(e)
    /\ UNCHANGED <<exitPolicy, market, position, heard, connected, ticked, ran, moves>>

\* updatePositionOperational: one UPDATE of an open row whose last mark is not
\* later. The row keeps, as history, that nobody has judged the mark yet.
AcceptsMark(e) == position.open /\ position.age >= eval[e].age

UpdateMark(e) ==
    /\ eval[e].at = "update"
    /\ IF AcceptsMark(e)
       THEN /\ position' = [position EXCEPT !.mark = eval[e].price, !.age = eval[e].age,
                                            !.left = FALSE, !.trail = Trailing(e),
                                            !.atr = @ \/ (e = "bar" /\ exitPolicy.atr)]
            /\ eval' = [eval EXCEPT ![e].at = "judge", ![e].seen.trail = Trailing(e), ![e].age = 0]
       ELSE Stopped(e) /\ UNCHANGED position
    /\ UNCHANGED <<exitPolicy, market, heard, connected, ticked, ran, moves, faults>>

\* Mutant: every evaluator leaves the decision to a stream that is healthy.
Decides_Deferring(e) == ~eval[e].seen.pending /\ ShouldFallback

\* Whether the evaluator goes on to decide: not about a row that it read with an
\* exit pending, and the reconciler not while the stream is healthy.
Decides(e) == ~eval[e].seen.pending /\ (e = "cron" => ShouldFallback)

Judge(e) ==
    LET price == eval[e].price IN
    /\ eval[e].at = "judge"
    /\ \/ /\ Decides(e) /\ Protective(price, eval[e].seen.trail)
          /\ Closing(e) /\ UNCHANGED position
       \/ /\ Decides(e) /\ ~Protective(price, eval[e].seen.trail)
          /\ \/ Stopped(e)
             \/ e = "bar" /\ DiscretionaryAllowed(price) /\ Closing(e)
          /\ UNCHANGED position
       \/ /\ ~Decides(e) /\ Stopped(e)
          /\ position' = IF e = "cron" /\ ~eval[e].seen.pending
                          THEN [position EXCEPT !.left = TRUE] ELSE position
    /\ UNCHANGED <<exitPolicy, market, heard, connected, ticked, ran, moves, faults>>

\* RequestClose reserves the close of an open position.
RequestClose(e) ==
    /\ eval[e].at = "close"
    /\ position' = IF position.open THEN [position EXCEPT !.pending = TRUE] ELSE position
    /\ Stopped(e)
    /\ UNCHANGED <<exitPolicy, market, heard, connected, ticked, ran, moves, faults>>

\* The coordinator sells what is reserved.
ApplyClose ==
    /\ position.open /\ position.pending
    /\ position' = [position EXCEPT !.open = FALSE]
    /\ UNCHANGED <<exitPolicy, market, heard, connected, ticked, ran, eval, moves, faults>>

Move ==
    /\ moves < MaxMoves /\ moves' = moves + 1
    /\ market' \in Prices \ {market}
    /\ UNCHANGED <<exitPolicy, position, heard, connected, ticked, ran, eval, faults>>

\* The connection is lost, or the worker is gone; BinanceTickerStream.run dials
\* again.
Disconnect ==
    /\ connected /\ faults < MaxFaults /\ faults' = faults + 1
    /\ connected' = FALSE
    /\ UNCHANGED <<exitPolicy, market, position, heard, ticked, ran, eval, moves>>

Reconnect ==
    /\ ~connected /\ connected' = TRUE
    /\ UNCHANGED <<exitPolicy, market, position, heard, ticked, ran, eval, moves, faults>>

\* Time passes. A connected ticker stream sends something meanwhile, and from a
\* price to its UPDATE there are only a few statements: short of a unit.
Older(age) == IF age < Old THEN age + 1 ELSE Old

PassTime ==
    /\ connected => ticked
    /\ \A e \in Evaluators : eval[e].at # "update"
    /\ position' = [position EXCEPT !.age = Older(@)]
    /\ heard' = Older(heard) /\ ran' = Older(ran) /\ ticked' = FALSE
    /\ UNCHANGED <<exitPolicy, market, connected, eval, moves, faults>>

Evaluate(e) == Fetch(e) \/ UpdateMark(e) \/ Judge(e) \/ RequestClose(e)

MarksNext ==
    \/ HearTick \/ ApplyClose \/ Move \/ Disconnect \/ Reconnect \/ PassTime
    \/ \E e \in Evaluators \ {"monitor"} : StartEvaluation(e)
    \/ \E e \in Evaluators : Evaluate(e)

\* What goes on by itself: ticks of a connected stream, the reconciler's
\* schedule, an evaluation that has begun, and time, however busy the server is.
Fairness ==
    /\ WF_markVars(HearTick) /\ SF_markVars(PassTime) /\ WF_markVars(StartEvaluation("cron"))
    /\ \A e \in Evaluators : WF_markVars(Evaluate(e))

MarksSpec == MarksInit /\ [][MarksNext]_markVars /\ Fairness

-----------------------------------------------------------------------------
\* The mark in the row calls for an exit that nobody has asked for.
Unanswered ==
    /\ position.open /\ ~position.pending /\ position.mark > 0
    /\ Protective(position.mark, position.trail)

\* An accepted mark that calls for an exit is being judged, or was left to a
\* stream by the reconciler: marks that are refused, overtaken or read from a
\* stale row hide no exit (processPriceEvent, UpdatePositionsPrices).
MarkIsJudged ==
    Unanswered => position.left \/ \E e \in Evaluators : eval[e].at \in {"judge", "close"}

\* A mark that reaches a stop is judged by whoever wrote it, or left to a live
\* stream, however evaluators overtake each other (processPriceEvent,
\* UpdatePositionsPrices, EvaluateOpenPositionsOnBarClose).
MonitorsMissNothing == MarksTypeOK /\ MarkIsJudged

\* A price that stays at the stop is noticed, whether or not the stream keeps
\* delivering, and although its ticks are refused when the reconciler has just
\* written a later mark (ShouldFallback, updatePositionOperational).
StopIsTaken ==
    <>[](Protective(market, 0)) => <>(position.pending \/ ~position.open)
==============================================================================
