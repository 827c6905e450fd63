--------------------------- MODULE BacktestInputs ---------------------------
(***************************************************************************)
(* prepareBacktestInputsWithSettings (internal/backtest/job.go): how a     *)
(* backtest gets its bars and its symbol constraints.                      *)
(*                                                                         *)
(* Without a dataset manifest the bars come from the venue through a pool  *)
(* of goroutines that feed one buffered channel, and the collector returns *)
(* at the first error.  With a manifest the pinned series are bound in     *)
(* memory: each required role must be complete, and the constraints of     *)
(* each traded version of a ticker must cover the bars it can trade.       *)
(* Bars are reduced to the symbols that have them, time to small integers. *)
(***************************************************************************)
EXTENDS Integers, Sequences, FiniteSets

CONSTANTS
  Symbols,     \* backtest_symbols, in the order they are queued
  Fetchers,     \* runtime.NumCPU()
  Horizon,     \* the run is the interval [0, Horizon)
  MaxRows      \* bound: constraint rows of one version

\* What the instances have to satisfy.
InputsAssumption ==
  /\ Symbols \in Seq(STRING) /\ Len(Symbols) > 0
  /\ \A i \in 1..Len(Symbols) : Symbols[i] \notin {"waiting", "exited"}
  /\ Fetchers \in Nat \ {0} /\ Horizon \in Nat \ {0} /\ MaxRows \in Nat

VARIABLES
  mode,      \* "live" or "manifest"
  queue,     \* symbolCh, filled and closed before the workers start
  worker,    \* what each worker is doing
  channel,   \* resultCh: what was fetched and not yet collected
  series,    \* symbols the collector has stored
  outcome,   \* what the caller got back
  request,   \* whether execution and council frames are required
  missing,   \* required series the manifest lacks or has incomplete
  version,   \* the listing of the traded ticker that the manifest pins
  rows       \* its constraint rows, by effective_from

inputsVars == <<mode, queue, worker, channel, series, outcome,
          request, missing, version, rows>>
Manifested == <<request, missing, version, rows>>

Open == Horizon + 1   \* effective_to or delisted_at is NULL
Waiting == "waiting"
Exited == "exited"

\* A pool of one worker per processor, never more than there are symbols.
PoolSize == IF Fetchers > Len(Symbols) THEN Len(Symbols) ELSE Fetchers
Pool == 1..PoolSize

\* make(chan fetchResult, len(symbols)).
Capacity == Len(Symbols)

ConstraintRow ==
  {r \in [from: 0..(Horizon - 1), to: 1..Open, available: 0..(Horizon - 1)] :
     r.from < r.to}

Ordered(s) == \A i, j \in 1..Len(s) : i < j => s[i].from < s[j].from

RowSequences == UNION {{s \in [1..n -> ConstraintRow] : Ordered(s)} : n \in 0..MaxRows}

SeriesKinds == {"decision", "council", "execution", "benchmark"}

Required == {"decision", "benchmark"}
              \cup (IF request.execution THEN {"execution"} ELSE {})
              \cup (IF request.council THEN {"council"} ELSE {})

SymbolSet == {Symbols[i] : i \in 1..Len(Symbols)}
Result == [symbol: SymbolSet, ok: BOOLEAN]

InputsTypeOK ==
  /\ mode \in {"live", "manifest"}
  /\ queue \in Seq(SymbolSet)
  /\ worker \in [Pool -> SymbolSet \cup {Waiting, Exited}]
  /\ channel \in Seq(Result) /\ Len(channel) <= Capacity
  /\ series \subseteq SymbolSet
  /\ outcome \in {"none", "ok", "error", "coverage_error"}

InputsInit ==
  /\ queue = Symbols
  /\ worker = [w \in Pool |-> Waiting]
  /\ channel = <<>>
  /\ series = {}
  /\ outcome = "none"
  /\ \/ /\ mode = "live"
        /\ request = [execution |-> FALSE, council |-> FALSE]
        /\ missing = {}
        /\ version = [listed |-> 0, delisted |-> Open]
        /\ rows = <<>>
     \/ /\ mode = "manifest"
        /\ request \in [execution: BOOLEAN, council: BOOLEAN]
        /\ missing \in {{}} \cup {{k} : k \in SeriesKinds}
        /\ version \in {v \in [listed: 0..(Horizon - 1), delisted: 1..Open] :
                          v.listed < v.delisted}
        /\ rows \in RowSequences

----------------------------------------------------------------------------
\* A worker takes the next symbol, or leaves when the closed queue is empty.
Take(w) ==
  /\ mode = "live" /\ worker[w] = Waiting
  /\ \/ /\ queue # <<>>
        /\ worker' = [worker EXCEPT ![w] = Head(queue)]
        /\ queue' = Tail(queue)
     \/ /\ queue = <<>>
        /\ worker' = [worker EXCEPT ![w] = Exited]
        /\ UNCHANGED queue
  /\ UNCHANGED <<mode, channel, series, outcome, Manifested>>

\* It fetches the decision bars, and with them the 1m bars whose error it
\* ignores, and sends the result; a full channel makes it wait.
Fetch(w) ==
  /\ worker[w] \notin {Waiting, Exited}
  /\ Len(channel) < Capacity
  /\ \E ok \in BOOLEAN : channel' = Append(channel, [symbol |-> worker[w], ok |-> ok])
  /\ worker' = [worker EXCEPT ![w] = Waiting]
  /\ UNCHANGED <<mode, queue, series, outcome, Manifested>>

\* The collector stores a result, or returns with the first error and never
\* reads the channel again.
Collect ==
  /\ mode = "live" /\ outcome = "none" /\ channel # <<>>
  /\ channel' = Tail(channel)
  /\ IF Head(channel).ok
     THEN series' = series \cup {Head(channel).symbol} /\ UNCHANGED outcome
     ELSE outcome' = "error" /\ UNCHANGED series
  /\ UNCHANGED <<mode, queue, worker, Manifested>>

\* range resultCh ends: the channel is closed after wg.Wait() and is empty.
Drained == channel = <<>> /\ \A w \in Pool : worker[w] = Exited

\* The rest of the preparation: engine, benchmark bars, revision, constraints,
\* governance context and model artifact, each of which may fail.
AssembleLive ==
  /\ mode = "live" /\ outcome = "none" /\ Drained
  /\ outcome' \in {"ok", "error"}
  /\ UNCHANGED <<mode, queue, worker, channel, series, Manifested>>

----------------------------------------------------------------------------
\* The part of the run in which the version of the ticker can trade.
ExecutableStart == version.listed
ExecutableEnd == IF version.delisted < Horizon THEN version.delisted ELSE Horizon

\* Mutant: a row is used before it was published.
UsableWhenEffective(r) == r.from

\* When a constraint row can be used: effective and published.
Usable(r) == IF r.available > r.from THEN r.available ELSE r.from

\* constraintsCoverRows: walk the rows in order of effective_from, moving a
\* cursor to the end of what they cover without a gap.  The cursor after k rows
\* is at the start or at the end of the one among them that ends last.
ConstraintsCoverRows(start, end) ==
  LET reached(t, k) == start >= t \/ \E j \in 1..k : rows[j].to >= t
      gap(k) == ~reached(Usable(rows[k]), k - 1)
      enough(k) == rows[k].to = Open \/ reached(end, k)
  IN \/ end <= start
     \/ \E k \in 1..Len(rows) :
          enough(k) /\ \A j \in 1..k : ~gap(j)

\* constraintRowsAtCutoff keeps the rows that meet the interval.
MeetsExecutable ==
  \A k \in 1..Len(rows) : rows[k].from < ExecutableEnd /\ rows[k].to > ExecutableStart

\* ConstraintAt: the latest row that is effective and published at t; 0 when
\* there is none.
ConstraintAt(t) ==
  LET hits == {k \in 1..Len(rows) :
                 rows[k].from <= t /\ rows[k].available <= t /\ t < rows[k].to}
  IN IF hits = {} THEN 0 ELSE CHOOSE k \in hits : \A j \in hits : j <= k

\* preparePointInTimeBacktestInputs: a missing or incomplete series or an
\* interval without constraints is a coverage error, anything else that
\* cannot be loaded an error.
PreparePointInTime ==
  /\ mode = "manifest" /\ outcome = "none"
  /\ MeetsExecutable
  /\ outcome' \in IF Required \cap missing # {}
                     \/ ~ConstraintsCoverRows(ExecutableStart, ExecutableEnd)
                  THEN {"coverage_error", "error"}
                  ELSE {"ok", "error"}
  /\ series' = IF outcome' = "ok" THEN SymbolSet ELSE {}
  /\ UNCHANGED <<mode, queue, worker, channel, Manifested>>

InputsNext ==
  \/ (\E w \in Pool : Take(w) \/ Fetch(w))
  \/ Collect \/ AssembleLive \/ PreparePointInTime

InputsSpec == InputsInit /\ [][InputsNext]_inputsVars

----------------------------------------------------------------------------
\* A backtest starts with the bars of every symbol it was asked for.
PreparedHasEverySymbol == outcome = "ok" => series = SymbolSet

\* A run that was prepared from a manifest finds the constraints of the ticker
\* at every instant it can trade it: none of its fills fails for want of them.
ExecutableBarsResolve ==
  mode = "manifest" /\ outcome = "ok" =>
    \A t \in ExecutableStart..(ExecutableEnd - 1) : ConstraintAt(t) # 0

\* A fetching goroutine is never left waiting for a collector that returned at
\* an error: the channel has room for every result.
NoWorkerIsStuck ==
  \A w \in Pool : worker[w] \notin {Waiting, Exited} => Len(channel) < Capacity

\* Types; a run that was prepared has its bars and its constraints, and no
\* goroutine of its loader is left behind (prepareBacktestInputsWithSettings).
InputsAreWhole ==
  InputsTypeOK /\ PreparedHasEverySymbol /\ ExecutableBarsResolve /\ NoWorkerIsStuck
=============================================================================
