----------------------------- MODULE MCTrading ------------------------------
(***************************************************************************)
(* The components that move money in the running server: the close         *)
(* coordinator, for three positions, and instances of the trade cycle.  They*)
(* share no state in the model, so a behaviour is one part, chosen by its  *)
(* first state.  The parts "close" and "reboot" take the coordinator's own *)
(* steps for smaller sets; the other parts leave it as it starts.          *)
(***************************************************************************)
EXTENDS CloseCoordinator

VARIABLE part      \* which part this behaviour is of

\* TradeCycle; misses are its faults.
VARIABLES
    settings, flags, layers, cash, exits, turnover, cycle, starts, exited,
    misses

trade ==
    <<settings, flags, layers, cash, exits, turnover, cycle, starts, exited,
      misses>>

Off == "off"

\* The trade cycle in a behaviour that is not of it.
TradeOff ==
    /\ settings = Off /\ flags = Off /\ layers = Off /\ cash = Off /\ exits = Off
    /\ turnover = Off /\ cycle = Off /\ starts = Off /\ exited = Off /\ misses = Off

-----------------------------------------------------------------------------
Cand(s) == [symbol |-> s, error |-> FALSE, qualifies |-> TRUE]
Broken(s) == [symbol |-> s, error |-> TRUE, qualifies |-> FALSE]
Weak(s) == [symbol |-> s, error |-> FALSE, qualifies |-> FALSE]
Mixed == {<<Cand("A"), Cand("B")>>, <<Broken("A"), Cand("B")>>, <<Weak("B"), Cand("A")>>, <<>>}

Config(auto, max, engine, fallback, strategy) ==
    [auto |-> auto, max |-> max, engine |-> engine, fallback |-> fallback, strategy |-> strategy]

\* Two cycles that overlap, on either engine.
Overlap == INSTANCE TradeCycle WITH
    faults <- misses,
    Cycles <- {1, 2}, Symbols <- {"A", "B", "C"},
    Shortlists <- {<<Cand("A"), Cand("B"), Cand("C")>>},
    Settings <- {Config(TRUE, 1, "legacy", FALSE, "baseline"), Config(TRUE, 1, "shared", TRUE, "baseline")},
    FlagModes <- {"inactive"}, OpeningCash <- 3, MaxStarts <- 2, MaxExits <- 1, MaxFaults <- 0

\* One cycle at a time, with every mode of the cutover envelope and failed queries.
Modes == INSTANCE TradeCycle WITH
    faults <- misses,
    Cycles <- {1}, Symbols <- {"A", "B"}, Shortlists <- Mixed,
    Settings <- {Config(TRUE, 2, "shared", TRUE, "baseline"),
                 Config(TRUE, 2, "shadow_compare", FALSE, "candidate"),
                 Config(FALSE, 1, "legacy", FALSE, "baseline"),
                 Config(TRUE, 1, "legacy", FALSE, "candidate")},
    FlagModes <- {"inactive", "off", "shadow", "paper", "limited_live", "full_live"},
    OpeningCash <- 2, MaxStarts <- 2, MaxExits <- 1, MaxFaults <- 1

\* Two cycles on the shared engine that compete for too little cash.
Shared == INSTANCE TradeCycle WITH
    faults <- misses,
    Cycles <- {1, 2}, Symbols <- {"A", "B"}, Shortlists <- Mixed,
    Settings <- {Config(TRUE, 2, "shared", FALSE, "baseline"), Config(TRUE, 1, "legacy", FALSE, "baseline")},
    FlagModes <- {"inactive"}, OpeningCash <- 1, MaxStarts <- 2, MaxExits <- 1, MaxFaults <- 0

\* One position, three callers, two lifecycles, two faults.
Close == INSTANCE CloseCoordinator WITH
    Positions <- {"p"}, ExchangeHeld <- {}

\* Two positions, one of them legacy and held on the exchange, so that startup
\* meets a reservation that it rejects.
Reboot == INSTANCE CloseCoordinator WITH
    Positions <- {"q", "r"}, Prices <- {1}, Corrected <- {}, MaxAmount <- 1

ASSUME /\ Overlap!CycleAssumption /\ Modes!CycleAssumption /\ Shared!CycleAssumption
       /\ CloseAssumption /\ Close!CloseAssumption /\ Reboot!CloseAssumption

MCInit ==
    /\ Init
    /\ \/ part = "overlap" /\ Overlap!Init
       \/ part = "modes" /\ Modes!Init
       \/ part = "shared" /\ Shared!Init
       \/ part \in {"close", "reboot"} /\ TradeOff

\* A step of Close or Reboot is a Next step: their sets are subsets of the
\* module's.  No cron job reconciles in the part "reboot".
MCNext ==
    \/ part = "overlap" /\ Overlap!Next /\ UNCHANGED <<part, vars>>
    \/ part = "modes" /\ Modes!Next /\ UNCHANGED <<part, vars>>
    \/ part = "shared" /\ Shared!Next /\ UNCHANGED <<part, vars>>
    \/ part = "close" /\ Close!Next /\ UNCHANGED <<part, trade>>
    \/ part = "reboot" /\ Reboot!Next /\ callers'["cron"] = Resting /\ UNCHANGED <<part, trade>>

\* A started cycle runs on: its HTTP calls have time limits. The service manager
\* restarts a stopped server, a caller that started a close finishes it, and
\* prices keep arriving at the monitor.
MCSpec ==
    /\ MCInit /\ [][MCNext]_<<part, trade, vars>>
    /\ \A c \in {1, 2} : WF_trade(part = "shared" /\ Shared!CycleStep(c))
    /\ WF_vars(part = "reboot" /\ Reboot!RecoverPendingCloses)
    /\ \A c \in {"monitor", "api"} : WF_vars(part = "reboot" /\ Reboot!RequestClose(c))
    /\ \A p \in {"q", "r"} : WF_vars(part = "reboot" /\ Reboot!Decide("monitor", p))

-----------------------------------------------------------------------------
\* Trade cycles that overlap, or whose queries fail, exceed max_positions by a
\* bounded number, never add to a position by themselves, never buy a symbol
\* twice in a cycle, and buy nothing in a fenced process
\* (executeShortlistTradesRouted and what it calls).
CyclesAreBounded ==
    /\ part = "overlap" => Overlap!CyclesBounded
    /\ part = "modes" => Modes!CyclesBounded

\* A cycle that starts ends, whatever the other one does.
CycleEnds ==
    \A c \in {1, 2} :
        (part = "shared" /\ cycle[c].at = "analyze") ~> (part = "shared" /\ cycle[c].at = "idle")

\* What a commit may never do: refuse what the shared engine approved, unless
\* the cash shrank after the cycle read it (DecideAndEvaluate, RecordOutcome);
\* change the price captured with a reservation, or make an applied reservation
\* unapplied, whatever a late error says about it (recordCloseFailure).
CommitsAreSound ==
    [][/\ part = "shared" => Shared!RefusalIsRace
       /\ KeepsReservations]_<<part, trade, vars>>

\* Startup retries every unfinished reservation whose lifecycle is still open
\* (docs/operations/broker-idempotency-recovery.md), when no correction closes a
\* position behind its reservation.
RebootRetriesEvery ==
    \A p \in {"q", "r"}, k \in 0 .. 1 :
        (part = "reboot" /\ server = "down" /\ Unfinished(<<p, k>>))
            ~> (part = "reboot" /\ ~Unfinished(<<p, k>>))
=============================================================================
