--------------------------- MODULE CloseCoordinator ---------------------------
(***************************************************************************)
(* internal/services/execution_coordinator.go: closing a position through  *)
(* a durable reservation.  A caller of RequestClose decides, reserves the  *)
(* close in one transaction, applies it in a second one on the ledger      *)
(* writer, and records a failure in a third.  The process can die between  *)
(* any two of them; RecoverPendingCloses then retries the reservations     *)
(* before the server accepts work.                                         *)
(*                                                                         *)
(* Each transaction locks the rows it decides on (FOR UPDATE) and is one   *)
(* action.  The fill an application commits is the sale of the whole       *)
(* position that module Ledger's ApplyFill models.                         *)
(***************************************************************************)
EXTENDS Integers, Sequences, FiniteSets

CONSTANTS
    Positions,      \* position rows
    Automated,      \* stream monitor, cron reconcile, bar-close evaluation
    Manual,         \* HTTP handlers that close on request
    Boot,           \* the startup goroutine that runs RecoverPendingCloses
    Prices,         \* executable marks
    Corrected,      \* positions held through an asset correction not yet reversed
    ExchangeHeld,   \* legacy positions whose execution_mode is exchange
    MaxCycle,       \* bound: lifecycles per position
    MaxAmount,      \* bound: lots a position may hold
    MaxFaults       \* bound: crashes, rolled-back transactions and lost replies

\* What the instances have to satisfy.
CloseAssumption ==
    /\ Boot \notin Automated \cup Manual
    /\ Prices \subseteq Nat \ {0}
    /\ Corrected \subseteq Positions /\ ExchangeHeld \subseteq Positions
    /\ MaxCycle \in Nat /\ MaxAmount \in Nat \ {0} /\ MaxFaults \in Nat

VARIABLES
    positions,      \* [Positions -> row]; cycle stands for opened_at
    reversible,     \* asset corrections that were not reversed yet
    requests,       \* close_requests, by position and cycle
    created,        \* request ids in created_at order
    fills,          \* fills of closing orders, with the cycle they sold
    callers,        \* control state of every caller of RequestClose
    server,         \* "down", "booting" or "up"
    queue,          \* places in created that RecoverPendingCloses has still to apply
    faults          \* faults so far

vars == <<positions, reversible, requests, created, fills, callers, server, queue, faults>>

-----------------------------------------------------------------------------
Callers == Automated \cup Manual \cup {Boot}

IDs == Positions \X (0 .. MaxCycle)

Rows == [status : {"open", "closed"}, cycle : 0 .. MaxCycle, exitPending : BOOLEAN,
         amount : 0 .. MaxAmount, mode : {"paper", "exchange"}]

Statuses == {"none", "pending", "retryable", "applied", "rejected"}

Requests == [status : Statuses, price : Prices \cup {0}]

NoRequest == [status |-> "none", price |-> 0]

Fills == [id : IDs, cycle : 0 .. MaxCycle, amount : 0 .. MaxAmount, price : Prices \cup {0}]

Resting == [pc |-> "idle", id |-> <<>>, err |-> "none"]

CallerStates == {Resting} \cup [pc : {"decided", "reserved", "failed"}, id : IDs,
                                err : {"none", "retryable", "rejected"}]

-----------------------------------------------------------------------------
\* closeRequestID of a row: one id per position and lifecycle.
closeRequestID(p) == <<p, positions[p].cycle>>

Outstanding(id) == requests[id].status \in {"pending", "retryable"}

\* The reservation still belongs to the open lifecycle of its position.
Matches(id) == positions[id[1]].status = "open" /\ closeRequestID(id[1]) = id

Unfinished(id) == Outstanding(id) /\ Matches(id)

Filled(id) == \E f \in fills : f.id = id

Enter(c, pc, id, err) == callers' = [callers EXCEPT ![c] = [pc |-> pc, id |-> id, err |-> err]]

Return(c) == callers' = [callers EXCEPT ![c] = Resting]

Fault == faults < MaxFaults /\ faults' = faults + 1

-----------------------------------------------------------------------------
\* processPriceEvent, UpdatePositionsPrices and EvaluateOpenPositionsOnBarClose
\* skip a position whose exit is pending; a handler asks unconditionally.
Decide(c, p) ==
    /\ server = "up"
    /\ callers[c].pc = "idle"
    /\ c \in Automated => positions[p].status = "open" /\ ~positions[p].exitPending
    /\ Enter(c, "decided", closeRequestID(p), "none")
    /\ UNCHANGED <<positions, reversible, requests, created, fills, server, queue, faults>>

\* reserveClose on an open position: the reservation of this lifecycle is
\* reused if it exists, with the price it captured.
Reservation(id, price) ==
    IF requests[id].status = "none" THEN [status |-> "pending", price |-> price] ELSE requests[id]

ReserveOpen(c, p, price) ==
    LET id == closeRequestID(p)
    IN  /\ positions[p].status = "open"
        /\ requests[id].status # "rejected"
        /\ requests' = [requests EXCEPT ![id] = Reservation(id, price)]
        /\ created' = IF requests[id].status = "none" THEN Append(created, id) ELSE created
        /\ positions' = [positions EXCEPT ![p].exitPending = TRUE]
        /\ IF requests[id].status = "applied" THEN Return(c) ELSE Enter(c, "reserved", id, "none")

\* A rejected reservation fences the lifecycle; a closed position is answered
\* from its reservation, and an unfinished one is still handed to applyClose.
ReserveDuplicate(c, p) ==
    LET id == closeRequestID(p)
        closed == positions[p].status = "closed"
    IN  /\ closed \/ requests[id].status = "rejected"
        /\ IF closed /\ requests[id].status \notin {"none", "applied"}
           THEN Enter(c, "reserved", id, "none")
           ELSE Return(c)
        /\ UNCHANGED <<positions, requests, created>>

reserveClose(c) ==
    /\ callers[c].pc = "decided"
    /\ LET p == callers[c].id[1]
       IN  ReserveDuplicate(c, p) \/ \E price \in Prices : ReserveOpen(c, p, price)
    /\ UNCHANGED <<reversible, fills, server, queue, faults>>

-----------------------------------------------------------------------------
(* applyClose, on the ledger writer.                                       *)

\* ApplyFill under the request's id sells everything the row holds, at the
\* reserved price, and clears exit_pending; a known id sells nothing.
Sell(id) ==
    LET p == id[1]
    IN  IF Filled(id)
        THEN UNCHANGED <<positions, fills>>
        ELSE /\ positions' = [positions EXCEPT ![p] =
                   [status |-> "closed", cycle |-> @.cycle, exitPending |-> FALSE,
                    amount |-> 0, mode |-> @.mode]]
             /\ fills' = fills \cup {[id |-> id, cycle |-> positions[p].cycle,
                                      amount |-> positions[p].amount,
                                      price |-> requests[id].price]}

\* Mutant: the reservation is not completed with the sale.
CommitCloseUnmarked(id) ==
    /\ Sell(id)
    /\ UNCHANGED requests

\* The sale and the completion of its reservation commit together.
CommitClose(id) ==
    /\ Sell(id)
    /\ requests' = [requests EXCEPT ![id].status = "applied"]

Sellable(id) == Outstanding(id) /\ Matches(id) /\ positions[id[1]].mode = "paper"

\* The error applyClose classifies when the request cannot be sold.
Refusal(id) ==
    IF requests[id].status = "rejected" \/ (Matches(id) /\ positions[id[1]].mode = "exchange")
    THEN "rejected" ELSE "retryable"

\* A boot that has applied a request goes on with the next one.
applyClose(c) ==
    LET id == callers[c].id
    IN  /\ callers[c].pc = "reserved"
        /\ \/ /\ requests[id].status = "applied"
              /\ Return(c)
              /\ UNCHANGED <<positions, fills, requests, faults>>
           \/ /\ Sellable(id)
              /\ CommitClose(id)
              /\ \/ Return(c) /\ UNCHANGED faults
                 \/ Fault /\ Enter(c, "failed", id, "retryable")     \* the reply is lost
           \/ /\ requests[id].status # "applied" /\ ~Sellable(id)
              /\ Enter(c, "failed", id, Refusal(id))
              /\ UNCHANGED <<positions, fills, requests, faults>>
           \/ /\ Fault                                               \* rolled back
              /\ Enter(c, "failed", id, "retryable")
              /\ UNCHANGED <<positions, fills, requests>>
        /\ UNCHANGED <<reversible, created, server, queue>>

\* Fatal error of a boot, or the return of an ordinary caller.
Abandon(c) ==
    /\ Return(c)
    /\ server' = IF c = Boot THEN "down" ELSE server
    /\ queue' = IF c = Boot THEN {} ELSE queue

\* Mutant: a late error overwrites an applied reservation.
ClassifyAlways(id, err) ==
    /\ requests' = [requests EXCEPT ![id].status = err]
    /\ positions' = IF err = "rejected"
                    THEN [positions EXCEPT ![id[1]].exitPending = FALSE]
                    ELSE positions

\* recordCloseFailure: an applied reservation is left alone; rejecting one
\* releases the position's exit, whatever its current lifecycle.
Classify(id, err) ==
    IF requests[id].status = "applied"
    THEN UNCHANGED <<requests, positions>>
    ELSE /\ requests' = [requests EXCEPT ![id].status = err]
         /\ positions' = IF err = "rejected"
                         THEN [positions EXCEPT ![id[1]].exitPending = FALSE]
                         ELSE positions

recordCloseFailure(c) ==
    /\ callers[c].pc = "failed"
    /\ \/ Classify(callers[c].id, callers[c].err) /\ UNCHANGED faults
       \/ Fault /\ UNCHANGED <<requests, positions>>                 \* it fails as well
    /\ Abandon(c)
    /\ UNCHANGED <<reversible, created, fills>>

-----------------------------------------------------------------------------
(* The process.                                                            *)

Crash ==
    /\ server # "down"
    /\ Fault
    /\ server' = "down"
    /\ queue' = {}
    /\ callers' = [c \in Callers |-> Resting]
    /\ UNCHANGED <<positions, reversible, requests, created, fills>>

\* Mutant: only reservations that were never tried are recovered.
RestartPendingOnly ==
    /\ server = "down"
    /\ server' = "booting"
    /\ queue' = {i \in DOMAIN created : requests[created[i]].status = "pending"}
    /\ UNCHANGED <<positions, reversible, requests, created, fills, callers, faults>>

\* RecoverPendingCloses lists the unfinished reservations, and goes through the
\* list in creation order.
Restart ==
    /\ server = "down"
    /\ server' = "booting"
    /\ queue' = {i \in DOMAIN created : Outstanding(created[i])}
    /\ UNCHANGED <<positions, reversible, requests, created, fills, callers, faults>>

RecoverNext ==
    /\ server = "booting" /\ callers[Boot].pc = "idle"
    /\ \E i \in queue :
          /\ \A j \in queue : i <= j
          /\ Enter(Boot, "reserved", created[i], "none")
          /\ queue' = queue \ {i}
    /\ UNCHANGED <<positions, reversible, requests, created, fills, server, faults>>

StartExecutionRuntime ==
    /\ server = "booting" /\ callers[Boot].pc = "idle" /\ queue = {}
    /\ server' = "up"
    /\ UNCHANGED <<positions, reversible, requests, created, fills, callers, queue, faults>>

-----------------------------------------------------------------------------
(* Other writers of positions.                                             *)

\* A paper buy: a closed row starts a new lifecycle, an open one grows, and
\* both clear exit_pending (service.go applyPosition).
Buy(p) ==
    /\ server = "up"
    /\ positions[p].amount < MaxAmount
    /\ positions[p].status = "closed" => positions[p].cycle < MaxCycle
    /\ positions' = [positions EXCEPT ![p] =
          [status |-> "open", exitPending |-> FALSE, mode |-> "paper",
           cycle |-> IF @.status = "open" THEN @.cycle ELSE @.cycle + 1,
           amount |-> @.amount + 1]]
    /\ UNCHANGED <<reversible, requests, created, fills, callers, server, queue, faults>>

\* cmd/ledger reverses an asset correction (adjustment.go ReverseCashEvent): the
\* row closes at zero and keeps exit_pending, and no close request is told.
ReverseCorrection(p) ==
    /\ p \in reversible
    /\ positions[p].amount >= 1
    /\ reversible' = reversible \ {p}
    /\ positions' = [positions EXCEPT ![p] =
          [status |-> IF @.amount = 1 THEN "closed" ELSE @.status, cycle |-> @.cycle,
           exitPending |-> @.exitPending, amount |-> @.amount - 1, mode |-> @.mode]]
    /\ UNCHANGED <<requests, created, fills, callers, server, queue, faults>>

-----------------------------------------------------------------------------
Init ==
    /\ positions = [p \in Positions |->
          [status |-> "open", cycle |-> 0, exitPending |-> FALSE, amount |-> 1,
           mode |-> IF p \in ExchangeHeld THEN "exchange" ELSE "paper"]]
    /\ reversible = Corrected
    /\ requests = [id \in IDs |-> NoRequest]
    /\ created = <<>>
    /\ fills = {}
    /\ callers = [c \in Callers |-> Resting]
    /\ server = "down"
    /\ queue = {}
    /\ faults = 0

RequestClose(c) == reserveClose(c) \/ applyClose(c) \/ recordCloseFailure(c)

RecoverPendingCloses ==
    Restart \/ RecoverNext \/ applyClose(Boot) \/ recordCloseFailure(Boot) \/ StartExecutionRuntime

Next ==
    \/ \E c \in Automated \cup Manual : RequestClose(c) \/ \E p \in Positions : Decide(c, p)
    \/ RecoverPendingCloses
    \/ Crash
    \/ \E p \in Positions : Buy(p) \/ ReverseCorrection(p)

\* The service manager restarts a stopped server (restart: unless-stopped), a
\* goroutine that has started a close finishes it, and prices keep arriving at
\* the monitors.  Nothing makes a person call a handler.
Fairness ==
    /\ WF_vars(RecoverPendingCloses)
    /\ \A c \in Automated \cup Manual : WF_vars(RequestClose(c))
    /\ \A c \in Automated, p \in Positions : WF_vars(Decide(c, p))

Spec == Init /\ [][Next]_vars /\ Fairness
-----------------------------------------------------------------------------
(* Properties.                                                             *)

\* The position rows, the close requests, the callers inside RequestClose and
\* the recovery of the runtime stay in their types: no late sale, buy or reversal
\* takes a row's quantity below zero, and a caller past its decision always
\* holds the id of a reservation.
TypeOK ==
    /\ positions \in [Positions -> Rows]
    /\ reversible \subseteq Corrected
    /\ requests \in [IDs -> Requests]
    /\ created \in Seq(IDs)
    /\ fills \subseteq Fills
    /\ callers \in [Callers -> CallerStates]
    /\ server \in {"down", "booting", "up"}
    /\ queue \subseteq DOMAIN created
    /\ faults \in 0 .. MaxFaults

\* Duplicate ticks, handlers, retries, lost replies and reboots sell a lifecycle
\* at most once, and a reservation says applied exactly when its sale exists.
AppliedExactlyOnce ==
    \A id \in IDs :
       /\ Cardinality({f \in fills : f.id = id}) <= 1
       /\ requests[id].status = "applied" <=> Filled(id)

\* A reservation only ever sells the lifecycle it was made for, however late it
\* is applied, and sells something.
ClosesItsOwnCycle == \A f \in fills : f.cycle = f.id[2] /\ f.amount > 0

\* A position whose exit is pending has an unfinished reservation of its current
\* lifecycle: the monitors may ignore it, because a restart will not.
PendingExitIsReserved ==
    \A p \in Positions :
       positions[p].status = "open" /\ positions[p].exitPending => Outstanding(closeRequestID(p))

\* What closing a position promises, in every interleaving of callers, faults and
\* reboots: RequestClose sells a lifecycle at most once and under its own
\* reservation, and hides no position from the monitors that a restart forgets.
SoldOnce ==
    /\ TypeOK
    /\ AppliedExactlyOnce
    /\ ClosesItsOwnCycle
    /\ PendingExitIsReserved

\* The price captured with a reservation is the one every retry uses, and an
\* applied reservation stays applied, whatever a late error says about it.
KeepsReservations ==
    \A id \in IDs :
       /\ requests[id].status # "none" => /\ requests'[id].status # "none"
                                          /\ requests'[id].price = requests[id].price
       /\ requests[id].status = "applied" => requests'[id].status = "applied"
       /\ \A f \in fills' \ fills : f.price = requests[f.id].price

\* Startup retries every unfinished reservation whose lifecycle is still open
\* (docs/operations/broker-idempotency-recovery.md).
StartupRetriesEvery ==
    \A id \in IDs :
       (server = "down" /\ Unfinished(id)) ~> ~Unfinished(id)

\* "If the sell order fails, ExitPending is rolled back to false so the next
\* evaluation cycle can retry" (exit_rules.go).
FailedSaleIsRetried ==
    \A id \in IDs :
       (server = "up" /\ requests[id].status = "retryable" /\ Matches(id))
          ~> (server # "up" \/ requests[id].status # "retryable" \/ ~Matches(id))
=============================================================================
