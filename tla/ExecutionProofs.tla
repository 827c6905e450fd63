-------------------------- MODULE ExecutionProofs --------------------------
(***************************************************************************)
(* What execution may not do twice.                                        *)
(*                                                                         *)
(* The close coordinator sells every lifecycle of a position at most once, *)
(* under its own reservation and at its reserved price, for every set of   *)
(* positions, callers and prices and any number of faults.                 *)
(*                                                                         *)
(* The adapter implements the log of outcomes for every set of callers and *)
(* every set of outcomes: however calls interleave, fail and are repeated, *)
(* a step either leaves the ingestion table and the fills alone or records *)
(* one whole outcome under an identity that had none.                      *)
(***************************************************************************)
EXTENDS CloseCoordinator, BrokerOutcome, SumProofs

-----------------------------------------------------------------------------
(* The close coordinator. *)


\* The rows, the reservations and the sales, typed.
Tables ==
    /\ positions \in [Positions -> Rows]
    /\ requests \in [IDs -> Requests]
    /\ fills \subseteq Fills

\* A sale is known by its reservation, which says applied exactly then.
OneSaleEach == \A f, g \in fills : f.id = g.id => f = g

AppliedIsFilled == \A id \in IDs : requests[id].status = "applied" <=> Filled(id)

\* An open position holds something and its lifecycle was not sold.
OpenIsUnsold ==
    \A p \in Positions : positions[p].status = "open" =>
        positions[p].amount >= 1 /\ requests[closeRequestID(p)].status # "applied"

\* A sale is never of a lifecycle that has not begun: the next buy starts one
\* whose reservation cannot be applied yet.
SalesArePast == \A f \in fills : f.cycle <= positions[f.id[1]].cycle

Book ==
    /\ Tables /\ OneSaleEach /\ AppliedIsFilled /\ ClosesItsOwnCycle
    /\ PendingExitIsReserved /\ OpenIsUnsold /\ SalesArePast

\* The control state, typed; a failed caller has a class for its error.
Control ==
    /\ reversible \subseteq Corrected
    /\ created \in Seq(IDs)
    /\ callers \in [Callers -> CallerStates]
    /\ server \in {"down", "booting", "up"}
    /\ queue \subseteq DOMAIN created
    /\ faults \in 0 .. MaxFaults
    /\ \A c \in Callers : callers[c].pc = "failed" => callers[c].err \in {"retryable", "rejected"}

IInv == Book /\ Control

-----------------------------------------------------------------------------
LEMMA IDParts ==
    ASSUME NEW id \in IDs
    PROVE  id[1] \in Positions /\ id[2] \in 0 .. MaxCycle /\ id = <<id[1], id[2]>>
  BY DEF IDs

LEMMA CurrentID ==
    ASSUME Tables, NEW p \in Positions
    PROVE  /\ closeRequestID(p) \in IDs
           /\ closeRequestID(p)[1] = p /\ closeRequestID(p)[2] = positions[p].cycle
  BY DEF Tables, closeRequestID, IDs, Rows

\* A caller that is not idle holds the id of a lifecycle.
LEMMA BusyCaller ==
    ASSUME Control, NEW c \in Callers, callers[c].pc # "idle"
    PROVE  callers[c].id \in IDs
  BY DEF Control, CallerStates, Resting

-----------------------------------------------------------------------------
(* What each transaction does to the book.                                 *)

LEMMA UnchangedBook ==
    ASSUME Book, UNCHANGED <<positions, requests, fills>>
    PROVE  Book'
  BY DEF Book, Tables, OneSaleEach, AppliedIsFilled, ClosesItsOwnCycle, PendingExitIsReserved,
         OpenIsUnsold, SalesArePast, Filled, Outstanding, closeRequestID

\* reserveClose adds a reservation or reuses one that is not applied.
LEMMA ReserveBook ==
    ASSUME Book, NEW p \in Positions, NEW price \in Prices,
           positions[p].status = "open",
           requests[closeRequestID(p)].status # "rejected",
           requests' = [requests EXCEPT ![closeRequestID(p)] = Reservation(closeRequestID(p), price)],
           positions' = [positions EXCEPT ![p].exitPending = TRUE],
           UNCHANGED fills
    PROVE  Book'
<1> DEFINE id == closeRequestID(p)
<1> HIDE DEF id
<1>0. id \in IDs /\ id = <<p, positions[p].cycle>> /\ Tables
  BY CurrentID DEF Book, id, closeRequestID
<1>1. /\ Reservation(id, price) \in Requests
      /\ Reservation(id, price).status \in {"pending", "retryable"}
  BY <1>0 DEF Book, Tables, OpenIsUnsold, Reservation, Requests, Statuses, id
<1>2. requests' = [requests EXCEPT ![id] = Reservation(id, price)]
  BY DEF id
<1>3. Tables'
  <2>1. positions' \in [Positions -> Rows]
    BY <1>0 DEF Tables, Rows
  <2> QED BY <1>0, <1>1, <1>2, <2>1 DEF Tables
<1>4. \A q \in Positions : /\ positions'[q].status = positions[q].status
                           /\ positions'[q].cycle = positions[q].cycle
                           /\ positions'[q].amount = positions[q].amount
                           /\ q # p => positions'[q] = positions[q]
  BY <1>0 DEF Tables, Rows
<1>5. /\ requests'[id].status \in {"pending", "retryable"}
      /\ \A i \in IDs : i # id => requests'[i] = requests[i]
  BY <1>0, <1>1, <1>2 DEF Tables
<1>6. requests[id].status # "applied"
  BY <1>0 DEF Book, OpenIsUnsold, id
<1>7. OneSaleEach' /\ ClosesItsOwnCycle'
  BY DEF Book, OneSaleEach, ClosesItsOwnCycle
<1>8. AppliedIsFilled'
  BY <1>5, <1>6 DEF Book, AppliedIsFilled, Filled
<1>9. \A q \in Positions : closeRequestID(q)' = closeRequestID(q) /\ closeRequestID(q) \in IDs
  BY <1>0, <1>4, CurrentID DEF closeRequestID
<1>10. PendingExitIsReserved'
  BY <1>4, <1>5, <1>9 DEF Book, PendingExitIsReserved, Outstanding, id
<1>11. OpenIsUnsold'
  BY <1>4, <1>5, <1>9 DEF Book, OpenIsUnsold
<1>12. SalesArePast'
  BY <1>4, IDParts DEF Book, Tables, SalesArePast, Fills
<1> QED BY <1>3, <1>7, <1>8, <1>10, <1>11, <1>12 DEF Book

\* applyClose sells the open lifecycle of its own reservation, all of it.
LEMMA SellBook ==
    ASSUME CloseAssumption, Book, NEW id \in IDs, Sellable(id), CommitClose(id)
    PROVE  /\ Book'
           /\ \E f : fills' = fills \cup {f} /\ f.id = id /\ f.price = requests[id].price
<1> DEFINE p == id[1]
           row == [status |-> "closed", cycle |-> positions[p].cycle, exitPending |-> FALSE,
                   amount |-> 0, mode |-> positions[p].mode]
           sale == [id |-> id, cycle |-> positions[p].cycle, amount |-> positions[p].amount,
                    price |-> requests[id].price]
<1>0. Tables
  BY DEF Book
<1>1. /\ p \in Positions /\ id[2] = positions[p].cycle
      /\ positions[p].status = "open" /\ closeRequestID(p) = id
      /\ requests[id].status # "applied" /\ ~Filled(id)
  BY IDParts, CurrentID DEF Book, Sellable, Matches, Outstanding, AppliedIsFilled
<1>2. positions[p] \in Rows /\ requests[id] \in Requests
  BY <1>1 DEF Book, Tables
<1>3. row \in Rows /\ sale \in Fills
  BY <1>2 DEF Rows, Requests, Fills, CloseAssumption
<1>4. /\ positions' = [positions EXCEPT ![p] = row] /\ fills' = fills \cup {sale}
      /\ requests' = [requests EXCEPT ![id].status = "applied"]
  BY <1>1 DEF CommitClose, Sell
<1>5. Tables'
  <2>1. requests' \in [IDs -> Requests]
    BY <1>2, <1>4 DEF Book, Tables, Requests, Statuses
  <2> QED BY <1>1, <1>3, <1>4, <2>1 DEF Book, Tables
<1>6. /\ positions'[p] = row /\ \A q \in Positions : q # p => positions'[q] = positions[q]
      /\ requests'[id].status = "applied" /\ \A i \in IDs : i # id => requests'[i] = requests[i]
  BY <1>1, <1>4, <1>0 DEF Tables, Requests
<1>7. row.status = "closed" /\ row.cycle = positions[p].cycle
  OBVIOUS
<1>8. sale.id = id /\ sale.cycle = id[2] /\ sale.amount > 0 /\ sale.price = requests[id].price
  BY <1>1, <1>2 DEF Book, OpenIsUnsold, Rows
<1> HIDE DEF row, sale, p
<1>9. OneSaleEach'
  BY <1>1, <1>4, <1>8 DEF Book, OneSaleEach, Filled
<1>10. AppliedIsFilled'
  BY <1>1, <1>4, <1>6, <1>8 DEF Book, AppliedIsFilled, Filled
<1>11. ClosesItsOwnCycle'
  BY <1>4, <1>8 DEF Book, ClosesItsOwnCycle
<1>12. \A q \in Positions : q # p => /\ closeRequestID(q)' = closeRequestID(q)
                                     /\ closeRequestID(q) \in IDs /\ closeRequestID(q) # id
  BY <1>0, <1>1, <1>6, CurrentID DEF closeRequestID, p
<1>13. PendingExitIsReserved'
  BY <1>6, <1>7, <1>12 DEF Book, PendingExitIsReserved, Outstanding
<1>14. OpenIsUnsold'
  BY <1>6, <1>7, <1>12 DEF Book, OpenIsUnsold
<1>15. SalesArePast'
  <2>1. positions[p].cycle <= positions[p].cycle
    BY <1>2 DEF Rows
  <2>2. \A q \in Positions : positions'[q].cycle = positions[q].cycle
    BY <1>6, <1>7
  <2>3. \A f \in fills : f.id[1] \in Positions
    BY <1>0, IDParts DEF Tables, Fills
  <2> QED BY <1>1, <1>4, <1>8, <2>1, <2>2, <2>3 DEF Book, SalesArePast, p
<1> QED
  BY <1>4, <1>5, <1>8, <1>9, <1>10, <1>11, <1>13, <1>14, <1>15 DEF Book

\* recordCloseFailure leaves an applied reservation alone; rejecting another one
\* releases the exit of whatever lifecycle its position is in by then.
LEMMA ClassifyBook ==
    ASSUME Book, NEW id \in IDs, NEW err \in {"retryable", "rejected"},
           Classify(id, err), UNCHANGED fills
    PROVE  Book'
<1>0. Tables /\ id[1] \in Positions
  BY IDParts DEF Book
<1>1. CASE requests[id].status = "applied"
  BY <1>1, UnchangedBook DEF Classify
<1>2. CASE requests[id].status # "applied"
  <2>1. /\ requests' = [requests EXCEPT ![id].status = err]
        /\ positions' = IF err = "rejected" THEN [positions EXCEPT ![id[1]].exitPending = FALSE]
                        ELSE positions
    BY <1>2 DEF Classify
  <2>2. /\ requests' \in [IDs -> Requests] /\ requests'[id].status = err
        /\ \A i \in IDs : i # id => requests'[i] = requests[i]
    BY <1>0, <2>1 DEF Tables, Requests, Statuses
  <2>3. /\ positions' \in [Positions -> Rows]
        /\ \A q \in Positions : /\ positions'[q].status = positions[q].status
                                /\ positions'[q].cycle = positions[q].cycle
                                /\ positions'[q].amount = positions[q].amount
                                /\ q # id[1] => positions'[q] = positions[q]
                                /\ positions'[q].exitPending => positions[q].exitPending
        /\ err = "rejected" => ~positions'[id[1]].exitPending
    BY <1>0, <2>1 DEF Tables, Rows
  <2>4. \A q \in Positions : /\ closeRequestID(q)' = closeRequestID(q) /\ closeRequestID(q) \in IDs
                             /\ closeRequestID(q) = id => q = id[1]
    BY <1>0, <2>3, CurrentID DEF closeRequestID
  <2>5. Tables' /\ OneSaleEach' /\ ClosesItsOwnCycle'
    BY <2>2, <2>3 DEF Book, Tables, OneSaleEach, ClosesItsOwnCycle
  <2>6. AppliedIsFilled'
    BY <1>2, <2>2 DEF Book, AppliedIsFilled, Filled
  <2>7. PendingExitIsReserved'
    BY <2>2, <2>3, <2>4 DEF Book, PendingExitIsReserved, Outstanding
  <2>8. OpenIsUnsold'
    BY <2>2, <2>3, <2>4 DEF Book, OpenIsUnsold
  <2>9. SalesArePast'
    BY <1>0, <2>3, IDParts DEF Book, Tables, SalesArePast, Fills
  <2> QED BY <2>5, <2>6, <2>7, <2>8, <2>9 DEF Book
<1> QED BY <1>1, <1>2

\* A buy opens a lifecycle that no reservation is for yet, or adds to an open one.
LEMMA BuyBook ==
    ASSUME CloseAssumption, Book, NEW p \in Positions, Buy(p)
    PROVE  Book'
<1> DEFINE row == [status |-> "open", exitPending |-> FALSE, mode |-> "paper",
                   cycle |-> IF positions[p].status = "open" THEN positions[p].cycle
                             ELSE positions[p].cycle + 1,
                   amount |-> positions[p].amount + 1]
<1>0. Tables /\ positions[p] \in Rows /\ UNCHANGED <<requests, fills>>
  BY DEF Book, Tables, Buy
<1>1. row \in Rows /\ row.amount >= 1 /\ ~row.exitPending /\ positions[p].cycle <= row.cycle
  BY <1>0 DEF Buy, Rows, CloseAssumption
<1>2. /\ positions' \in [Positions -> Rows] /\ positions'[p] = row
      /\ \A q \in Positions : q # p => positions'[q] = positions[q]
  BY <1>0, <1>1 DEF Buy, Tables
<1>3. requests[<<p, row.cycle>>].status # "applied" /\ <<p, row.cycle>> \in IDs
  <2>1. <<p, row.cycle>> \in IDs
    BY <1>1 DEF IDs, Rows
  <2>2. CASE positions[p].status = "open"
    BY <2>1, <2>2 DEF Book, OpenIsUnsold, closeRequestID
  <2>3. CASE positions[p].status # "open"
    <3>1. row.cycle = positions[p].cycle + 1
      BY <2>3
    <3>2. ASSUME NEW f \in fills, f.id = <<p, row.cycle>> PROVE FALSE
      <4>1. f.id[2] = row.cycle /\ f.id[1] = p
        BY <3>2
      <4>2. row.cycle <= positions[p].cycle
        BY <4>1 DEF Book, ClosesItsOwnCycle, SalesArePast
      <4> QED BY <1>0, <3>1, <4>2 DEF Rows
    <3> QED BY <2>1, <3>2 DEF Book, AppliedIsFilled, Filled
  <2> QED BY <2>1, <2>2, <2>3
<1> HIDE DEF row
<1>4. \A q \in Positions : closeRequestID(q)' = IF q = p THEN <<p, row.cycle>> ELSE closeRequestID(q)
  BY <1>2 DEF closeRequestID
<1>5. Tables' /\ OneSaleEach' /\ ClosesItsOwnCycle' /\ AppliedIsFilled'
  BY <1>0, <1>2 DEF Book, Tables, OneSaleEach, ClosesItsOwnCycle, AppliedIsFilled, Filled
<1>6. PendingExitIsReserved'
  BY <1>0, <1>1, <1>2, <1>4 DEF Book, PendingExitIsReserved, Outstanding
<1>7. OpenIsUnsold'
  BY <1>0, <1>1, <1>2, <1>3, <1>4 DEF Book, OpenIsUnsold
<1>8. SalesArePast'
  <2>1. \A q \in Positions : /\ positions[q].cycle <= positions'[q].cycle
                             /\ positions[q].cycle \in Nat /\ positions'[q].cycle \in Nat
    BY <1>0, <1>1, <1>2 DEF Tables, Rows
  <2>2. \A f \in fills : f.id[1] \in Positions /\ f.cycle \in Nat
    BY <1>0, IDParts DEF Tables, Fills
  <2> QED BY <1>0, <2>1, <2>2 DEF Book, SalesArePast
<1> QED BY <1>5, <1>6, <1>7, <1>8 DEF Book

\* A reversed correction takes one lot and closes the row at zero; the lifecycle
\* it closes was not sold, and stays unsold.
LEMMA ReverseBook ==
    ASSUME CloseAssumption, Book, NEW p \in Positions, ReverseCorrection(p)
    PROVE  Book'
<1> DEFINE row == [status |-> IF positions[p].amount = 1 THEN "closed" ELSE positions[p].status,
                   cycle |-> positions[p].cycle, exitPending |-> positions[p].exitPending,
                   amount |-> positions[p].amount - 1, mode |-> positions[p].mode]
<1>0. Tables /\ positions[p] \in Rows /\ UNCHANGED <<requests, fills>>
  BY DEF Book, Tables, ReverseCorrection
<1>1. /\ row \in Rows /\ row.cycle = positions[p].cycle /\ row.exitPending = positions[p].exitPending
      /\ row.status = "open" => positions[p].status = "open" /\ row.amount >= 1
  BY <1>0 DEF ReverseCorrection, Rows, CloseAssumption
<1>2. /\ positions' \in [Positions -> Rows] /\ positions'[p] = row
      /\ \A q \in Positions : q # p => positions'[q] = positions[q]
  BY <1>0, <1>1 DEF ReverseCorrection, Tables
<1> HIDE DEF row
<1>3. \A q \in Positions : closeRequestID(q)' = closeRequestID(q)
  BY <1>1, <1>2 DEF closeRequestID
<1>4. Tables' /\ OneSaleEach' /\ ClosesItsOwnCycle' /\ AppliedIsFilled'
  BY <1>0, <1>2 DEF Book, Tables, OneSaleEach, ClosesItsOwnCycle, AppliedIsFilled, Filled
<1>5. PendingExitIsReserved'
  BY <1>0, <1>1, <1>2, <1>3 DEF Book, PendingExitIsReserved, Outstanding
<1>6. OpenIsUnsold'
  BY <1>0, <1>1, <1>2, <1>3 DEF Book, OpenIsUnsold
<1>7. SalesArePast'
  BY <1>0, <1>1, <1>2, IDParts DEF Book, Tables, SalesArePast, Fills
<1> QED BY <1>4, <1>5, <1>6, <1>7 DEF Book
-----------------------------------------------------------------------------
(* What the steps do to the control state.                                 *)

LEMMA EnterControl ==
    ASSUME Control, NEW c \in Callers, NEW pc \in {"decided", "reserved", "failed"},
           NEW id \in IDs, NEW err \in {"none", "retryable", "rejected"},
           pc = "failed" => err # "none", Enter(c, pc, id, err)
    PROVE  /\ callers' \in [Callers -> CallerStates]
           /\ \A d \in Callers : callers'[d].pc = "failed" => callers'[d].err \in {"retryable", "rejected"}
<1> DEFINE state == [pc |-> pc, id |-> id, err |-> err]
<1>1. state \in CallerStates
  BY DEF CallerStates
<1>2. state.pc = "failed" => state.err \in {"retryable", "rejected"}
  OBVIOUS
<1>3. callers' = [callers EXCEPT ![c] = state]
  BY DEF Enter
<1> HIDE DEF state
<1> QED BY <1>1, <1>2, <1>3 DEF Control

LEMMA RestingState == Resting \in CallerStates /\ Resting.pc = "idle"
  BY DEF Resting, CallerStates

LEMMA ReturnControl ==
    ASSUME Control, NEW c \in Callers, Return(c)
    PROVE  /\ callers' \in [Callers -> CallerStates]
           /\ \A d \in Callers : callers'[d].pc = "failed" => callers'[d].err \in {"retryable", "rejected"}
  BY RestingState DEF Control, Return

LEMMA FaultCounted ==
    ASSUME CloseAssumption, Control, Fault \/ UNCHANGED faults
    PROVE  faults' \in 0 .. MaxFaults
  BY DEF CloseAssumption, Control, Fault

\* The steps of a caller keep the rest of the control state.
LEMMA CallerControl ==
    ASSUME Control, UNCHANGED <<reversible, created, server, queue>>,
           callers' \in [Callers -> CallerStates],
           \A d \in Callers : callers'[d].pc = "failed" => callers'[d].err \in {"retryable", "rejected"},
           faults' \in 0 .. MaxFaults
    PROVE  Control'
  BY DEF Control

-----------------------------------------------------------------------------
(* The invariant, one lemma per action.                                    *)

LEMMA InitInv == CloseAssumption /\ Init => IInv
<1> SUFFICES ASSUME CloseAssumption, Init PROVE IInv
  OBVIOUS
<1>1. \A p \in Positions :
         /\ positions[p] \in Rows /\ positions[p].status = "open"
         /\ positions[p].amount = 1 /\ ~positions[p].exitPending
  BY DEF Init, CloseAssumption, Rows
<1>2. NoRequest \in Requests /\ NoRequest.status = "none"
  BY DEF NoRequest, Requests, Statuses
<1>3. Tables
  BY <1>1, <1>2 DEF Init, Tables
<1>4. Book
  BY <1>1, <1>2, <1>3, CurrentID DEF Init, Book, OneSaleEach, AppliedIsFilled, ClosesItsOwnCycle,
     PendingExitIsReserved, OpenIsUnsold, SalesArePast, Filled
<1>5. Control
  BY RestingState DEF Init, Control, CloseAssumption
<1> QED BY <1>4, <1>5 DEF IInv

LEMMA DecideInv ==
    ASSUME IInv, NEW c \in Callers, NEW p \in Positions, Decide(c, p)
    PROVE  IInv'
<1>1. Book'
  BY UnchangedBook DEF IInv, Decide
<1>2. closeRequestID(p) \in IDs
  BY CurrentID DEF IInv, Book
<1>3. Control'
  BY <1>2, EnterControl, CallerControl DEF IInv, Control, Decide
<1> QED BY <1>1, <1>3 DEF IInv

LEMMA ReserveInv ==
    ASSUME IInv, NEW c \in Callers, reserveClose(c)
    PROVE  IInv'
<1> DEFINE p == callers[c].id[1]
<1>0. /\ Book /\ Control /\ p \in Positions /\ closeRequestID(p) \in IDs
      /\ UNCHANGED <<reversible, fills, server, queue, faults>>
  BY BusyCaller, IDParts, CurrentID DEF IInv, Book, reserveClose
<1> HIDE DEF p
<1>1. ASSUME ReserveDuplicate(c, p) PROVE IInv'
  <2>1. Book' /\ UNCHANGED created
    BY <1>0, <1>1, UnchangedBook DEF ReserveDuplicate
  <2>2. Return(c) \/ Enter(c, "reserved", closeRequestID(p), "none")
    BY <1>1 DEF ReserveDuplicate
  <2>3. Control'
    BY <1>0, <2>1, <2>2, EnterControl, ReturnControl, CallerControl DEF Control
  <2> QED BY <2>1, <2>3 DEF IInv
<1>2. ASSUME NEW price \in Prices, ReserveOpen(c, p, price) PROVE IInv'
  <2>1. Book'
    BY <1>0, <1>2, ReserveBook DEF ReserveOpen
  <2>2. Return(c) \/ Enter(c, "reserved", closeRequestID(p), "none")
    BY <1>2 DEF ReserveOpen
  <2>3. /\ callers' \in [Callers -> CallerStates]
        /\ \A d \in Callers : callers'[d].pc = "failed" => callers'[d].err \in {"retryable", "rejected"}
    BY <1>0, <2>2, EnterControl, ReturnControl
  <2>4. created' \in Seq(IDs) /\ DOMAIN created \subseteq DOMAIN created'
    BY <1>0, <1>2 DEF ReserveOpen, Control
  <2>5. Control'
    BY <1>0, <2>3, <2>4 DEF Control
  <2> QED BY <2>1, <2>5 DEF IInv
<1> QED BY <1>1, <1>2 DEF reserveClose, p

LEMMA ApplyInv ==
    ASSUME CloseAssumption, IInv, NEW c \in Callers, applyClose(c)
    PROVE  IInv'
<1> DEFINE id == callers[c].id
<1>0. /\ Book /\ Control /\ id \in IDs /\ UNCHANGED <<reversible, created, server, queue>>
  BY BusyCaller DEF IInv, applyClose
<1>1. /\ (UNCHANGED <<positions, fills, requests>>) \/ (Sellable(id) /\ CommitClose(id))
      /\ \/ Return(c)
         \/ Enter(c, "failed", id, "retryable") \/ Enter(c, "failed", id, Refusal(id))
      /\ Fault \/ UNCHANGED faults
  BY DEF applyClose
<1> HIDE DEF id
<1>2. Book'
  BY <1>0, <1>1, UnchangedBook, SellBook
<1>3. Refusal(id) \in {"retryable", "rejected"}
  BY DEF Refusal
<1>4. Control'
  BY <1>0, <1>1, <1>3, EnterControl, ReturnControl, FaultCounted, CallerControl
<1> QED BY <1>2, <1>4 DEF IInv

LEMMA RecordInv ==
    ASSUME CloseAssumption, IInv, NEW c \in Callers, recordCloseFailure(c)
    PROVE  IInv'
<1> DEFINE id == callers[c].id
           err == callers[c].err
<1>0. /\ Book /\ Control /\ id \in IDs /\ err \in {"retryable", "rejected"}
      /\ UNCHANGED <<reversible, created, fills>>
  BY BusyCaller DEF IInv, Control, recordCloseFailure
<1>1. /\ Classify(id, err) \/ UNCHANGED <<requests, positions>>
      /\ Fault \/ UNCHANGED faults
      /\ Return(c) /\ server' \in {"down", server} /\ queue' \subseteq queue
  BY DEF recordCloseFailure, Abandon
<1> HIDE DEF id, err
<1>2. Book'
  BY <1>0, <1>1, UnchangedBook, ClassifyBook
<1>3. Control'
  BY <1>0, <1>1, ReturnControl, FaultCounted DEF Control
<1> QED BY <1>2, <1>3 DEF IInv

LEMMA ProcessInv ==
    ASSUME CloseAssumption, IInv, Crash \/ Restart \/ RecoverNext \/ StartExecutionRuntime
    PROVE  IInv'
<1>0. Book /\ Control /\ Boot \in Callers
  BY DEF IInv, Callers
<1>1. Book'
  BY <1>0, UnchangedBook DEF Crash, Restart, RecoverNext, StartExecutionRuntime
<1>2. Control'
  <2>1. CASE Crash
    BY <1>0, <2>1, FaultCounted, RestingState DEF Crash, Control
  <2>2. CASE Restart
    BY <1>0, <2>2 DEF Restart, Control
  <2>3. CASE RecoverNext
    <3>1. PICK i \in queue : Enter(Boot, "reserved", created[i], "none") /\ queue' = queue \ {i}
      BY <2>3 DEF RecoverNext
    <3>2. created[i] \in IDs
      BY <1>0 DEF Control
    <3>3. /\ callers' \in [Callers -> CallerStates]
          /\ \A d \in Callers : callers'[d].pc = "failed" => callers'[d].err \in {"retryable", "rejected"}
      BY <1>0, <3>1, <3>2, EnterControl
    <3> QED BY <1>0, <2>3, <3>1, <3>3 DEF RecoverNext, Control
  <2>4. CASE StartExecutionRuntime
    BY <1>0, <2>4 DEF StartExecutionRuntime, Control
  <2> QED BY <2>1, <2>2, <2>3, <2>4
<1> QED BY <1>1, <1>2 DEF IInv

LEMMA WriterInv ==
    ASSUME CloseAssumption, IInv, NEW p \in Positions, Buy(p) \/ ReverseCorrection(p)
    PROVE  IInv'
<1>1. Book'
  BY BuyBook, ReverseBook DEF IInv
<1>2. Control'
  BY DEF IInv, Control, Buy, ReverseCorrection
<1> QED BY <1>1, <1>2 DEF IInv

LEMMA InvStep ==
    ASSUME CloseAssumption, IInv, [Next]_vars
    PROVE  IInv'
<1>0. Automated \cup Manual \subseteq Callers /\ Boot \in Callers
  BY DEF Callers
<1>1. CASE \E c \in Automated \cup Manual : RequestClose(c) \/ \E p \in Positions : Decide(c, p)
  BY <1>0, <1>1, ReserveInv, ApplyInv, RecordInv, DecideInv DEF RequestClose
<1>2. CASE RecoverPendingCloses
  BY <1>0, <1>2, ProcessInv, ApplyInv, RecordInv DEF RecoverPendingCloses
<1>3. CASE Crash
  BY <1>3, ProcessInv
<1>4. CASE \E p \in Positions : Buy(p) \/ ReverseCorrection(p)
  BY <1>4, WriterInv
<1>5. CASE UNCHANGED vars
  <2>1. Book'
    BY <1>5, UnchangedBook DEF IInv, vars
  <2>2. Control'
    BY <1>5 DEF IInv, Control, vars
  <2> QED BY <2>1, <2>2 DEF IInv
<1> QED BY <1>1, <1>2, <1>3, <1>4, <1>5 DEF Next

\* No lifecycle has two sales: a set whose members are all equal has one.
LEMMA AtMostOne ==
    ASSUME NEW S, \A x, y \in S : x = y
    PROVE  Cardinality(S) <= 1
<1>1. CASE S = {}
  BY <1>1, FS_EmptySet
<1>2. CASE S # {}
  <2>1. PICK x : S = {x}
    BY <1>2
  <2> QED BY <2>1, FS_Singleton
<1> QED BY <1>1, <1>2

LEMMA InvImplies == IInv => SoldOnce
<1> SUFFICES ASSUME IInv PROVE SoldOnce
  OBVIOUS
<1>1. TypeOK
  BY DEF IInv, Book, Tables, Control, TypeOK
<1>2. \A id \in IDs : Cardinality({f \in fills : f.id = id}) <= 1
  BY AtMostOne DEF IInv, Book, OneSaleEach
<1>3. AppliedExactlyOnce
  BY <1>2 DEF IInv, Book, AppliedIsFilled, AppliedExactlyOnce
<1> QED BY <1>1, <1>3 DEF IInv, Book, SoldOnce

-----------------------------------------------------------------------------
\* Duplicate ticks, handlers, retries, lost replies and reboots sell a lifecycle
\* at most once, under its own reservation, and an exit that the monitors ignore
\* as pending has a reservation that a restart finds (RequestClose,
\* RecoverPendingCloses).
THEOREM SoldOnceHolds == ASSUME CloseAssumption PROVE Spec => []SoldOnce
<1>1. Init => IInv
  BY InitInv
<1>2. IInv /\ [Next]_vars => IInv'
  BY InvStep
<1>3. IInv => SoldOnce
  BY InvImplies
<1> QED BY <1>1, <1>2, <1>3, PTL DEF Spec

-----------------------------------------------------------------------------
(* What no step does to a reservation.                                     *)

LEMMA UntouchedReservations ==
    ASSUME UNCHANGED <<requests, fills>>
    PROVE  KeepsReservations
  BY DEF KeepsReservations

LEMMA ReserveKeeps ==
    ASSUME IInv, NEW c \in Callers, reserveClose(c)
    PROVE  KeepsReservations
<1> DEFINE p == callers[c].id[1]
<1>0. Tables /\ p \in Positions /\ closeRequestID(p) \in IDs /\ UNCHANGED fills
  BY BusyCaller, IDParts, CurrentID DEF IInv, Book, reserveClose
<1> HIDE DEF p
<1>1. CASE ReserveDuplicate(c, p)
  BY <1>0, <1>1, UntouchedReservations DEF ReserveDuplicate
<1>2. ASSUME NEW price \in Prices, ReserveOpen(c, p, price) PROVE KeepsReservations
  <2>1. requests' = [requests EXCEPT ![closeRequestID(p)] = Reservation(closeRequestID(p), price)]
    BY <1>2 DEF ReserveOpen
  <2>2. \A id \in IDs : requests[id].status # "none" => requests'[id] = requests[id]
    BY <1>0, <2>1 DEF Reservation, Tables
  <2> QED BY <1>0, <2>2 DEF KeepsReservations
<1> QED BY <1>1, <1>2 DEF reserveClose, p

LEMMA ApplyKeeps ==
    ASSUME CloseAssumption, IInv, NEW c \in Callers, applyClose(c)
    PROVE  KeepsReservations
<1> DEFINE id == callers[c].id
<1>0. Book /\ Tables /\ id \in IDs
  BY BusyCaller DEF IInv, Book, applyClose
<1>1. UNCHANGED <<positions, fills, requests>> \/ (Sellable(id) /\ CommitClose(id))
  BY DEF applyClose
<1> HIDE DEF id
<1>2. CASE Sellable(id) /\ CommitClose(id)
  <2>1. PICK f : fills' = fills \cup {f} /\ f.id = id /\ f.price = requests[id].price
    BY <1>0, <1>2, SellBook
  <2>2. /\ requests'[id].status = "applied" /\ requests'[id].price = requests[id].price
        /\ \A i \in IDs : i # id => requests'[i] = requests[i]
    BY <1>0, <1>2 DEF CommitClose, Tables, Requests
  <2> QED BY <2>1, <2>2 DEF KeepsReservations
<1> QED BY <1>1, <1>2, UntouchedReservations

LEMMA RecordKeeps ==
    ASSUME IInv, NEW c \in Callers, recordCloseFailure(c)
    PROVE  KeepsReservations
<1> DEFINE id == callers[c].id
           err == callers[c].err
<1>0. /\ Tables /\ id \in IDs /\ err \in {"retryable", "rejected"} /\ UNCHANGED fills
      /\ Classify(id, err) \/ UNCHANGED requests
  BY BusyCaller DEF IInv, Book, Control, recordCloseFailure
<1> HIDE DEF id, err
<1>1. CASE Classify(id, err)
  <2>1. \/ UNCHANGED requests
        \/ /\ requests[id].status # "applied"
           /\ requests' = [requests EXCEPT ![id].status = err]
    BY <1>1 DEF Classify
  <2>2. ASSUME requests[id].status # "applied",
               requests' = [requests EXCEPT ![id].status = err]
        PROVE  KeepsReservations
    <3>1. /\ requests'[id].status = err /\ requests'[id].price = requests[id].price
          /\ \A i \in IDs : i # id => requests'[i] = requests[i]
      BY <1>0, <2>2 DEF Tables, Requests
    <3> QED BY <1>0, <2>2, <3>1 DEF KeepsReservations
  <2> QED BY <1>0, <2>1, <2>2, UntouchedReservations
<1> QED BY <1>0, <1>1, UntouchedReservations

LEMMA StepKeepsReservations ==
    ASSUME CloseAssumption, IInv, [Next]_vars
    PROVE  KeepsReservations
<1>0. Automated \cup Manual \subseteq Callers /\ Boot \in Callers
  BY DEF Callers
<1>1. CASE \E c \in Automated \cup Manual : RequestClose(c)
  BY <1>0, <1>1, ReserveKeeps, ApplyKeeps, RecordKeeps DEF RequestClose
<1>2. CASE applyClose(Boot) \/ recordCloseFailure(Boot)
  BY <1>0, <1>2, ApplyKeeps, RecordKeeps
<1>3. CASE \/ \E c \in Automated \cup Manual, p \in Positions : Decide(c, p)
           \/ Restart \/ RecoverNext \/ StartExecutionRuntime \/ Crash
           \/ \E p \in Positions : Buy(p) \/ ReverseCorrection(p)
           \/ UNCHANGED vars
  <2>1. UNCHANGED <<requests, fills>>
    BY <1>3 DEF Decide, Restart, RecoverNext, StartExecutionRuntime, Crash, Buy,
                ReverseCorrection, vars
  <2> QED BY <2>1, UntouchedReservations
<1> QED BY <1>1, <1>2, <1>3 DEF Next, RecoverPendingCloses

\* Every retry sells at the price that was captured with the reservation, and an
\* applied reservation stays applied, whatever a late error says about it
\* (reserveClose, recordCloseFailure).
THEOREM ReservationsKept == ASSUME CloseAssumption PROVE Spec => [][KeepsReservations]_vars
<1>1. Init => IInv
  BY InitInv
<1>2. IInv /\ [Next]_vars => IInv'
  BY InvStep
<1>3. IInv /\ [Next]_vars => KeepsReservations
  BY StepKeepsReservations
<1> QED BY <1>1, <1>2, <1>3, PTL DEF Spec

-----------------------------------------------------------------------------
(* The broker-outcome adapter. *)


Calls == [at : {"idle", "lookup", "insert", "fill", "recover"},
          outcome : Outcomes \cup {NoOutcome}, next : Nat \ {0}, cost : Int]

\* The part of the state the argument is about, typed.
Typed ==
    /\ ingested \in [Identities -> Outcomes \cup {NoOutcome}]
    /\ inserting \in [Identities -> Workers \cup {NoWorker}]
    /\ call \in [Workers -> Calls]
    /\ \A w \in Workers : call[w].at # "idle" => call[w].outcome \in Outcomes

\* What keeps two transactions from recording under one identity: a worker
\* that fills holds the uncommitted row of its outcome's identity, and that
\* identity has no committed row.
RowHeld ==
    \A w \in Workers : call[w].at = "fill" =>
        /\ inserting[call[w].outcome.identity] = w
        /\ ingested[call[w].outcome.identity] = NoOutcome

OutcomeInv == Typed /\ RowHeld

-----------------------------------------------------------------------------
\* What is sound of the tables besides: only outcomes that were validated are
\* on their way or recorded, and a transaction knows what it will pay.

CostOf(p) == [k \in DOMAIN Commands(p) |-> Commands(p)[k].cost]

RowsTyped ==
    /\ IsFiniteSet(booked)
    /\ \A f \in booked : f.cost \in Int
    /\ \A o \in orders : o.identity \in Identities

Checked ==
    /\ \A w \in Workers : call[w].at # "idle" => validateBrokerOutcome(call[w].outcome)
    /\ \A i \in Identities : ingested[i] # NoOutcome =>
          ingested[i].identity = i /\ validateBrokerOutcome(ingested[i])

\* A transaction that pays holds the account, so the cash it saw is still
\* there when it commits; its cost is that of the commands it has done.
PricedAt(w, c, holder, balance) ==
    /\ c.at \in {"lookup", "insert"} => c.next = 1 /\ c.cost = 0
    /\ c.at = "fill" =>
         /\ c.next <= Len(Commands(c.outcome)) + 1
         /\ c.cost = SumFunctionOnSet(CostOf(c.outcome), 1 .. (c.next - 1))
         /\ IF holder = w THEN balance - c.cost >= 0 ELSE c.next = 1

Priced == \A w \in Workers : PricedAt(w, call[w], account, cash)

WInv ==
    /\ OutcomeTypeOK /\ RowsTyped /\ Checked /\ Priced
    /\ WholeOutcome /\ PaidOnce /\ OkIsRecorded

-----------------------------------------------------------------------------
\* The concatenation of sequences over T is a sequence over T.
LEMMA FlattenType ==
    ASSUME NEW T, NEW n \in Nat, NEW q \in [1 .. n -> Seq(T)]
    PROVE  FlattenSeq(q) \in Seq(T)
<1> DEFINE Joined(g, i) == IF i = 1 THEN q[i] ELSE g[i - 1] \o q[i]
           Upto(m, g) == g = [i \in 1 .. m |-> Joined(g, i)]
           flat == CHOOSE g : Upto(n, g)
<1>1. \E g : Upto(0, g)
  <2> DEFINE g == [i \in 1 .. 0 |-> 0]
  <2>1. Upto(0, g)
    OBVIOUS
  <2> QED BY <2>1
<1>2. ASSUME NEW m \in Nat, NEW g, Upto(m, g) PROVE \E h : Upto(m + 1, h)
  <2> DEFINE h == [i \in 1 .. (m + 1) |-> IF i <= m THEN g[i] ELSE Joined(g, i)]
  <2>1. ASSUME NEW i \in 1 .. (m + 1) PROVE h[i] = Joined(h, i)
    <3>1. ASSUME i # 1 PROVE h[i - 1] = g[i - 1]
      <4>1. i - 1 \in 1 .. (m + 1) /\ i - 1 <= m
        BY <2>1, <3>1
      <4> QED BY <4>1
    <3>2. ASSUME i <= m PROVE h[i] = g[i] /\ g[i] = Joined(g, i)
      <4>1. i \in 1 .. m
        BY <2>1, <3>2
      <4>2. g[i] = Joined(g, i)
        BY <1>2, <4>1
      <4> QED BY <2>1, <3>2, <4>2
    <3>3. ~(i <= m) => h[i] = Joined(g, i)
      BY <2>1
    <3> HIDE DEF h
    <3> QED BY <3>1, <3>2, <3>3
  <2>2. h = [i \in 1 .. (m + 1) |-> h[i]]
    OBVIOUS
  <2> HIDE DEF h
  <2>3. Upto(m + 1, h)
    BY <2>1, <2>2
  <2> QED BY <2>3
<1>3. Upto(n, flat)
  <2> HIDE DEF Upto
  <2> DEFINE P == {m \in Nat : \E g : Upto(m, g)}
  <2>1. P \in SUBSET Nat /\ 0 \in P /\ \A m \in P : m + 1 \in P
    BY <1>1, <1>2
  <2> HIDE DEF P
  <2>2. n \in P
    BY <2>1, NatInductionSet
  <2>3. \E g : Upto(n, g)
    BY <2>2 DEF P
  <2> QED BY <2>3
<1>4. \A i \in 1 .. n : flat[i] = Joined(flat, i)
  <2> HIDE DEF flat
  <2> QED BY <1>3
<1>5. FlattenSeq(q) = IF n = 0 THEN q ELSE flat[n]
  <2>1. Len(q) = n
    OBVIOUS
  <2> QED BY <2>1 DEF FlattenSeq
<1> HIDE DEF flat
<1>6. \A i \in 1 .. n : flat[i] \in Seq(T)
  <2> DEFINE P == {m \in Nat : m \in 1 .. n => flat[m] \in Seq(T)}
  <2>1. ASSUME NEW m \in P PROVE m + 1 \in P
    <3>1. CASE m = 0
      <4>1. m + 1 = 1
        BY <3>1
      <4>2. 1 \in 1 .. n => flat[1] = q[1] /\ q[1] \in Seq(T)
        BY <1>4
      <4> QED BY <4>1, <4>2
    <3>2. CASE m # 0
      <4> SUFFICES ASSUME m + 1 \in 1 .. n PROVE flat[m + 1] \in Seq(T)
        BY <2>1
      <4>1. m \in 1 .. n /\ (m + 1) - 1 = m /\ m + 1 # 1
        BY <2>1, <3>2
      <4>2. flat[m] \in Seq(T) /\ q[m + 1] \in Seq(T)
        BY <2>1, <4>1
      <4>3. flat[m + 1] = flat[m] \o q[m + 1]
        BY <1>4, <4>1
      <4> QED BY <4>2, <4>3
    <3> QED BY <3>1, <3>2
  <2>2. P \in SUBSET Nat /\ 0 \in P
    OBVIOUS
  <2> HIDE DEF P
  <2>3. P = Nat
    BY <2>1, <2>2, NatInductionSet
  <2>4. \A i \in 1 .. n : i \in P
    BY <2>3
  <2> QED BY <2>4 DEF P
<1>7. n = 0 => q \in Seq(T)
  OBVIOUS
<1> QED BY <1>5, <1>6, <1>7

LEMMA IdentityOfOutcome == \A p \in Outcomes : p.identity \in Identities
  BY DEF Identities

\* The commands of an outcome: what the later proofs know of Commands.
LEMMA CommandsType ==
    ASSUME NEW p \in Outcomes
    PROVE  /\ Len(Commands(p)) \in Nat /\ DOMAIN Commands(p) = 1 .. Len(Commands(p))
           /\ \A k \in DOMAIN Commands(p) :
                /\ Commands(p)[k].identity = p.identity
                /\ Commands(p)[k].qty \in Int /\ Commands(p)[k].cost \in Int
<1> DEFINE T == [identity : {p.identity}, intent : {a.intent : a \in Range(p.accepted)},
                 id : {x.id : x \in UNION {Range(a.fills) : a \in Range(p.accepted)}},
                 qty : Int, cost : Int]
           n == Len(p.accepted)
           One(k) == [j \in 1 .. Len(p.accepted[k].fills) |->
                        [identity |-> p.identity, intent |-> p.accepted[k].intent,
                         id |-> p.accepted[k].fills[j].id, qty |-> p.accepted[k].fills[j].qty,
                         cost |-> p.accepted[k].fills[j].cost]]
           q == [k \in 1 .. n |-> One(k)]
<1>1. /\ p.accepted \in Seq(Range(p.accepted))
      /\ \A a \in Range(p.accepted) :
           /\ a.fills \in Seq(Range(a.fills))
           /\ \A x \in Range(a.fills) : x.qty \in Int /\ x.cost \in Int
  BY OutcomeAssumption DEF WellFormed
<1>2. n \in Nat /\ \A k \in 1 .. n : p.accepted[k] \in Range(p.accepted)
  BY <1>1 DEF Range
<1>3. ASSUME NEW k \in 1 .. n PROVE One(k) \in Seq(T)
  <2> DEFINE a == p.accepted[k]
  <2>1. a \in Range(p.accepted) /\ a.fills \in Seq(Range(a.fills)) /\ Len(a.fills) \in Nat
    BY <1>1, <1>2
  <2> HIDE DEF n
  <2>2. ASSUME NEW j \in 1 .. Len(a.fills) PROVE One(k)[j] \in T
    <3>1. a.fills[j] \in Range(a.fills)
      BY <2>1 DEF Range
    <3>2. a.fills[j].qty \in Int /\ a.fills[j].cost \in Int
      BY <1>1, <2>1, <3>1
    <3>3. a.fills[j].id \in {x.id : x \in UNION {Range(o.fills) : o \in Range(p.accepted)}}
      BY <2>1, <3>1
    <3>4. a.intent \in {o.intent : o \in Range(p.accepted)}
      BY <2>1
    <3> QED BY <3>2, <3>3, <3>4
  <2>3. One(k) = [j \in 1 .. Len(a.fills) |-> One(k)[j]]
    OBVIOUS
  <2> HIDE DEF T, One
  <2>4. One(k) \in [1 .. Len(a.fills) -> T]
    BY <2>2, <2>3
  <2> QED BY <2>1, <2>4
<1>4. q \in [1 .. n -> Seq(T)] /\ Commands(p) = FlattenSeq(q)
  <2>1. Commands(p) = FlattenSeq(q)
    BY DEF Commands
  <2> HIDE DEF n, T, One
  <2> QED BY <1>3, <2>1
<1>5. Commands(p) \in Seq(T)
  <2> HIDE DEF n, T, q
  <2> QED BY <1>2, <1>4, FlattenType
<1>6. \A x \in T : x.identity = p.identity /\ x.qty \in Int /\ x.cost \in Int
  OBVIOUS
<1> HIDE DEF T
<1> QED BY <1>5, <1>6

LEMMA OutcomeInvInit == OutcomeInit => OutcomeInv
  BY OutcomeAssumption DEF OutcomeInit, OutcomeInv, Typed, RowHeld, Calls, Idle

\* What Goto and Return leave in call.
LEMMA GotoCall ==
    ASSUME Typed, NEW w \in Workers, NEW a \in {"lookup", "insert", "fill", "recover"},
           call[w].at # "idle", Goto(w, a)
    PROVE  /\ call' \in [Workers -> Calls]
           /\ \A v \in Workers : v # w => call'[v] = call[v]
           /\ call'[w].at = a /\ call'[w].outcome = call[w].outcome
           /\ call'[w].next = call[w].next /\ call'[w].cost = call[w].cost
           /\ call[w].outcome \in Outcomes
<1>1. [call[w] EXCEPT !.at = a] \in Calls
  BY DEF Typed, Calls
<1> QED BY <1>1 DEF Goto, Typed, Calls

LEMMA ReturnCall ==
    ASSUME Typed, NEW w \in Workers, NEW r, Answer(w, r)
    PROVE  /\ call' \in [Workers -> Calls]
           /\ \A v \in Workers : v # w => call'[v] = call[v]
           /\ call'[w].at = "idle"
<1>1. Idle \in Calls /\ Idle.at = "idle"
  BY DEF Idle, Calls
<1> QED BY <1>1 DEF Answer, Typed

\* A step of a worker that does not end in "fill" and takes no row from
\* another worker keeps the invariant.
LEMMA MoveKeeps ==
    ASSUME OutcomeInv, NEW w \in Workers,
           call' \in [Workers -> Calls],
           \A v \in Workers : v # w => call'[v] = call[v],
           call'[w].at # "fill", call'[w].at # "idle" => call'[w].outcome \in Outcomes,
           ingested' = ingested,
           inserting' \in [Identities -> Workers \cup {NoWorker}],
           \A i \in Identities : inserting[i] # w => inserting'[i] = inserting[i]
    PROVE  OutcomeInv'
<1>1. Typed'
  BY DEF OutcomeInv, Typed
<1>2. RowHeld'
  BY IdentityOfOutcome DEF OutcomeInv, Typed, RowHeld
<1> QED BY <1>1, <1>2 DEF OutcomeInv

LEMMA ReleaseRows ==
    ASSUME Typed, NEW w \in Workers, Release(w)
    PROVE  /\ inserting' \in [Identities -> Workers \cup {NoWorker}]
           /\ \A i \in Identities : inserting[i] # w => inserting'[i] = inserting[i]
  BY DEF Typed, Release

\* One step per action.
LEMMA OutcomeInvStep == OutcomeInv /\ [OutcomeNext]_outcomeVars => OutcomeInv'
<1> SUFFICES ASSUME OutcomeInv, [OutcomeNext]_outcomeVars PROVE OutcomeInv'
  OBVIOUS
<1> Typed /\ RowHeld
  BY DEF OutcomeInv
<1>1. ASSUME NEW w \in Workers, NEW p \in Outcomes, Call(w, p) PROVE OutcomeInv'
  <2>0. ingested' = ingested /\ inserting' = inserting
    BY <1>1 DEF Call, tables
  <2>1. CASE call' = [call EXCEPT ![w] = Begun(p)]
    <3>1. Begun(p) \in Calls /\ Begun(p).at = "lookup" /\ Begun(p).outcome = p
      BY DEF Begun, Calls
    <3>2. /\ call' \in [Workers -> Calls] /\ call'[w] = Begun(p)
          /\ \A v \in Workers : v # w => call'[v] = call[v]
      BY <2>1, <3>1 DEF Typed
    <3> QED BY <2>0, <3>1, <3>2, MoveKeeps DEF Typed
  <2>2. CASE Answer(w, "error")
    BY <2>0, <2>2, ReturnCall, MoveKeeps DEF Typed
  <2> QED BY <1>1, <2>1, <2>2 DEF Call
<1>2. ASSUME NEW w \in Workers, Lookup(w) PROVE OutcomeInv'
  <2>0. ingested' = ingested /\ inserting' = inserting /\ call[w].at # "idle"
    BY <1>2 DEF Lookup, tables
  <2>1. CASE Answer(w, "ok")
    BY <2>0, <2>1, ReturnCall, MoveKeeps DEF Typed
  <2>2. ASSUME NEW a \in {"recover", "insert"}, Goto(w, a) PROVE OutcomeInv'
    BY <2>0, <2>2, GotoCall, MoveKeeps DEF Typed
  <2> QED BY <1>2, <2>1, <2>2 DEF Lookup
<1>3. ASSUME NEW w \in Workers, Insert(w) PROVE OutcomeInv'
  <2> DEFINE i == call[w].outcome.identity
  <2>0. ingested' = ingested /\ call[w].at # "idle" /\ inserting[i] = NoWorker
    BY <1>3 DEF Insert, tables
  <2>1. CASE Goto(w, "recover") /\ UNCHANGED inserting
    BY <2>0, <2>1, GotoCall, MoveKeeps DEF Typed
  <2>2. CASE /\ ingested[i] = NoOutcome /\ Goto(w, "fill")
             /\ inserting' = [inserting EXCEPT ![i] = w]
    <3>1. /\ call' \in [Workers -> Calls]
          /\ \A v \in Workers : v # w => call'[v] = call[v]
          /\ call'[w].at = "fill" /\ call'[w].outcome = call[w].outcome
          /\ call[w].outcome \in Outcomes
      BY <2>0, <2>2, GotoCall
    <3>2. i \in Identities
      BY <3>1, IdentityOfOutcome
    <3>3. Typed'
      BY <2>0, <2>2, <3>1, <3>2 DEF Typed
    <3>4. ASSUME NEW v \in Workers, call'[v].at = "fill"
          PROVE /\ inserting'[call'[v].outcome.identity] = v
                /\ ingested'[call'[v].outcome.identity] = NoOutcome
      <4>1. CASE v = w
        BY <2>0, <2>2, <3>1, <3>2, <4>1 DEF Typed
      <4>2. CASE v # w
        <5>1. inserting[call[v].outcome.identity] = v /\ call[v].outcome.identity # i
          BY <2>0, <3>1, <3>4, <4>2, OutcomeAssumption DEF RowHeld
        <5> QED BY <2>0, <2>2, <3>1, <3>4, <4>2, <5>1, IdentityOfOutcome DEF RowHeld, Typed
      <4> QED BY <4>1, <4>2
    <3> QED BY <3>3, <3>4 DEF OutcomeInv, RowHeld
  <2> QED BY <1>3, <2>1, <2>2 DEF Insert
<1>4. ASSUME NEW w \in Workers, ApplyFill(w) PROVE OutcomeInv'
  <2> DEFINE c == Commands(call[w].outcome)[call[w].next]
  <2>0. ingested' = ingested /\ call[w].at = "fill" /\ call[w].outcome \in Outcomes
    BY <1>4 DEF ApplyFill, tables, Typed
  <2>1. CASE UNCHANGED inserting /\ call' = [call EXCEPT ![w].next = @ + 1, ![w].cost = @ + c.cost]
    <3>1. call[w] \in Calls /\ call[w].next \in Nat /\ call[w].cost \in Int
      BY DEF Typed, Calls
    <3>2. call[w].next \in 1 .. Len(Commands(call[w].outcome))
      BY <1>4, <3>1 DEF ApplyFill, Typed, Calls
    <3>3. c.cost \in Int
      BY <2>0, <3>2, CommandsType
    <3> HIDE DEF c
    <3> DEFINE q == [call[w] EXCEPT !.next = call[w].next + 1]
               r == [q EXCEPT !.cost = q.cost + c.cost]
    <3>4. q \in Calls /\ q.at = call[w].at /\ q.outcome = call[w].outcome
      BY <3>1 DEF Calls
    <3>5. r \in Calls /\ r.at = call[w].at /\ r.outcome = call[w].outcome
      <4> HIDE DEF q
      <4> QED BY <3>3, <3>4 DEF Calls
    <3>6. call' = [call EXCEPT ![w] = r]
      BY <2>1 DEF Typed
    <3> HIDE DEF r
    <3>7. /\ call' \in [Workers -> Calls] /\ call'[w] = r
          /\ \A v \in Workers : v # w => call'[v] = call[v]
      BY <3>5, <3>6 DEF Typed
    <3>8. \A v \in Workers : call'[v].at = call[v].at /\ call'[v].outcome = call[v].outcome
      BY <3>5, <3>7
    <3>9. Typed' /\ RowHeld'
      BY <2>0, <2>1, <3>7, <3>8 DEF Typed, RowHeld
    <3> QED BY <3>9 DEF OutcomeInv
  <2>2. CASE Goto(w, "recover") /\ Release(w)
    BY <2>0, <2>2, GotoCall, ReleaseRows, MoveKeeps
  <2> QED BY <1>4, <2>1, <2>2 DEF ApplyFill
<1>5. ASSUME NEW w \in Workers, Commit(w) PROVE OutcomeInv'
  <2> DEFINE i == call[w].outcome.identity
  <2>1. call[w].at = "fill" /\ call[w].outcome \in Outcomes /\ i \in Identities /\ inserting[i] = w
    BY <1>5, IdentityOfOutcome DEF Commit, Typed, RowHeld
  <2>2. Release(w) /\ ingested' = [ingested EXCEPT ![i] = call[w].outcome]
    BY <1>5 DEF Commit
  <2>3. /\ call' \in [Workers -> Calls] /\ call'[w].at \in {"idle", "recover"}
        /\ \A v \in Workers : v # w => call'[v] = call[v]
        /\ call'[w].at # "idle" => call'[w].outcome \in Outcomes
    <3>1. CASE Answer(w, "ok")
      BY <3>1, ReturnCall
    <3>2. CASE Goto(w, "recover")
      BY <2>1, <3>2, GotoCall
    <3> QED BY <1>5, <3>1, <3>2 DEF Commit
  <2>4. Typed'
    BY <2>1, <2>2, <2>3, ReleaseRows DEF Typed
  <2>5. ASSUME NEW v \in Workers, call'[v].at = "fill"
        PROVE /\ inserting'[call'[v].outcome.identity] = v
              /\ ingested'[call'[v].outcome.identity] = NoOutcome
    <3>1. v # w /\ call'[v] = call[v]
      BY <2>3, <2>5
    <3>2. /\ inserting[call[v].outcome.identity] = v /\ call[v].outcome.identity # i
          /\ ingested[call[v].outcome.identity] = NoOutcome
          /\ call[v].outcome.identity \in Identities
      BY <2>1, <2>5, <3>1, IdentityOfOutcome DEF RowHeld, Typed
    <3> QED BY <2>2, <3>1, <3>2, ReleaseRows DEF Typed
  <2> QED BY <2>4, <2>5 DEF OutcomeInv, RowHeld
<1>6. ASSUME NEW w \in Workers, StatementFails(w) PROVE OutcomeInv'
  <2>0. ingested' = ingested /\ call[w].at # "idle" /\ Release(w)
    BY <1>6 DEF StatementFails, tables
  <2>1. CASE Answer(w, "none")
    BY <2>0, <2>1, ReturnCall, ReleaseRows, MoveKeeps
  <2>2. CASE Goto(w, "recover")
    BY <2>0, <2>2, GotoCall, ReleaseRows, MoveKeeps
  <2> QED BY <1>6, <2>1, <2>2 DEF StatementFails
<1>7. ASSUME NEW w \in Workers, Recover(w) PROVE OutcomeInv'
  <2>0. ingested' = ingested /\ inserting' = inserting
    BY <1>7 DEF Recover, tables
  <2>1. PICK r : Answer(w, r)
    BY <1>7 DEF Recover
  <2> QED BY <2>0, <2>1, ReturnCall, MoveKeeps DEF Typed
<1>8. CASE Spend \/ UNCHANGED outcomeVars
  BY <1>8 DEF Spend, outcomeVars, OutcomeInv, Typed, RowHeld
<1> QED BY <1>1, <1>2, <1>3, <1>4, <1>5, <1>6, <1>7, <1>8 DEF OutcomeNext, Step

-----------------------------------------------------------------------------
\* A step is a step of the log: only Commit touches its tables.
LEMMA StepSimulation ==
    OutcomeInv /\ [OutcomeNext]_outcomeVars => [Log!LogNext]_<<ingested, booked>>
<1> SUFFICES ASSUME OutcomeInv, [OutcomeNext]_outcomeVars PROVE [Log!LogNext]_<<ingested, booked>>
  OBVIOUS
<1>1. ASSUME NEW w \in Workers, Commit(w) PROVE Log!LogNext
  <2> DEFINE p == call[w].outcome
  <2>1. p \in Outcomes /\ p.identity \in Identities /\ ingested[p.identity] = NoOutcome
    BY <1>1, IdentityOfOutcome DEF Commit, OutcomeInv, Typed, RowHeld
  <2>2. /\ ingested' = [ingested EXCEPT ![p.identity] = p]
        /\ booked' = booked \cup [q \in Outcomes |-> Range(Commands(q))][p]
    BY <1>1, <2>1 DEF Commit
  <2>3. Log!Record(p.identity, p)
    BY <2>1, <2>2 DEF Log!Record
  <2>4. p \in DOMAIN [q \in Outcomes |-> Range(Commands(q))]
    BY <2>1
  <2> QED BY <2>1, <2>3, <2>4 DEF Log!LogNext
<1>2. ASSUME NEW w \in Workers,
             (\E p \in Outcomes : Call(w, p)) \/ Lookup(w) \/ Insert(w)
             \/ ApplyFill(w) \/ Recover(w) \/ StatementFails(w)
      PROVE UNCHANGED <<ingested, booked>>
  BY <1>2 DEF Call, Lookup, Insert, ApplyFill, Recover, StatementFails, tables
<1>3. Spend \/ UNCHANGED outcomeVars => UNCHANGED <<ingested, booked>>
  BY DEF Spend, outcomeVars
<1> QED BY <1>1, <1>2, <1>3 DEF OutcomeNext, Step

\* The inductive invariant holds: RecordBrokerOutcome never fills an outcome
\* whose identity is recorded or being recorded by somebody else.
THEOREM IngestionsExclusive == OutcomeSpec => []OutcomeInv
<1>1. OutcomeInv /\ [OutcomeNext]_outcomeVars => OutcomeInv'
  BY OutcomeInvStep
<1> QED BY OutcomeInvInit, <1>1, PTL DEF OutcomeSpec

\* RecordBrokerOutcome implements the log of outcomes: whatever the callers,
\* the outcomes and the faults, an identity is recorded once and whole.
THEOREM AdapterImplementsLog == OutcomeSpec => ImplementsLog
<1>1. OutcomeInit => Log!LogInit
  BY DEF OutcomeInit, Log!LogInit
<1>2. OutcomeInv /\ [OutcomeNext]_outcomeVars => [Log!LogNext]_<<ingested, booked>>
  BY StepSimulation
<1> QED BY <1>1, <1>2, IngestionsExclusive, PTL DEF OutcomeSpec, ImplementsLog, Log!LogSpec

-----------------------------------------------------------------------------
(* What is in the ledger.                                                  *)

LEMMA InitWhole == OutcomeInit => WInv
<1> SUFFICES ASSUME OutcomeInit PROVE WInv
  OBVIOUS
<1>1. /\ ingested = [i \in Identities |-> NoOutcome] /\ orders = {} /\ booked = {}
      /\ cash = OpeningCash /\ inserting = [i \in Identities |-> NoWorker] /\ account = NoWorker
      /\ call = [w \in Workers |-> Idle] /\ result = [w \in Workers |-> NoOutcome]
      /\ calls = 0 /\ failures = 0 /\ spends = 0
  BY DEF OutcomeInit
<1>2. /\ NoWorker \notin Workers /\ OpeningCash \in Nat /\ MaxCalls \in Nat
      /\ MaxFailures \in Nat /\ MaxSpends \in Nat
  BY OutcomeAssumption
<1>3. \A w \in Workers : call[w].at = "idle"
  BY <1>1 DEF Idle
<1>4. OutcomeTypeOK
  BY <1>1, <1>2, <1>3 DEF OutcomeTypeOK
<1>5. RowsTyped /\ Checked /\ WholeOutcome /\ OkIsRecorded
  BY <1>1, <1>3, FS_EmptySet DEF RowsTyped, Checked, WholeOutcome, OkIsRecorded
<1>6. Priced
  BY <1>3 DEF Priced, PricedAt
<1>7. PaidOnce
  <2>1. SumFunctionOnSet([f \in booked |-> f.cost], booked) = 0
    BY <1>1, SumEmpty
  <2> QED BY <1>1, <1>2, <2>1 DEF PaidOnce
<1> QED BY <1>4, <1>5, <1>6, <1>7 DEF WInv

\* A step of one worker that leaves the tables and the cash alone.
LEMMA QuietStep ==
    ASSUME WInv, NEW w \in Workers, UNCHANGED tables, UNCHANGED spends,
           call' \in [Workers -> Calls],
           \A v \in Workers : v # w => call'[v] = call[v],
           call'[w].at # "idle" =>
              call'[w].outcome \in Outcomes /\ validateBrokerOutcome(call'[w].outcome),
           PricedAt(w, call'[w], account', cash),
           inserting' \in [Identities -> Workers \cup {NoWorker}],
           \A i \in Identities : inserting'[i] \in {inserting[i], w, NoWorker},
           account' \in {account, w, NoWorker},
           account' # account => account \in {w, NoWorker},
           call'[w].at # "fill" => account' # w /\ \A i \in Identities : inserting'[i] # w,
           result' \in [Workers -> Outcomes \cup {NoOutcome}],
           \A v \in Workers : v # w => result'[v] = result[v],
           result'[w] # NoOutcome => ingested[result'[w].identity] = result'[w],
           calls' \in 0 .. MaxCalls, failures' \in 0 .. MaxFailures
    PROVE  WInv'
<1>0. NoWorker \notin Workers
  BY OutcomeAssumption
<1>1. ingested' = ingested /\ orders' = orders /\ booked' = booked /\ cash' = cash /\ spends' = spends
  BY DEF tables
<1>2. OutcomeTypeOK'
  <2>1. ASSUME NEW v \in Workers
        PROVE  /\ call'[v].at \in {"idle", "lookup", "insert", "fill", "recover"}
               /\ call'[v].at # "idle" => call'[v].outcome \in Outcomes
               /\ (\E i \in Identities : inserting'[i] = v) => call'[v].at = "fill"
               /\ account' = v => call'[v].at = "fill"
    <3>1. CASE v = w
      BY <3>1 DEF Calls
    <3>2. CASE v # w
      BY <1>0, <3>2 DEF WInv, OutcomeTypeOK
    <3> QED BY <3>1, <3>2
  <2>2. cash' \in Nat /\ account' \in Workers \cup {NoWorker} /\ spends' \in 0 .. MaxSpends
        /\ ingested' \in [Identities -> Outcomes \cup {NoOutcome}]
    BY <1>1 DEF WInv, OutcomeTypeOK
  <2> QED BY <2>1, <2>2 DEF OutcomeTypeOK
<1>3. RowsTyped' /\ WholeOutcome' /\ PaidOnce'
  BY <1>1 DEF WInv, RowsTyped, WholeOutcome, PaidOnce
<1>4. Checked'
  BY <1>1 DEF WInv, Checked
<1>5. Priced'
  <2>1. ASSUME NEW v \in Workers PROVE PricedAt(v, call'[v], account', cash')
    <3>1. CASE v = w
      BY <1>1, <3>1
    <3>2. CASE v # w
      <4>1. (account' = v) <=> (account = v)
        BY <1>0, <3>2
      <4>2. PricedAt(v, call[v], account, cash)
        BY DEF WInv, Priced
      <4> QED BY <1>1, <3>2, <4>1, <4>2 DEF PricedAt
    <3> QED BY <3>1, <3>2
  <2> QED BY <2>1 DEF Priced
<1>6. OkIsRecorded'
  BY <1>1 DEF WInv, OkIsRecorded
<1> QED BY <1>2, <1>3, <1>4, <1>5, <1>6 DEF WInv

\* What Release leaves of the locks.
LEMMA ReleaseLocks ==
    ASSUME Typed, OutcomeTypeOK, NEW w \in Workers, Release(w)
    PROVE  /\ inserting' \in [Identities -> Workers \cup {NoWorker}]
           /\ \A i \in Identities : inserting'[i] \in {inserting[i], NoWorker} /\ inserting'[i] # w
           /\ \A i \in Identities : inserting[i] # w => inserting'[i] = inserting[i]
           /\ account' \in {account, NoWorker} /\ account' # w
           /\ account' # account => account = w
BY OutcomeAssumption DEF Typed, OutcomeTypeOK, Release

\* What Return leaves of the results.
LEMMA ReturnResult ==
    ASSUME Typed, OutcomeTypeOK, NEW w \in Workers, NEW r, Answer(w, r), call[w].at # "idle" \/ r # "ok"
    PROVE  /\ result' \in [Workers -> Outcomes \cup {NoOutcome}]
           /\ \A v \in Workers : v # w => result'[v] = result[v]
           /\ result'[w] = IF r = "ok" THEN call[w].outcome ELSE NoOutcome
BY DEF Typed, OutcomeTypeOK, Answer

\* A worker that is not filling holds no lock.
LEMMA NoLocks ==
    ASSUME OutcomeTypeOK, NEW w \in Workers, call[w].at # "fill"
    PROVE  account # w /\ \A i \in Identities : inserting[i] # w
BY DEF OutcomeTypeOK

\* Steps that only return: the worker had no lock, or released it.
LEMMA ReturnWhole ==
    ASSUME OutcomeInv, WInv, NEW w \in Workers, NEW r, Answer(w, r), UNCHANGED <<tables, spends>>,
           call[w].at # "idle" \/ r # "ok",
           r = "ok" => ingested[call[w].outcome.identity] = call[w].outcome,
           (UNCHANGED <<inserting, account>> /\ call[w].at # "fill") \/ Release(w),
           calls' \in 0 .. MaxCalls, failures' \in 0 .. MaxFailures
    PROVE  WInv'
<1>0. Typed /\ OutcomeTypeOK /\ NoWorker \notin Workers
  BY OutcomeAssumption DEF OutcomeInv, WInv
<1>1. /\ call' \in [Workers -> Calls] /\ \A v \in Workers : v # w => call'[v] = call[v]
      /\ call'[w].at = "idle"
  BY <1>0, ReturnCall
<1>2. /\ result' \in [Workers -> Outcomes \cup {NoOutcome}]
      /\ \A v \in Workers : v # w => result'[v] = result[v]
      /\ result'[w] = IF r = "ok" THEN call[w].outcome ELSE NoOutcome
  BY <1>0, ReturnResult
<1>3. /\ inserting' \in [Identities -> Workers \cup {NoWorker}]
      /\ \A i \in Identities : inserting'[i] \in {inserting[i], w, NoWorker} /\ inserting'[i] # w
      /\ account' \in {account, w, NoWorker} /\ account' # w
      /\ account' # account => account \in {w, NoWorker}
  <2>1. CASE Release(w)
    BY <1>0, <2>1, ReleaseLocks
  <2>2. CASE UNCHANGED <<inserting, account>> /\ call[w].at # "fill"
    BY <1>0, <2>2, NoLocks DEF OutcomeTypeOK
  <2> QED BY <2>1, <2>2
<1>4. PricedAt(w, call'[w], account', cash)
  BY <1>1 DEF PricedAt
<1> QED BY <1>1, <1>2, <1>3, <1>4, QuietStep

\* Steps that go on without the account: to look up again, insert or recover.
LEMMA GotoWhole ==
    ASSUME OutcomeInv, WInv, NEW w \in Workers, NEW a \in {"insert", "recover"}, Goto(w, a),
           UNCHANGED <<tables, spends, result>>, call[w].at # "idle",
           a = "insert" => call[w].at = "lookup",
           (UNCHANGED <<inserting, account>> /\ call[w].at # "fill") \/ Release(w),
           calls' \in 0 .. MaxCalls, failures' \in 0 .. MaxFailures
    PROVE  WInv'
<1>0. Typed /\ OutcomeTypeOK /\ NoWorker \notin Workers
  BY OutcomeAssumption DEF OutcomeInv, WInv
<1>1. /\ call' \in [Workers -> Calls] /\ \A v \in Workers : v # w => call'[v] = call[v]
      /\ call'[w].at = a /\ call'[w].outcome = call[w].outcome /\ call[w].outcome \in Outcomes
      /\ call'[w].next = call[w].next /\ call'[w].cost = call[w].cost
  BY <1>0, GotoCall
<1>2. /\ result' \in [Workers -> Outcomes \cup {NoOutcome}]
      /\ \A v \in Workers : result'[v] = result[v]
      /\ result'[w] # NoOutcome => ingested[result'[w].identity] = result'[w]
  BY <1>0 DEF OutcomeTypeOK, WInv, OkIsRecorded
<1>3. /\ inserting' \in [Identities -> Workers \cup {NoWorker}]
      /\ \A i \in Identities : inserting'[i] \in {inserting[i], w, NoWorker} /\ inserting'[i] # w
      /\ account' \in {account, w, NoWorker} /\ account' # w
      /\ account' # account => account \in {w, NoWorker}
  <2>1. CASE Release(w)
    BY <1>0, <2>1, ReleaseLocks
  <2>2. CASE UNCHANGED <<inserting, account>> /\ call[w].at # "fill"
    BY <1>0, <2>2, NoLocks DEF OutcomeTypeOK
  <2> QED BY <2>1, <2>2
<1>4. PricedAt(w, call'[w], account', cash)
  BY <1>1 DEF PricedAt, WInv, Priced
<1>5. validateBrokerOutcome(call'[w].outcome)
  BY <1>1 DEF WInv, Checked
<1> QED BY <1>1, <1>2, <1>3, <1>4, <1>5, QuietStep

-----------------------------------------------------------------------------
(* One lemma per action.                                                   *)

LEMMA CallWhole ==
    ASSUME OutcomeInv, WInv, NEW w \in Workers, NEW p \in Outcomes, Call(w, p)
    PROVE  WInv'
<1>0. Typed /\ OutcomeTypeOK /\ UNCHANGED <<tables, inserting, account, failures, spends>> /\ call[w].at = "idle"
  BY DEF OutcomeInv, WInv, Call
<1>1. calls' \in 0 .. MaxCalls /\ failures' \in 0 .. MaxFailures
  <2>1. MaxCalls \in Nat
    BY OutcomeAssumption
  <2> QED BY <1>0, <2>1 DEF OutcomeTypeOK, Call
<1>2. CASE Answer(w, "error")
  BY <1>0, <1>1, <1>2, ReturnWhole
<1>3. CASE /\ validateBrokerOutcome(p) /\ call' = [call EXCEPT ![w] = Begun(p)]
           /\ result' = [result EXCEPT ![w] = NoOutcome]
  <2>1. Begun(p) \in Calls /\ Begun(p).at = "lookup" /\ Begun(p).outcome = p
        /\ Begun(p).next = 1 /\ Begun(p).cost = 0
    BY DEF Begun, Calls
  <2>2. /\ call' \in [Workers -> Calls] /\ call'[w] = Begun(p)
        /\ \A v \in Workers : v # w => call'[v] = call[v]
    BY <1>0, <1>3, <2>1 DEF Typed
  <2>3. /\ result' \in [Workers -> Outcomes \cup {NoOutcome}] /\ result'[w] = NoOutcome
        /\ \A v \in Workers : v # w => result'[v] = result[v]
    BY <1>0, <1>3 DEF OutcomeTypeOK
  <2>4. account # w /\ \A i \in Identities : inserting[i] # w
    BY <1>0, NoLocks
  <2>5. PricedAt(w, call'[w], account', cash)
    BY <2>1, <2>2 DEF PricedAt
  <2>6. inserting \in [Identities -> Workers \cup {NoWorker}]
    BY <1>0 DEF OutcomeTypeOK
  <2> QED BY <1>0, <1>1, <1>3, <2>1, <2>2, <2>3, <2>4, <2>5, <2>6, QuietStep
<1> QED BY <1>2, <1>3 DEF Call

LEMMA LookupWhole ==
    ASSUME OutcomeInv, WInv, NEW w \in Workers, Lookup(w)
    PROVE  WInv'
<1>0. /\ OutcomeTypeOK /\ UNCHANGED <<tables, inserting, account, calls, failures, spends>>
      /\ call[w].at = "lookup"
  BY DEF WInv, Lookup
<1>1. calls' \in 0 .. MaxCalls /\ failures' \in 0 .. MaxFailures
  BY <1>0 DEF OutcomeTypeOK
<1>2. CASE ingested[call[w].outcome.identity] = call[w].outcome /\ Answer(w, "ok")
  BY <1>0, <1>1, <1>2, ReturnWhole
<1>3. ASSUME NEW a \in {"recover", "insert"}, Goto(w, a), UNCHANGED result PROVE WInv'
  BY <1>0, <1>1, <1>3, GotoWhole
<1> QED BY <1>2, <1>3 DEF Lookup

LEMMA InsertWhole ==
    ASSUME OutcomeInv, WInv, NEW w \in Workers, Insert(w)
    PROVE  WInv'
<1> DEFINE i == call[w].outcome.identity
<1>0. /\ Typed /\ OutcomeTypeOK /\ UNCHANGED <<tables, account, result, calls, failures, spends>>
      /\ call[w].at = "insert"
  BY DEF OutcomeInv, WInv, Insert
<1>1. calls' \in 0 .. MaxCalls /\ failures' \in 0 .. MaxFailures
  BY <1>0 DEF OutcomeTypeOK
<1>2. CASE Goto(w, "recover") /\ UNCHANGED inserting
  BY <1>0, <1>1, <1>2, GotoWhole
<1>3. CASE Goto(w, "fill") /\ inserting' = [inserting EXCEPT ![i] = w]
  <2>1. /\ call' \in [Workers -> Calls] /\ \A v \in Workers : v # w => call'[v] = call[v]
        /\ call'[w].at = "fill" /\ call'[w].outcome = call[w].outcome /\ call[w].outcome \in Outcomes
        /\ call'[w].next = call[w].next /\ call'[w].cost = call[w].cost
    BY <1>0, <1>3, GotoCall
  <2>2. i \in Identities
    BY <2>1, IdentityOfOutcome
  <2>3. /\ inserting' \in [Identities -> Workers \cup {NoWorker}]
        /\ \A j \in Identities : inserting'[j] \in {inserting[j], w, NoWorker}
    BY <1>0, <1>3, <2>2 DEF OutcomeTypeOK
  <2>4. call[w].next = 1 /\ call[w].cost = 0 /\ account # w
    BY <1>0, NoLocks DEF WInv, Priced, PricedAt
  <2>5. PricedAt(w, call'[w], account', cash)
    <3>1. 1 .. (call'[w].next - 1) = {}
      BY <2>1, <2>4
    <3>2. Len(Commands(call'[w].outcome)) \in Nat
      BY <2>1, CommandsType
    <3>3. call'[w].next <= Len(Commands(call'[w].outcome)) + 1
      BY <2>1, <2>4, <3>2
    <3>4. call'[w].cost = SumFunctionOnSet(CostOf(call'[w].outcome), 1 .. (call'[w].next - 1))
      BY <2>1, <2>4, <3>1, SumEmpty
    <3> QED BY <1>0, <2>1, <2>4, <3>3, <3>4 DEF PricedAt
  <2>6. /\ result' \in [Workers -> Outcomes \cup {NoOutcome}]
        /\ \A v \in Workers : result'[v] = result[v]
        /\ result'[w] # NoOutcome => ingested[result'[w].identity] = result'[w]
    BY <1>0 DEF OutcomeTypeOK, WInv, OkIsRecorded
  <2>7. validateBrokerOutcome(call'[w].outcome)
    BY <1>0, <2>1 DEF WInv, Checked
  <2> QED BY <1>0, <1>1, <2>1, <2>3, <2>5, <2>6, <2>7, QuietStep
<1> QED BY <1>2, <1>3 DEF Insert

LEMMA FillWhole ==
    ASSUME OutcomeInv, WInv, NEW w \in Workers, ApplyFill(w)
    PROVE  WInv'
<1> DEFINE p == call[w].outcome
           n == call[w].next
           c == Commands(p)[n]
<1>0. /\ Typed /\ OutcomeTypeOK /\ UNCHANGED <<tables, result, calls, failures, spends>>
      /\ call[w].at = "fill" /\ n <= Len(Commands(p)) /\ account \in {NoWorker, w}
  BY DEF OutcomeInv, WInv, ApplyFill
<1>1. calls' \in 0 .. MaxCalls /\ failures' \in 0 .. MaxFailures
  BY <1>0 DEF OutcomeTypeOK
<1>2. CASE Goto(w, "recover") /\ Release(w)
  BY <1>0, <1>1, <1>2, GotoWhole
<1>3. CASE /\ ~Refused(w, c) /\ account' = w /\ UNCHANGED inserting
           /\ call' = [call EXCEPT ![w].next = @ + 1, ![w].cost = @ + c.cost]
  <2>1. /\ p \in Outcomes /\ n \in Nat /\ n # 0 /\ call[w].cost \in Int /\ call[w] \in Calls
        /\ validateBrokerOutcome(p)
    BY <1>0 DEF Typed, Calls, WInv, Checked
  <2>2. /\ Len(Commands(p)) \in Nat /\ DOMAIN Commands(p) = 1 .. Len(Commands(p))
        /\ \A k \in DOMAIN Commands(p) : Commands(p)[k].cost \in Int
    BY <2>1, CommandsType
  <2>3. n \in 1 .. Len(Commands(p)) /\ c.cost \in Int
    BY <1>0, <2>1, <2>2
  <2> DEFINE q == [call[w] EXCEPT !.next = n + 1]
             r == [q EXCEPT !.cost = q.cost + c.cost]
  <2>4. call' = [call EXCEPT ![w] = r]
    BY <1>3 DEF Typed
  <2>5. q \in Calls /\ q.at = "fill" /\ q.outcome = p /\ q.next = n + 1 /\ q.cost = call[w].cost
    BY <1>0, <2>1 DEF Calls
  <2> HIDE DEF p, n, c, q
  <2>6. r \in Calls /\ r.at = "fill" /\ r.outcome = p /\ r.next = n + 1
        /\ r.cost = call[w].cost + c.cost
    BY <2>1, <2>3, <2>5 DEF Calls
  <2> HIDE DEF r
  <2>7. /\ call' \in [Workers -> Calls] /\ call'[w] = r
        /\ \A v \in Workers : v # w => call'[v] = call[v]
    BY <1>0, <2>4, <2>6 DEF Typed
  <2>8. r.cost = SumFunctionOnSet(CostOf(p), 1 .. (r.next - 1))
    <3> DEFINE D == 1 .. (n - 1)
    <3>1. IsFiniteSet(D)
      BY <2>1, FS_Interval
    <3>2. n \notin D /\ 1 .. ((n + 1) - 1) = D \cup {n}
      BY <2>1
    <3>3. (\A k \in D \cup {n} : CostOf(p)[k] \in Int) /\ CostOf(p)[n] = c.cost
      BY <2>1, <2>2, <2>3 DEF CostOf, c
    <3>4. call[w].cost = SumFunctionOnSet(CostOf(p), D)
      BY <1>0 DEF WInv, Priced, PricedAt, n, p
    <3> HIDE DEF D
    <3>5. SumFunctionOnSet(CostOf(p), D \cup {n}) = SumFunctionOnSet(CostOf(p), D) + CostOf(p)[n]
      BY <3>1, <3>2, <3>3, SumAdd
    <3> QED BY <2>6, <3>2, <3>3, <3>4, <3>5
  <2>9. cash - r.cost >= 0
    <3>1. cash \in Nat
      BY <1>0 DEF OutcomeTypeOK
    <3>2. ~(cash - call[w].cost - c.cost < 0)
      BY <1>3 DEF Refused
    <3> QED BY <2>1, <2>3, <2>6, <3>1, <3>2
  <2>10. PricedAt(w, call'[w], account', cash)
    <3>1. r.next <= Len(Commands(p)) + 1
      BY <1>0, <2>1, <2>2, <2>6 DEF n, p
    <3> QED BY <1>3, <2>6, <2>7, <2>8, <2>9, <3>1 DEF PricedAt
  <2>11. /\ result' \in [Workers -> Outcomes \cup {NoOutcome}]
         /\ \A v \in Workers : result'[v] = result[v]
         /\ result'[w] # NoOutcome => ingested[result'[w].identity] = result'[w]
    BY <1>0 DEF OutcomeTypeOK, WInv, OkIsRecorded
  <2>12. /\ inserting' \in [Identities -> Workers \cup {NoWorker}]
         /\ \A j \in Identities : inserting'[j] = inserting[j]
    BY <1>0, <1>3 DEF OutcomeTypeOK
  <2> QED BY <1>0, <1>1, <1>3, <2>1, <2>6, <2>7, <2>10, <2>11, <2>12, QuietStep
<1> QED BY <1>2, <1>3 DEF ApplyFill

LEMMA FaultWhole ==
    ASSUME OutcomeInv, WInv, NEW w \in Workers, StatementFails(w)
    PROVE  WInv'
<1>0. /\ OutcomeTypeOK /\ UNCHANGED <<tables, calls, spends>> /\ call[w].at # "idle" /\ Release(w)
  BY DEF WInv, StatementFails
<1>1. calls' \in 0 .. MaxCalls /\ failures' \in 0 .. MaxFailures
  <2>1. MaxFailures \in Nat
    BY OutcomeAssumption
  <2> QED BY <1>0, <2>1 DEF OutcomeTypeOK, StatementFails
<1>2. CASE Answer(w, "none")
  BY <1>0, <1>1, <1>2, ReturnWhole
<1>3. CASE Goto(w, "recover") /\ UNCHANGED result
  BY <1>0, <1>1, <1>3, GotoWhole
<1> QED BY <1>2, <1>3 DEF StatementFails

LEMMA RecoverWhole ==
    ASSUME OutcomeInv, WInv, NEW w \in Workers, Recover(w)
    PROVE  WInv'
<1>0. /\ OutcomeTypeOK /\ UNCHANGED <<tables, inserting, account, calls, failures, spends>>
      /\ call[w].at = "recover"
  BY DEF WInv, Recover
<1>1. calls' \in 0 .. MaxCalls /\ failures' \in 0 .. MaxFailures
  BY <1>0 DEF OutcomeTypeOK
<1>2. CASE ingested[call[w].outcome.identity] = call[w].outcome
  <2>1. Answer(w, "ok")
    BY <1>2 DEF Recover
  <2> QED BY <1>0, <1>1, <1>2, <2>1, ReturnWhole
<1>3. CASE ingested[call[w].outcome.identity] # call[w].outcome
  <2>1. Answer(w, "error")
    BY <1>3 DEF Recover
  <2> QED BY <1>0, <1>1, <2>1, ReturnWhole
<1> QED BY <1>2, <1>3

\* What validateBrokerOutcome established of the commands: they are distinct,
\* so a sum over them is a sum over their set.
LEMMA CommandsDistinct ==
    ASSUME NEW p \in Outcomes, validateBrokerOutcome(p)
    PROVE  /\ \A j, k \in DOMAIN Commands(p) : Commands(p)[j] = Commands(p)[k] => j = k
           /\ IsFiniteSet(DOMAIN Commands(p))
           /\ Range(Commands(p)) = {Commands(p)[k] : k \in DOMAIN Commands(p)}
<1> DEFINE ids == [k \in 1 .. Len(Commands(p)) |-> Commands(p)[k].id]
<1>1. Len(Commands(p)) \in Nat /\ DOMAIN Commands(p) = 1 .. Len(Commands(p))
  BY CommandsType
<1>2. IsInjective(ids)
  BY DEF validateBrokerOutcome
<1>3. \A j, k \in 1 .. Len(Commands(p)) : ids[j] = ids[k] => j = k
  BY <1>2 DEF IsInjective
<1>4. IsFiniteSet(1 .. Len(Commands(p)))
  BY <1>1, FS_Interval
<1> QED BY <1>1, <1>3, <1>4 DEF Range

\* The transaction commits.
LEMMA CommitWhole ==
    ASSUME OutcomeInv, WInv, NEW w \in Workers, Commit(w)
    PROVE  WInv'
<1> DEFINE p == call[w].outcome
           i == p.identity
           D == DOMAIN Commands(p)
           R == Range(Commands(p))
           G == [f \in booked \cup R |-> f.cost]
           cost == call[w].cost
<1>0. NoWorker \notin Workers /\ NoOutcome \notin Outcomes /\ MaxFailures \in Nat
  BY OutcomeAssumption
<1>1. /\ Typed /\ OutcomeTypeOK /\ call[w].at = "fill" /\ call[w].next > Len(Commands(p))
      /\ ingested' = [ingested EXCEPT ![i] = p] /\ orders' = orders \cup OrderRows(p)
      /\ booked' = booked \cup R /\ cash' = cash - cost /\ Release(w)
      /\ UNCHANGED <<calls, spends>>
  BY DEF OutcomeInv, WInv, Commit
<1>2. /\ p \in Outcomes /\ i \in Identities /\ ingested[i] = NoOutcome
      /\ validateBrokerOutcome(p) /\ cost \in Int /\ call[w].next \in Nat
  BY <1>1, IdentityOfOutcome DEF Typed, Calls, OutcomeInv, RowHeld, WInv, Checked
<1>3. /\ Len(Commands(p)) \in Nat /\ D = 1 .. Len(Commands(p))
      /\ \A k \in D : Commands(p)[k].identity = i /\ Commands(p)[k].cost \in Int
  BY <1>2, CommandsType
<1>4. /\ \A j, k \in D : Commands(p)[j] = Commands(p)[k] => j = k
      /\ IsFiniteSet(D) /\ R = {Commands(p)[k] : k \in D}
  BY <1>2, CommandsDistinct
<1>5. /\ cost = SumFunctionOnSet(CostOf(p), D)
      /\ account # w => cost = 0
  <2>1. /\ call[w].next <= Len(Commands(p)) + 1
        /\ cost = SumFunctionOnSet(CostOf(p), 1 .. (call[w].next - 1))
        /\ account # w => call[w].next = 1
    BY <1>1 DEF WInv, Priced, PricedAt
  <2>2. 1 .. (call[w].next - 1) = D
    BY <1>1, <1>2, <1>3, <2>1
  <2>3. call[w].next = 1 => 1 .. (call[w].next - 1) = {}
    OBVIOUS
  <2>4. SumFunctionOnSet(CostOf(p), {}) = 0
    BY SumEmpty
  <2> QED BY <2>1, <2>2, <2>3, <2>4
<1>6. /\ \A x \in R : x.identity = i /\ x.cost \in Int
      /\ \A x \in booked : x.identity # i /\ x.cost \in Int
      /\ IsFiniteSet(booked)
  <2>1. {f \in booked : f.identity = i} = {}
    BY <1>2 DEF WInv, WholeOutcome
  <2> QED BY <1>3, <1>4, <2>1 DEF WInv, RowsTyped
<1>7. IsFiniteSet(R) /\ cost = SumFunctionOnSet(G, R)
  <2>1. D \in SUBSET D /\ \A k \in D : CostOf(p)[k] = G[Commands(p)[k]] /\ CostOf(p)[k] \in Int
    BY <1>3, <1>4 DEF CostOf
  <2> DEFINE F == CostOf(p)
             s == Commands(p)
  <2>2. \A k \in D : F[k] = IF k \in D THEN G[s[k]] ELSE 0
    BY <2>1
  <2>3. \A k \in D : F[k] \in Int
    BY <2>1
  <2>4. \A j, k \in D : s[j] = s[k] => j = k
    BY <1>4
  <2>5. IsFiniteSet(D) /\ D \in SUBSET D
    BY <1>4
  <2>6. R = {s[k] : k \in D}
    BY <1>4
  <2>7. cost = SumFunctionOnSet(F, D)
    BY <1>5
  <2> HIDE DEF F, s, G, D, R, p, cost
  <2>8. IsFiniteSet(R)
    BY <2>5, <2>6, FiniteImage
  <2>9. SumFunctionOnSet(F, D) = SumFunctionOnSet(G, {s[k] : k \in D})
    BY ONLY <2>2, <2>3, <2>4, <2>5, SumImage
  <2>10. SumFunctionOnSet(F, D) = SumFunctionOnSet(G, R)
    BY ONLY <2>6, <2>9
  <2> QED BY <2>7, <2>8, <2>10
<1>8. /\ call' \in [Workers -> Calls] /\ call'[w].at \in {"idle", "recover"}
      /\ \A v \in Workers : v # w => call'[v] = call[v]
      /\ call'[w].at # "idle" => call'[w].outcome = p
      /\ result' \in [Workers -> Outcomes \cup {NoOutcome}]
      /\ \A v \in Workers : v # w => result'[v] = result[v]
      /\ result'[w] \in {p, result[w]}
      /\ failures' \in 0 .. MaxFailures
  <2>1. CASE Answer(w, "ok") /\ UNCHANGED failures
    <3>1. /\ call' \in [Workers -> Calls] /\ \A v \in Workers : v # w => call'[v] = call[v]
          /\ call'[w].at = "idle"
      BY <1>1, <2>1, ReturnCall
    <3>2. /\ result' \in [Workers -> Outcomes \cup {NoOutcome}]
          /\ \A v \in Workers : v # w => result'[v] = result[v]
          /\ result'[w] = p
      BY <1>1, <2>1, ReturnResult
    <3> QED BY <1>1, <2>1, <3>1, <3>2 DEF OutcomeTypeOK
  <2>2. CASE failures < MaxFailures /\ failures' = failures + 1 /\ Goto(w, "recover") /\ UNCHANGED result
    <3>1. /\ call' \in [Workers -> Calls] /\ \A v \in Workers : v # w => call'[v] = call[v]
          /\ call'[w].at = "recover" /\ call'[w].outcome = p
      BY <1>1, <2>2, GotoCall
    <3>2. failures' \in 0 .. MaxFailures
      BY <1>0, <1>1, <2>2 DEF OutcomeTypeOK
    <3> QED BY <1>1, <2>2, <3>1, <3>2 DEF OutcomeTypeOK
  <2> QED BY <2>1, <2>2 DEF Commit
<1>9. /\ inserting' \in [Identities -> Workers \cup {NoWorker}]
      /\ \A j \in Identities : inserting'[j] \in {inserting[j], NoWorker} /\ inserting'[j] # w
      /\ account' \in {account, NoWorker} /\ account' # w
      /\ account' # account => account = w
  BY <1>1, ReleaseLocks
<1>10. cash' \in Nat /\ (account # w => cash' = cash)
  <2>1. cash \in Nat
    BY <1>1 DEF OutcomeTypeOK
  <2>2. account = w => cash - cost >= 0
    BY <1>1 DEF WInv, Priced, PricedAt
  <2> HIDE DEF cost
  <2> QED BY <1>1, <1>2, <1>5, <2>1, <2>2
<1>11. /\ ingested' \in [Identities -> Outcomes \cup {NoOutcome}] /\ ingested'[i] = p
       /\ \A j \in Identities : j # i => ingested'[j] = ingested[j]
  BY <1>1, <1>2 DEF OutcomeTypeOK
<1> HIDE DEF p, i, D, R, G, cost
<1>12. OutcomeTypeOK'
  <2>1. ASSUME NEW v \in Workers
        PROVE  /\ call'[v].at \in {"idle", "lookup", "insert", "fill", "recover"}
               /\ call'[v].at # "idle" => call'[v].outcome \in Outcomes
               /\ (\E j \in Identities : inserting'[j] = v) => call'[v].at = "fill"
               /\ account' = v => call'[v].at = "fill"
    <3>1. CASE v = w
      BY <1>2, <1>8, <1>9, <3>1
    <3>2. CASE v # w
      BY <1>0, <1>1, <1>8, <1>9, <3>2 DEF OutcomeTypeOK
    <3> QED BY <3>1, <3>2
  <2>2. account' \in Workers \cup {NoWorker} /\ spends' \in 0 .. MaxSpends /\ calls' \in 0 .. MaxCalls
    BY <1>1, <1>9 DEF OutcomeTypeOK
  <2> QED BY <1>8, <1>9, <1>10, <1>11, <2>1, <2>2 DEF OutcomeTypeOK
<1>13. \A o \in OrderRows(p) : o.identity = i
  BY DEF OrderRows, i
<1>14. RowsTyped'
  <2>1. IsFiniteSet(booked \cup R)
    BY <1>6, <1>7, FS_Union
  <2> QED BY <1>1, <1>2, <1>6, <1>13, <2>1 DEF RowsTyped, WInv
<1>15. Checked'
  <2>1. \A v \in Workers : call'[v].at # "idle" => validateBrokerOutcome(call'[v].outcome)
    BY <1>2, <1>8 DEF WInv, Checked
  <2>2. \A j \in Identities : ingested'[j] # NoOutcome =>
           ingested'[j].identity = j /\ validateBrokerOutcome(ingested'[j])
    BY <1>2, <1>11 DEF WInv, Checked, i
  <2> QED BY <2>1, <2>2 DEF Checked
<1>16. Priced'
  <2>1. ASSUME NEW v \in Workers PROVE PricedAt(v, call'[v], account', cash')
    <3>1. CASE v = w
      BY <1>8, <3>1 DEF PricedAt
    <3>2. CASE v # w
      <4>1. (account' = v <=> account = v) /\ (account = v => cash' = cash)
        BY <1>0, <1>9, <1>10, <3>2
      <4>2. PricedAt(v, call[v], account, cash)
        BY DEF WInv, Priced
      <4> QED BY <1>8, <3>2, <4>1, <4>2 DEF PricedAt
    <3> QED BY <3>1, <3>2
  <2> QED BY <2>1 DEF Priced
<1>17. WholeOutcome'
  <2>1. ASSUME NEW j \in Identities
        PROVE  /\ {f \in booked' : f.identity = j} =
                     IF ingested'[j] = NoOutcome THEN {} ELSE Range(Commands(ingested'[j]))
               /\ {o \in orders' : o.identity = j} =
                     IF ingested'[j] = NoOutcome THEN {} ELSE OrderRows(ingested'[j])
    <3>1. /\ {f \in booked : f.identity = j} =
                IF ingested[j] = NoOutcome THEN {} ELSE Range(Commands(ingested[j]))
          /\ {o \in orders : o.identity = j} =
                IF ingested[j] = NoOutcome THEN {} ELSE OrderRows(ingested[j])
      BY DEF WInv, WholeOutcome
    <3>2. CASE j = i
      <4>1. {f \in booked' : f.identity = j} = R
        BY <1>1, <1>6, <3>2
      <4>2. {o \in orders : o.identity = j} = {}
        BY <1>2, <3>1, <3>2
      <4>3. {o \in orders' : o.identity = j} = OrderRows(p)
        BY <1>1, <1>13, <3>2, <4>2
      <4> QED BY <1>0, <1>2, <1>11, <3>2, <4>1, <4>3 DEF R
    <3>3. CASE j # i
      <4>1. {f \in booked' : f.identity = j} = {f \in booked : f.identity = j}
        BY <1>1, <1>6, <3>3
      <4>2. {o \in orders' : o.identity = j} = {o \in orders : o.identity = j}
        BY <1>1, <1>13, <3>3
      <4> QED BY <1>11, <3>1, <3>3, <4>1, <4>2
    <3> QED BY <3>2, <3>3
  <2> QED BY <2>1 DEF WholeOutcome
<1>18. PaidOnce'
  <2> DEFINE H == [f \in booked |-> f.cost]
  <2>1. booked \cap R = {} /\ \A x \in booked \cup R : G[x] \in Int
    BY <1>6 DEF G
  <2>2. SumFunctionOnSet(G, booked \cup R) = SumFunctionOnSet(G, booked) + SumFunctionOnSet(G, R)
    BY <1>6, <1>7, <2>1, SumUnion
  <2>3. SumFunctionOnSet(G, booked) = SumFunctionOnSet(H, booked)
    <3>1. \A x \in booked : G[x] = H[x]
      BY DEF G
    <3> HIDE DEF H
    <3> QED BY <1>6, <3>1, SumSame
  <2>4. SumFunctionOnSet(H, booked) \in Int
    <3>1. \A x \in booked : H[x] \in Int
      BY <1>6
    <3> HIDE DEF H
    <3> QED BY <1>6, <3>1, SumType
  <2>5. cash = OpeningCash - spends - SumFunctionOnSet(H, booked)
    BY DEF WInv, PaidOnce
  <2>6. OpeningCash \in Nat /\ spends \in Int /\ spends' = spends
    BY <1>1, OutcomeAssumption DEF OutcomeTypeOK
  <2>7. [f \in booked' |-> f.cost] = G
    BY <1>1 DEF G
  <2> HIDE DEF H
  <2>8. cash - cost = OpeningCash - spends - (SumFunctionOnSet(H, booked) + cost)
    BY <1>2, <2>4, <2>5, <2>6
  <2>9. SumFunctionOnSet([f \in booked' |-> f.cost], booked') = SumFunctionOnSet(H, booked) + cost
    BY <1>1, <1>7, <2>2, <2>3, <2>7
  <2> QED BY <1>1, <2>6, <2>8, <2>9 DEF PaidOnce
<1>19. OkIsRecorded'
  <2>1. ASSUME NEW v \in Workers, result'[v] # NoOutcome
        PROVE  ingested'[result'[v].identity] = result'[v]
    <3>1. CASE v = w /\ result'[w] = p
      BY <1>11, <3>1 DEF i
    <3>2. CASE result'[v] = result[v]
      <4>1. result[v] \in Outcomes /\ ingested[result[v].identity] = result[v]
        BY <1>1, <2>1, <3>2 DEF OutcomeTypeOK, WInv, OkIsRecorded
      <4>2. result[v].identity \in Identities /\ result[v].identity # i
        BY <1>0, <1>2, <4>1, IdentityOfOutcome
      <4> QED BY <1>11, <3>2, <4>1, <4>2
    <3> QED BY <1>8, <3>1, <3>2
  <2> QED BY <2>1 DEF OkIsRecorded
<1> QED BY <1>12, <1>14, <1>15, <1>16, <1>17, <1>18, <1>19 DEF WInv

\* A command outside the port spends cash that no transaction counts on.
LEMMA SpendWhole ==
    ASSUME WInv, Spend
    PROVE  WInv'
<1>1. /\ account = NoWorker /\ cash > 0 /\ spends < MaxSpends /\ cash' = cash - 1
      /\ spends' = spends + 1 /\ cash \in Nat /\ spends \in 0 .. MaxSpends
      /\ MaxSpends \in Nat /\ OpeningCash \in Nat /\ NoWorker \notin Workers
      /\ UNCHANGED <<ingested, orders, booked, inserting, account, call, result, calls, failures>>
  BY OutcomeAssumption DEF Spend, WInv, OutcomeTypeOK
<1>2. cash' \in Nat /\ spends' \in 0 .. MaxSpends
  BY <1>1
<1>3. OutcomeTypeOK'
  BY <1>1, <1>2 DEF WInv, OutcomeTypeOK
<1>4. RowsTyped' /\ Checked' /\ WholeOutcome' /\ OkIsRecorded'
  BY <1>1 DEF WInv, RowsTyped, Checked, WholeOutcome, OkIsRecorded
<1>5. Priced'
  BY <1>1 DEF WInv, Priced, PricedAt
<1>6. PaidOnce'
  <2> DEFINE s == SumFunctionOnSet([f \in booked |-> f.cost], booked)
  <2>1. s \in Int
    <3>1. IsFiniteSet(booked) /\ \A x \in booked : [f \in booked |-> f.cost][x] \in Int
      BY DEF WInv, RowsTyped
    <3> QED BY <3>1, SumType
  <2>2. cash = OpeningCash - spends - s /\ s' = s
    BY <1>1 DEF WInv, PaidOnce
  <2> HIDE DEF s
  <2>3. cash' = OpeningCash - spends' - s'
    BY <1>1, <2>1, <2>2
  <2> QED BY <2>3 DEF PaidOnce, s
<1> QED BY <1>3, <1>4, <1>5, <1>6 DEF WInv

LEMMA WholeStep == OutcomeInv /\ WInv /\ [OutcomeNext]_outcomeVars => WInv'
<1> SUFFICES ASSUME OutcomeInv, WInv, [OutcomeNext]_outcomeVars PROVE WInv'
  OBVIOUS
<1>1. CASE UNCHANGED outcomeVars
  BY <1>1 DEF outcomeVars, WInv, OutcomeTypeOK, RowsTyped, Checked, Priced, PricedAt, WholeOutcome,
              PaidOnce, OkIsRecorded
<1>2. CASE OutcomeNext
  BY <1>2, CallWhole, LookupWhole, InsertWhole, FillWhole, CommitWhole, RecoverWhole,
     FaultWhole, SpendWhole DEF OutcomeNext, Step
<1> QED BY <1>1, <1>2

\* The orders of recorded outcomes add up: validateBrokerOutcome compared the
\* quantities before anything was written.
LEMMA WholeAddsUp == WInv => OrdersAddUp
<1> SUFFICES ASSUME WInv, NEW o \in orders
             PROVE  LET of == {f \in booked : f.identity = o.identity /\ f.intent = o.intent}
                    IN  /\ o.executed + o.remaining = o.requested
                        /\ o.executed = SumFunctionOnSet([f \in of |-> f.qty], of)
  BY DEF OrdersAddUp
<1> DEFINE i == o.identity
           p == ingested[i]
           of == {f \in booked : f.identity = i /\ f.intent = o.intent}
<1>1. i \in Identities /\ o \in {x \in orders : x.identity = i}
  BY DEF WInv, RowsTyped
<1>2. /\ p # NoOutcome /\ o \in OrderRows(p)
      /\ {f \in booked : f.identity = i} = Range(Commands(p))
  BY <1>1 DEF WInv, WholeOutcome
<1>3. p \in Outcomes /\ p.identity = i /\ validateBrokerOutcome(p)
  BY <1>1, <1>2 DEF WInv, OutcomeTypeOK, Checked
<1> HIDE DEF p
<1>4. PICK a \in Range(p.accepted) :
         o = [identity |-> p.identity, intent |-> a.intent, status |-> a.status,
              requested |-> p.approved[a.intent], remaining |-> Remaining(p, a),
              executed |-> p.approved[a.intent] - Remaining(p, a)]
  BY <1>2 DEF OrderRows
<1> DEFINE A == p.approved[a.intent]
           X == Executed(Commands(p), a.intent)
           s == Commands(p)
           D == DOMAIN Commands(p)
           F == [k \in D |-> IF s[k].intent = a.intent THEN s[k].qty ELSE 0]
           M == {k \in D : s[k].intent = a.intent}
           G == [f \in of |-> f.qty]
<1>5. o.intent = a.intent /\ o.requested = A /\ o.remaining = Remaining(p, a)
      /\ o.executed = A - Remaining(p, a)
  BY <1>4
<1>6. /\ \A k \in D : s[k].qty \in Int /\ s[k].identity = i
      /\ \A j, k \in D : s[j] = s[k] => j = k
      /\ IsFiniteSet(D) /\ Range(s) = {s[k] : k \in D}
  BY <1>3, CommandsType, CommandsDistinct
<1>7. \A k \in D : F[k] \in Int
  BY <1>6
<1>8. X = SumFunctionOnSet(F, D)
  BY DEF Executed
<1>9. X \in Int
  <2> HIDE DEF F, D, X
  <2> QED BY <1>6, <1>7, <1>8, SumType
<1>10. A \in Int
  <2> DEFINE taken == [k \in 1 .. Len(p.accepted) |-> p.accepted[k].intent]
  <2>1. Range(taken) \subseteq DOMAIN p.approved /\ \A x \in DOMAIN p.approved : p.approved[x] \in Int
        /\ p.accepted \in Seq(Range(p.accepted))
    BY <1>3, OutcomeAssumption DEF validateBrokerOutcome, WellFormed
  <2>2. PICK k \in 1 .. Len(p.accepted) : a = p.accepted[k]
    BY <1>4, <2>1 DEF Range
  <2>3. taken[k] = a.intent /\ taken[k] \in Range(taken)
    BY <2>2 DEF Range
  <2> QED BY <2>1, <2>3
<1>11. Remaining(p, a) \in Int
  <2>1. a.remaining \subseteq Int
    BY <1>3, <1>4, OutcomeAssumption DEF WellFormed
  <2>2. CASE a.remaining = {}
    <3> HIDE DEF A, X
    <3>1. Remaining(p, a) = A - X
      BY <2>2 DEF Remaining, A, X
    <3> QED BY <1>9, <1>10, <3>1
  <2>3. CASE a.remaining # {}
    <3>1. Remaining(p, a) \in a.remaining
      BY <2>3 DEF Remaining
    <3> QED BY <2>1, <3>1
  <2> QED BY <2>2, <2>3
<1>12. X + Remaining(p, a) = A
  BY <1>3, <1>4 DEF validateBrokerOutcome
<1>13. {s[k] : k \in M} = of
  <2>1. of = {f \in Range(s) : f.intent = a.intent}
    BY <1>2, <1>5
  <2> QED BY <1>6, <2>1
<1>14. \A k \in D : F[k] = IF k \in M THEN G[s[k]] ELSE 0
  <2>1. ASSUME NEW k \in D PROVE F[k] = IF k \in M THEN G[s[k]] ELSE 0
    <3>1. k \in M => s[k] \in of
      BY <1>13
    <3> QED BY <2>1, <3>1
  <2> QED BY <2>1
<1>15. X = SumFunctionOnSet(G, of)
  <2>1. M \in SUBSET D
    OBVIOUS
  <2>2. IsFiniteSet(D)
    BY <1>6
  <2>3. \A j, k \in D : s[j] = s[k] => j = k
    BY <1>6
  <2> HIDE DEF F, G, D, M, s, of, X
  <2>4. SumFunctionOnSet(F, D) = SumFunctionOnSet(G, {s[k] : k \in M})
    BY ONLY <1>7, <1>14, <2>1, <2>2, <2>3, SumImage
  <2>5. SumFunctionOnSet(F, D) = SumFunctionOnSet(G, of)
    BY ONLY <1>13, <2>4
  <2> QED BY <1>8, <2>5
<1> HIDE DEF A, X
<1>16. o.executed = X /\ o.executed + o.remaining = o.requested
  BY <1>5, <1>9, <1>10, <1>11, <1>12
<1> QED BY <1>15, <1>16

\* RecordBrokerOutcome, for any callers, outcomes, faults and retries: what is
\* in the ledger is whole, its orders add up, every fill is paid for once, the
\* wallet is not overdrawn, and success is only reported of what is recorded.
THEOREM OutcomesWhole == OutcomeSpec => []OutcomesAreWhole
<1>1. OutcomeInit => WInv
  BY InitWhole
<1>2. OutcomeInv /\ WInv /\ [OutcomeNext]_outcomeVars => WInv'
  BY WholeStep
<1>3. WInv => OutcomesAreWhole
  BY WholeAddsUp DEF WInv, OutcomesAreWhole
<1> QED BY <1>1, <1>2, <1>3, IngestionsExclusive, PTL DEF OutcomeSpec
=============================================================================
