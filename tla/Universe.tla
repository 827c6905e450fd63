------------------------------ MODULE Universe ------------------------------
(***************************************************************************)
(* internal/services/universe.go: the universe snapshot a trading cycle    *)
(* builds from the exchange's metadata, tickers and candles, and the dy-   *)
(* namic replay of internal/backtest that reads the stored snapshots back. *)
(*                                                                         *)
(* A market is the set of candidates the exchange describes; indicators    *)
(* and z-scores are one rank score.  first_seen_at is left out: no code    *)
(* reads it but the refresh that copies it.                                *)
(***************************************************************************)
EXTENDS Integers, FiniteSetsExt, SequencesExt

CONSTANTS
    Builders,       \* cycles that build a snapshot, possibly at the same time
    Markets,        \* sets of [symbol, tradable, volume, data, fails, up, score]
    Settings,       \* [topK, analyze, legacy, minVolume]
    MaxTime, MaxSnapshots, MaxFaults    \* bounds

VARIABLES
    clock,
    settings,       \* rows of settings
    snapshots,      \* universe_snapshots with their universe_members, by id
    builder,        \* [builder -> its goroutine]
    faults

vars == <<clock, settings, snapshots, builder, faults>>

Regimes == {"risk_on", "neutral", "risk_off"}
Stages == {"ranked", "rejected", "shortlist", "active"}
HardFilters == <<"listing_age", "daily_quote_volume", "intraday_quote_volume", "missing_bar_ratio",
                 "volatility_too_low", "volatility_too_high", "excessive_24h_move">>

\* What the instances have to satisfy.
UniverseAssumption ==
    /\ MaxTime \in Nat /\ MaxSnapshots \in Nat /\ MaxFaults \in Nat
    /\ \A m \in Markets : \A c \in m : c.symbol \in Nat /\ c.volume \in Nat /\ c.score \in Int
    /\ \A s \in Settings : s.topK \in Int /\ s.analyze \in Int /\ s.legacy \in Int /\ s.minVolume \in Nat

Idle == [at |-> "idle", id |-> 0, members |-> {}, snapshot |-> <<>>]

-----------------------------------------------------------------------------
\* sort.Slice by a strict total order.
Sorted(S, before(_, _)) ==
    [k \in 1 .. Cardinality(S) |-> CHOOSE x \in S : Cardinality({y \in S : before(y, x)}) = k - 1]

\* GetUniversePolicy: non-positive settings fall back, analyze_top_n <= top_k.
GetUniversePolicy(s) ==
    LET topK == IF s.topK <= 0 THEN 20 ELSE s.topK
        analyze == IF s.analyze <= 0 THEN s.legacy ELSE s.analyze
    IN  [topK |-> topK, analyzeTopN |-> Min({analyze, topK}), minVolume |-> s.minVolume]

universeCandidatePoolLimit(p) == Min({80, Max({30, 4 * p.topK, 6 * p.analyzeTopN})})

\* The tradable candidates with half the wanted volume, the largest first.
broadCandidates(m, p) ==
    LET broad == {c \in m : c.tradable /\ 2 * c.volume >= p.minVolume}
        before(a, b) == a.volume > b.volume \/ (a.volume = b.volume /\ a.symbol < b.symbol)
    IN  ToSet(SubSeq(Sorted(broad, before), 1, Min({Cardinality(broad), universeCandidatePoolLimit(p)})))

\* The first hard filter a candidate fails.
UniverseHardFilterReason(c) ==
    LET failed == {k \in 1 .. Len(HardFilters) : HardFilters[k] \in c.fails}
    IN  IF failed = {} THEN "" ELSE HardFilters[Min(failed)]

RejectionReason(c) == IF c.data THEN UniverseHardFilterReason(c) ELSE "market_data_unavailable"

\* By score, then volume, then symbol.
RankUniverseCandidates(cs) ==
    LET before(a, b) == \/ a.score > b.score
                        \/ a.score = b.score /\ a.volume > b.volume
                        \/ a.score = b.score /\ a.volume = b.volume /\ a.symbol < b.symbol
    IN  Sorted(cs, before)

\* ComputeUniverseBreadth in hundredths, 0 for no candidate.
Breadth(cs) == IF cs = {} THEN 0 ELSE (100 * Cardinality({c \in cs : c.up})) \div Cardinality(cs)

DetermineUniverseRegime(higherUp, dailyUp, breadth) ==
    CASE higherUp /\ dailyUp /\ breadth >= 55 -> "risk_on"
      [] ~higherUp /\ ~dailyUp /\ breadth < 40 -> "risk_off"
      [] OTHER -> "neutral"

ActiveLimit(p, regime) ==
    LET short == IF p.analyzeTopN <= 0 THEN p.topK ELSE p.analyzeTopN
    IN  CASE regime = "risk_off" -> Min({p.topK, 3})
          [] regime = "neutral" -> Min({p.topK, Max({short, 4, p.topK \div 2})})
          [] OTHER -> p.topK

ShortlistLimit(p, regime) ==
    LET short == IF p.analyzeTopN <= 0 THEN p.topK ELSE p.analyzeTopN
    IN  CASE regime = "risk_off" -> Min({short, 2})
          [] regime = "neutral" -> Min({short, Max({3, short \div 2 + 1})})
          [] OTHER -> short

\* SelectUniverseCandidates: the active universe and its shortlist are
\* prefixes of the ranking.
SelectUniverseCandidates(ranked, p, regime) ==
    LET active == Min({Len(ranked), ActiveLimit(p, regime)})
    IN  [active |-> SubSeq(ranked, 1, active),
         shortlist |-> SubSeq(ranked, 1, Min({active, ShortlistLimit(p, regime)}))]

\* The rows persistUniverseSnapshot writes.  A member is a copy made before
\* the selection, so its Shortlisted flag was never set.
Members(pool, sel) ==
    {[symbol |-> c.symbol, score |-> c.score, reason |-> RejectionReason(c), shortlisted |-> FALSE,
      stage |-> CASE RejectionReason(c) # "" -> "rejected"
                  [] c \in ToSet(sel.shortlist) -> "shortlist"
                  [] c \in ToSet(sel.active) -> "active"
                  [] OTHER -> "ranked"] : c \in pool}

-----------------------------------------------------------------------------
\* loadReplaySnapshotsForManifest: the snapshot in effect at the start, then
\* the ones of the interval in the order of their times (ids of a tie).
loadReplaySnapshots(start, end) ==
    LET ids == DOMAIN snapshots
        earlier == {i \in ids : snapshots[i].time <= start}
        before(i, j) == snapshots[i].time < snapshots[j].time
                        \/ (snapshots[i].time = snapshots[j].time /\ i < j)
        inRange == Sorted({i \in ids : snapshots[i].time > start /\ snapshots[i].time <= end}, before)
        effective == IF earlier = {} THEN <<>>
                     ELSE << CHOOSE i \in earlier : \A j \in earlier : snapshots[j].time <= snapshots[i].time >>
    IN  effective \o inRange

\* resolveReplayUniverse: the last snapshot not after now, 0 for none.
resolveReplayUniverse(entries, now) ==
    LET past == {k \in 1 .. Len(entries) : snapshots[entries[k]].time <= now}
    IN  IF past = {} THEN 0 ELSE entries[Max(past)]

replayMemberEligible(m) ==
    \/ m.stage = "active" /\ m.reason = ""
    \/ m.stage = "shortlist" /\ m.shortlisted /\ m.reason = ""

-----------------------------------------------------------------------------
Init ==
    /\ clock = 0 /\ settings \in Settings /\ snapshots = <<>> /\ faults = 0
    /\ builder = [b \in Builders |-> Idle]

\* BuildUniverseSnapshot up to its timestamp: the metadata, the tickers and
\* the candles of one market, the regime and the selection.
BuildUniverseSnapshot(b) ==
    /\ builder[b].at = "idle" /\ Len(snapshots) < MaxSnapshots
    /\ \E m \in Markets, higherUp, dailyUp \in BOOLEAN :
         LET p == GetUniversePolicy(settings)
             pool == broadCandidates(m, p)
             accepted == {c \in pool : RejectionReason(c) = ""}
             regime == DetermineUniverseRegime(higherUp, dailyUp, Breadth(accepted))
             sel == SelectUniverseCandidates(RankUniverseCandidates(accepted), p, regime)
         IN  builder' = [builder EXCEPT ![b] =
               [at |-> "snapshot", id |-> 0, members |-> Members(pool, sel),
                snapshot |-> [time |-> clock, regime |-> regime, topK |-> p.topK, rankedCount |-> Len(sel.active),
                              shortlistCount |-> Len(sel.shortlist), members |-> {}]]]
    /\ UNCHANGED <<clock, settings, snapshots, faults>>

\* persistUniverseSnapshot: the insert of universe_snapshots.
PersistSnapshot(b) ==
    /\ builder[b].at = "snapshot"
    /\ snapshots' = Append(snapshots, builder[b].snapshot)
    /\ builder' = [builder EXCEPT ![b].at = "members", ![b].id = Len(snapshots) + 1]
    /\ UNCHANGED <<clock, settings, faults>>

\* The second insert, not in a transaction with the first.
PersistMembers(b) ==
    /\ builder[b].at = "members"
    /\ snapshots' = [snapshots EXCEPT ![builder[b].id].members = builder[b].members]
    /\ builder' = [builder EXCEPT ![b] = Idle]
    /\ UNCHANGED <<clock, settings, faults>>

\* A request or a statement fails, or the process stops.
Fail(b) ==
    /\ builder[b].at # "idle" /\ faults < MaxFaults
    /\ faults' = faults + 1 /\ builder' = [builder EXCEPT ![b] = Idle]
    /\ UNCHANGED <<clock, settings, snapshots>>

\* The operator edits universe_analyze_top_n and the others.
UpdateSettings ==
    /\ settings' \in Settings /\ UNCHANGED <<clock, snapshots, builder, faults>>

Tick == clock < MaxTime /\ clock' = clock + 1 /\ UNCHANGED <<settings, snapshots, builder, faults>>

Next == UpdateSettings \/ Tick
        \/ \E b \in Builders : BuildUniverseSnapshot(b) \/ PersistSnapshot(b) \/ PersistMembers(b) \/ Fail(b)

Spec == Init /\ [][Next]_vars

-----------------------------------------------------------------------------
\* Types of the stored snapshots and of the builders.
TypeOK ==
    /\ clock \in 0 .. MaxTime /\ settings \in Settings /\ faults \in 0 .. MaxFaults
    /\ \A i \in DOMAIN snapshots :
         /\ snapshots[i].time \in 0 .. clock /\ snapshots[i].regime \in Regimes
         /\ \A m \in snapshots[i].members : m.stage \in Stages /\ (m.stage = "rejected" <=> m.reason # "")
    /\ \A b \in Builders : builder[b].at \in {"idle", "snapshot", "members"}

InStage(i, s) == {m \in snapshots[i].members : m.stage \in s}

\* BuildUniverseSnapshot: in the stored members no candidate of a lower stage
\* out-scores one of a higher stage.
StagesFollowRank ==
    \A i \in DOMAIN snapshots :
      /\ \A s \in InStage(i, {"shortlist"}), a \in InStage(i, {"active", "ranked"}) : s.score >= a.score
      /\ \A a \in InStage(i, {"active"}), r \in InStage(i, {"ranked"}) : a.score >= r.score

\* SelectUniverseCandidates: whatever the settings, a market with an accepted
\* candidate gives a non-empty shortlist within top_k, of at most two of three
\* when the regime is risk_off.
SomethingToAnalyze ==
    \A i \in DOMAIN snapshots :
      LET s == Cardinality(InStage(i, {"shortlist"}))
          a == s + Cardinality(InStage(i, {"active"}))
      IN  snapshots[i].members # {} =>
            /\ s = snapshots[i].shortlistCount /\ a = snapshots[i].rankedCount /\ a <= snapshots[i].topK
            /\ InStage(i, Stages \ {"rejected"}) # {} => s > 0
            /\ snapshots[i].regime = "risk_off" => s <= 2 /\ a <= 3

\* Dynamic replay: whatever interval was loaded, the universe at a time of it
\* is the latest stored snapshot that is not after that time, however late
\* the snapshot was written.
ReplayResolvesLatest ==
    \A start, end \in 0 .. MaxTime : \A now \in start .. end :
      LET r == resolveReplayUniverse(loadReplaySnapshots(start, end), now)
          past == {i \in DOMAIN snapshots : snapshots[i].time <= now}
      IN  IF past = {} THEN r = 0
          ELSE r # 0 /\ snapshots[r].time = Max({snapshots[i].time : i \in past})

\* The replay of a stored snapshot trades every active member of it, and no
\* member that was rejected.
ReplayTradesActive ==
    \A i \in DOMAIN snapshots : \A m \in snapshots[i].members :
        /\ m.stage = "active" => replayMemberEligible(m)
        /\ replayMemberEligible(m) => m.stage # "rejected"
=============================================================================
