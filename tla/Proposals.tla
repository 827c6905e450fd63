------------------------------ MODULE Proposals ------------------------------
(***************************************************************************)
(* The AI proposals of internal/services/ai.go and internal/handlers/ai.go.*)
(* A generator reads the settings, waits up to five minutes for the model, *)
(* filters its answer and stores the survivors one row at a time; an       *)
(* operator approves or denies a proposal by reading its row and saving it *)
(* whole; a client walks the list page by page meanwhile; and the model    *)
(* configuration is itself a row that is read and saved whole.             *)
(*                                                                         *)
(* A setting value is a number, or Text for one that does not parse as a   *)
(* number.  The evidence an optimization needs is Comparison's; here it is *)
(* given.                                                                  *)
(***************************************************************************)
EXTENDS Integers, Sequences, FiniteSets, Functions

CONSTANTS
  Setting,        \* key -> [category, adjustable, deprecated]
  Initial,        \* key -> the value of the setting at first
  News,           \* values the model may propose
  Lengths,        \* lengths of its answers
  Budget,         \* ai_change_budget_pct
  MaxPerCategory, \* ai_max_keys_per_category
  MaxProposals,   \* ai_max_proposals
  Kinds,          \* generators in use: "trading", "backtest"
  Clerks,         \* concurrent approve and deny requests
  Editors,        \* concurrent updates of the model configuration
  Limit,          \* page size, 0 when nobody pages
  MaxRuns,        \* bound: generations
  MaxTime,        \* bound: the clock
  MaxEdits        \* bound: changes of settings and locks

Text == -1
SettingKeys == DOMAIN Setting

\* What the instances have to satisfy.
ProposalsAssumption ==
  /\ Initial \in [SettingKeys -> Nat \cup {Text}] /\ News \subseteq Nat \cup {Text}
  /\ {Budget, MaxPerCategory, MaxProposals, Limit, MaxRuns, MaxTime, MaxEdits} \subseteq Nat
  /\ Kinds \subseteq {"trading", "backtest"} /\ Lengths \subseteq Nat

VARIABLES
  settings,  \* the settings rows
  locked,    \* ai_locked_keys
  gen,       \* the generation in progress
  table,     \* ai_proposals; the id is the index
  clock,
  clerk,     \* what each approve or deny request has read
  acks,      \* per proposal, who was told which verdict, in their order
  config,    \* the key in llm_configs, the last one an operator entered, and
             \* whether a blank update since overlapped another
  editor,    \* what each configuration update has read
  pager,     \* a client walking the list
  runs, edits

proposalsVars == <<settings, locked, gen, table, clock, clerk, acks, config, editor, pager, runs, edits>>

Idle == [phase |-> "idle", kind |-> "trading", attempt |-> 0, read |-> Initial, locks |-> {}, queue |-> <<>>]
NoClerk == [id |-> 0, verdict |-> "approved"]
NoEditor == [busy |-> FALSE, key |-> 0, enters |-> 0, stale |-> FALSE]
NoPager == [on |-> FALSE, start |-> {}, seen |-> <<>>, at |-> 0, id |-> 0]

ProposalsInit ==
  /\ settings = Initial /\ locked = {} /\ gen = Idle /\ table = <<>> /\ clock = 1
  /\ clerk = [c \in Clerks |-> NoClerk] /\ acks = <<>>
  /\ config = [key |-> 0, entered |-> 0, overlapped |-> FALSE] /\ editor = [e \in Editors |-> NoEditor]
  /\ pager = NoPager /\ runs = 0 /\ edits = 0

-----------------------------------------------------------------------------
(* Generation. *)

\* buildAllowedParameterKeys
AllowedKey(key, locks) == key \notin locks /\ Setting[key].adjustable

\* GenerateProposals, GenerateBacktestOptimizationProposals: the settings and
\* locks are read before the model is called.
Generate(kind) ==
  /\ gen.phase = "idle" /\ runs < MaxRuns
  /\ gen' = [Idle EXCEPT !.phase = "waiting", !.kind = kind, !.attempt = 1,
                         !.read = settings, !.locks = locked]
  /\ runs' = runs + 1
  /\ UNCHANGED <<settings, locked, table, clock, clerk, acks, config, editor, pager, edits>>

OverBudget(old, new) ==
  LET change == IF new >= old THEN new - old ELSE old - new
  IN Budget > 0 /\ old \notin {0, Text} /\ new # Text /\ change * 100 > Budget * old

Count(proposals, category) ==
  Cardinality({i \in DOMAIN proposals : Setting[proposals[i].key].category = category})

\* parseProposalsFromResponseWithTypeDetailed: one raw proposal.
TakeOne(read, locks, taken, raw) ==
  IF /\ AllowedKey(raw.key, locks) /\ ~Setting[raw.key].deprecated
     /\ ~OverBudget(read[raw.key], raw.new)
     /\ MaxPerCategory = 0 \/ Count(taken, Setting[raw.key].category) < MaxPerCategory
     /\ MaxProposals = 0 \/ Len(taken) < MaxProposals
  THEN Append(taken, [key |-> raw.key, old |-> read[raw.key], new |-> raw.new])
  ELSE taken

\* An answer without a JSON array, or with a malformed one, is the empty one.
Parse(answer) ==
  LET taken[i \in 0..Len(answer)] ==
        IF i = 0 THEN <<>> ELSE TakeOne(gen.read, gen.locks, taken[i - 1], answer[i])
  IN taken[Len(answer)]

Raws == [key : SettingKeys, new : News]
RawAnswers == UNION {[1..n -> Raws] : n \in Lengths}

\* The model answered.  An optimization that keeps nothing of the strict
\* answer asks once more, with the same settings and locks.
Reply(answer) ==
  /\ gen.phase = "waiting"
  /\ LET found == Parse(answer) IN
     gen' = IF found # <<>> THEN [gen EXCEPT !.phase = "storing", !.queue = found]
            ELSE IF gen.kind = "backtest" /\ gen.attempt = 1 THEN [gen EXCEPT !.attempt = 2]
            ELSE Idle
  /\ UNCHANGED <<settings, locked, table, clock, clerk, acks, config, editor, pager, runs, edits>>

\* callLLM returned an error or ran into its timeout: the generation is over,
\* with an error on the first attempt and without proposals on the second.
ModelFails ==
  /\ gen.phase = "waiting" /\ gen' = Idle
  /\ UNCHANGED <<settings, locked, table, clock, clerk, acks, config, editor, pager, runs, edits>>

Advance == IF Len(gen.queue) = 1 THEN Idle ELSE [gen EXCEPT !.queue = Tail(@)]

\* One row; its time is taken before the insert, and the clock may have moved
\* on when the row appears.
Store(at) ==
  /\ gen.phase = "storing" /\ at \in {clock - 1, clock} \ {0}
  /\ table' = Append(table, [batch |-> runs, proposal |-> Head(gen.queue), locks |-> gen.locks,
                             status |-> "pending", at |-> at])
  /\ acks' = Append(acks, <<>>)
  /\ gen' = Advance
  /\ UNCHANGED <<settings, locked, clock, clerk, config, editor, pager, runs, edits>>

\* An insert that fails is skipped.
StoreFails ==
  /\ gen.phase = "storing" /\ gen' = Advance
  /\ UNCHANGED <<settings, locked, table, clock, clerk, acks, config, editor, pager, runs, edits>>

\* The operator changes a setting or locks a key while the model is thinking.
Edit(key, value) ==
  /\ edits < MaxEdits /\ edits' = edits + 1
  /\ \/ settings' = [settings EXCEPT ![key] = value] /\ UNCHANGED locked
     \/ locked' = locked \cup {key} /\ UNCHANGED settings
  /\ UNCHANGED <<gen, table, clock, clerk, acks, config, editor, pager, runs>>

Tick ==
  /\ clock < MaxTime /\ clock' = clock + 1
  /\ UNCHANGED <<settings, locked, gen, table, clerk, acks, config, editor, pager, runs, edits>>

-----------------------------------------------------------------------------
(* Dispositions. *)

\* ApproveProposal, DenyProposal: the row is read and must be pending.
Read(c, id, verdict) ==
  /\ clerk[c].id = 0 /\ table[id].status = "pending"
  /\ clerk' = [clerk EXCEPT ![c] = [id |-> id, verdict |-> verdict]]
  /\ UNCHANGED <<settings, locked, gen, table, clock, acks, config, editor, pager, runs, edits>>

\* The row that was read is saved with its new status, whatever it holds now.
Save(c) ==
  /\ clerk[c].id # 0
  /\ table' = [table EXCEPT ![clerk[c].id].status = clerk[c].verdict]
  /\ acks' = [acks EXCEPT ![clerk[c].id] = Append(@, [by |-> c, verdict |-> clerk[c].verdict])]
  /\ clerk' = [clerk EXCEPT ![c] = NoClerk]
  /\ UNCHANGED <<settings, locked, gen, clock, config, editor, pager, runs, edits>>

-----------------------------------------------------------------------------
(* Pages. *)

Newer(a, b) == table[a].at > table[b].at \/ (table[a].at = table[b].at /\ a > b)

\* GetProposalPage: the rows after the cursor, which is the time and the id.
Behind(id) == pager.at = 0 \/ table[id].at < pager.at \/ (table[id].at = pager.at /\ id < pager.id)

\* The rows in their order, newest first.
Sorted(rows) ==
  [n \in 1..Cardinality(rows) |->
     CHOOSE id \in rows : Cardinality({r \in rows : Newer(r, id)}) = n - 1]

\* GetAIProposals: one page, newest first; there is a next one when one more
\* row than the limit was found.
Page ==
  LET rows == {id \in DOMAIN table : Behind(id)}
      order == Sorted(rows)
      page == SubSeq(order, 1, IF Len(order) > Limit THEN Limit ELSE Len(order))
  IN /\ Limit > 0 /\ (pager.on \/ (pager = NoPager /\ table # <<>>))
     /\ pager' = [on |-> Len(order) > Limit,
                  start |-> IF pager.on THEN pager.start ELSE DOMAIN table,
                  seen |-> pager.seen \o page,
                  at |-> IF page = <<>> THEN pager.at ELSE table[page[Len(page)]].at,
                  id |-> IF page = <<>> THEN pager.id ELSE page[Len(page)]]
     /\ UNCHANGED <<settings, locked, gen, table, clock, clerk, acks, config, editor, runs, edits>>

-----------------------------------------------------------------------------
(* The model configuration. *)

\* UpdateLLMConfig: the row is read; a blank key (0) keeps the one it holds.
ReadConfig(e, enters) ==
  /\ ~editor[e].busy
  /\ editor' = [editor EXCEPT ![e] = [busy |-> TRUE, enters |-> enters, stale |-> FALSE,
                                      key |-> IF enters = 0 THEN config.key ELSE enters]]
  /\ UNCHANGED <<settings, locked, gen, table, clock, clerk, acks, config, pager, runs, edits>>

\* The row is saved whole, whatever it holds now; who has read it holds an older
\* one from then on.
SaveConfig(e) ==
  /\ editor[e].busy
  /\ config' = [key |-> editor[e].key,
                entered |-> IF editor[e].enters = 0 THEN config.entered ELSE editor[e].enters,
                overlapped |-> editor[e].enters = 0 /\ (config.overlapped \/ editor[e].stale)]
  /\ editor' = [d \in Editors |-> IF d = e THEN NoEditor
                                  ELSE [editor[d] EXCEPT !.stale = editor[d].busy]]
  /\ UNCHANGED <<settings, locked, gen, table, clock, clerk, acks, pager, runs, edits>>

-----------------------------------------------------------------------------
\* What a generation does by itself, once the model was asked.
Generation ==
  \/ gen.phase = "waiting" /\ \E a \in RawAnswers : Reply(a)
  \/ (\E t \in 1..MaxTime : Store(t)) \/ StoreFails \/ ModelFails

ProposalsNext ==
  \/ (\E k \in Kinds : Generate(k)) \/ Generation \/ Tick \/ Page
  \/ (\E k \in SettingKeys, v \in News : Edit(k, v))
  \/ (\E c \in Clerks, id \in DOMAIN table, v \in {"approved", "denied"} : Read(c, id, v))
  \/ (\E c \in Clerks : Save(c))
  \/ (\E e \in Editors, k \in 0..2 : ReadConfig(e, k)) \/ (\E e \in Editors : SaveConfig(e))

ProposalsSpec == ProposalsInit /\ [][ProposalsNext]_proposalsVars

-----------------------------------------------------------------------------
(* Properties. *)

ProposalsTypeOK ==
  /\ settings \in [SettingKeys -> News \cup {Initial[k] : k \in SettingKeys}] /\ locked \subseteq SettingKeys
  /\ gen.phase \in {"idle", "waiting", "storing"} /\ (gen.phase = "storing") = (gen.queue # <<>>)
  /\ gen.attempt \in 0..2 /\ (gen.attempt = 2 => gen.kind = "backtest")
  /\ Len(acks) = Len(table)
  /\ \A id \in DOMAIN table : (table[id].status = "pending") = (acks[id] = <<>>)

\* What one generation stores, over both of its attempts, keeps to the limits
\* an operator set: at most ai_max_proposals rows, at most
\* ai_max_keys_per_category of a category, and no change over the budget of a
\* numeric value other than zero.
BatchWithinLimits ==
  \A b \in 1..runs :
    LET rows == {id \in DOMAIN table : table[id].batch = b} IN
    /\ MaxProposals > 0 => Cardinality(rows) <= MaxProposals
    /\ \A c \in {Setting[k].category : k \in SettingKeys} :
         MaxPerCategory > 0 =>
           Cardinality({id \in rows : Setting[table[id].proposal.key].category = c}) <= MaxPerCategory
    /\ \A id \in rows : ~OverBudget(table[id].proposal.old, table[id].proposal.new)

\* No proposal is stored for a key that was locked when the generation began,
\* nor for one that is not adjustable or is deprecated.
NeverForLockedKey ==
  \A id \in DOMAIN table :
    LET k == table[id].proposal.key
    IN k \notin table[id].locks /\ Setting[k].adjustable /\ ~Setting[k].deprecated

\* A client that walks the pages to the end has seen every proposal that was
\* stored when it began, and none twice, whatever was stored meanwhile.
PageComplete ==
  /\ \A i, j \in DOMAIN pager.seen : pager.seen[i] = pager.seen[j] => i = j
  /\ pager # NoPager /\ ~pager.on => pager.start \subseteq Range(pager.seen)

\* Whoever was told how a proposal was resolved is never told so again: only
\* requests that overlap resolve one twice, and it keeps the verdict told last.
DispositionFinal ==
  \A id \in DOMAIN acks :
    /\ \A i, j \in DOMAIN acks[id] : acks[id][i].by = acks[id][j].by => i = j
    /\ acks[id] # <<>> => table[id].status = acks[id][Len(acks[id])].verdict

\* The key in use is the last one an operator entered, unless an update with a
\* blank key has since saved a row that it read before another update.
BlankKeepsKey == config.key = config.entered \/ config.overlapped
=============================================================================
