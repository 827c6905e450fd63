--------------------------- MODULE MCBrokerOutcome ---------------------------
EXTENDS BrokerOutcome

Fill(id, qty, cost) == [id |-> id, qty |-> qty, cost |-> cost]
Filled(intent, fs) == [intent |-> intent, status |-> "filled", remaining |-> {}, fills |-> fs]
Partial(intent, qty, fs) ==
    [intent |-> intent, status |-> "partially_filled", remaining |-> {qty}, fills |-> fs]
Outcome(identity, approved, accepted, rejected) ==
    [identity |-> identity, complete |-> TRUE, approved |-> approved,
     accepted |-> accepted, rejected |-> rejected]

Two == [a |-> 2, b |-> 1]
One == [c |-> 1]

\* A batch filled in two fills and an order, the same batch filled again by a
\* broker that was asked twice, one partly filled, and another batch.
MCOutcomes ==
    {Outcome("ab", Two, <<Filled("a", <<Fill("f1", 1, 1), Fill("f2", 1, 1)>>), Filled("b", <<Fill("f3", 1, 1)>>)>>, {}),
     Outcome("ab", Two, <<Partial("a", 1, <<Fill("f4", 1, 1)>>)>>, {"b"}),
     Outcome("ab", Two, <<Partial("a", 2, <<Fill("f4", 1, 1)>>)>>, {"b"}),
     Outcome("ab", Two, <<Filled("a", <<Fill("f1", 2, 1), Fill("f2", 1, 1)>>)>>, {"b"}),
     Outcome("c", One, <<Filled("c", <<Fill("f5", 1, 1)>>)>>, {}),
     [Outcome("c", One, <<>>, {}) EXCEPT !.complete = FALSE]}
==============================================================================
