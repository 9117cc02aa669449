---- MODULE MCPlaybooks ----
EXTENDS Playbooks, TLC

Cond(t, o, v, v2) == [type |-> t, op |-> o, value |-> v, value2 |-> v2]

MCDefault == [enabled |-> TRUE, trigger |-> "dos", cooldown |-> 2,
              actions |-> <<"block_ip">>,
              conditions |-> {Cond("frequency", ">=", {2}, 1),
                              Cond("threshold", ">=", {1}, None),
                              Cond("fused_confidence_above", "<=", {3}, None),
                              Cond("source_country", "not_in", {5, 6}, None),
                              Cond("repeat_offender", "==", {0}, None),
                              Cond("multi_source_min", ">=", {1}, None),
                              Cond("single_source_high", ">=", {1}, None)}]

MCInputs ==
    {[trigger |-> "dos", cooldown |-> 1, actions |-> <<"log">>,
      conditions |-> {Cond("ip_pattern", "in", {2}, 1)}],
     [trigger |-> "dos", cooldown |-> 0, actions |-> <<"log">>,
      conditions |-> {Cond("threshold", "in", {1}, None)}]}

Ev(ip) == [ip |-> ip, attack |-> "dos", confidence |-> 2, fused |-> 2,
           country |-> None, repeat |-> FALSE, sources |-> {1}]

MCEvents == {Ev(1), Ev(2)}
MCCanonical == {"dos"}
MCBudgets == {<<2, 0, 1>>, <<1, 1, 0>>, <<0, 3, 0>>}
====
