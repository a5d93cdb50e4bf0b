-------------------------- MODULE MCEventProcessor --------------------------
(* configs/policies.json, in the file's own terms, and the other case: no   *)
(* readable file.                                                           *)
EXTENDS EventProcessor, TLC

Policy(field, op, value, action) ==
    [field |-> field, op |-> op, value |-> value, action |-> action]

Shipped ==
    << Policy("severity", "gte", 6, "block"),
       Policy("severity", "eq", 4, "alert"),
       Policy("rule_id", "gt", 0, "block"),
       Policy("kind", "eq", 41, "rate_limit"),
       Policy("kind", "in", 70, "log"),
       Policy("kind", "eq", 77, "alert") >>

MCPolicyFiles == {Shipped, <<>>}

\* Any permutation of the flows: nothing orders them.
FlowSymmetry == Permutations(Flows)
=============================================================================
