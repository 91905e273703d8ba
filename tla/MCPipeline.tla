----------------------------- MODULE MCPipeline -----------------------------
(* Two targets: x is a fuzz-executed coverage target, y a documented       *)
(* verifier boundary whose suite is pinned in target.json.                 *)
EXTENDS Pipeline

CONSTANTS x, y

MCTarget == {x, y}
MCOrder == <<x, y>>
MCCfg ==
  [t \in MCTarget |->
     IF t = x
     THEN [pinned |-> "none", proveName |-> FALSE, proveBody |-> FALSE,
           customBody |-> TRUE, execute |-> TRUE, expect |-> FALSE]
     ELSE [pinned |-> "proof", proveName |-> FALSE, proveBody |-> FALSE,
           customBody |-> TRUE, execute |-> FALSE, expect |-> TRUE]]
MCSuiteArgs == {<<>>, <<"coverage">>, <<"bogus", "all">>}
MCInsns == {0, 9}
=============================================================================
