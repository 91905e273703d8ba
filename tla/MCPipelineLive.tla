--------------------------- MODULE MCPipelineLive ---------------------------
(* Three targets and batches of two, so that the last batch is shorter;    *)
(* one run, one instruction count.                                         *)
EXTENDS Pipeline

CONSTANTS x, y, z

MCTarget == {x, y, z}
MCOrder == <<x, y, z>>
MCCfg ==
  [t \in MCTarget |->
     [pinned |-> "none", proveName |-> t = z, proveBody |-> FALSE,
      customBody |-> t = x, execute |-> t = x, expect |-> t = y]]
MCSuiteArgs == {<<"all", "bogus">>}
MCInsns == {0}
=============================================================================
