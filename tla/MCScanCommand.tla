---------------------------- MODULE MCScanCommand ----------------------------
EXTENDS ScanCommand

MCConfs == {Absent, Malformed, Unreadable} \cup
  {[path |-> TRUE,  min |-> Unset,   unknown_check |-> FALSE],
   [path |-> FALSE, min |-> 2,       unknown_check |-> FALSE],
   [path |-> TRUE,  min |-> Unknown, unknown_check |-> FALSE],
   [path |-> FALSE, min |-> 0,       unknown_check |-> TRUE]}
MCTrees == {[fails |-> TRUE, worst |-> NoFinding]} \cup [fails : {FALSE}, worst : 0..3]
==============================================================================
