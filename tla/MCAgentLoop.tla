----------------------------- MODULE MCAgentLoop -----------------------------
(* Small instance of AgentLoop: a legacy alias with its argument, a       *)
(* canonical call missing its argument, an unknown tool and a bogus enum.  *)
EXTENDS AgentLoopProofs, TLC

MCToolCalls ==
    { [name |-> "search_codebase", args |-> {"query"}, badEnum |-> FALSE],
      [name |-> "dkod_read_file", args |-> {"path"}, badEnum |-> FALSE],
      [name |-> "dkod_write_file", args |-> {"path"}, badEnum |-> FALSE],
      [name |-> "nope", args |-> {}, badEnum |-> FALSE],
      [name |-> "dkod_context", args |-> {"query"}, badEnum |-> TRUE] }
=============================================================================
