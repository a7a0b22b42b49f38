----------------------------- MODULE MCInputPath ----------------------------
(* One setup with every kind of byte and no server, one with plain keys whose  *)
(* Input messages and the reader's answers meet at the PTY.                    *)
EXTENDS InputPath

MCSetups ==
  { [keys |-> {"esc", "[", "I", "O", "x", "detach"}, max |-> 5, server |-> FALSE],
    [keys |-> {"x", "y"}, max |-> 3, server |-> TRUE] }
=============================================================================
