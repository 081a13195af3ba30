--------------------------- MODULE OracleChainMC ----------------------------
(***************************************************************************)
(* A small instance of OracleChain: one winner in version 1, two from      *)
(* version 2 on, blocks graded on three records, a band of a quarter. One  *)
(* height for each OPR version, and the staking versions on the way.       *)
(***************************************************************************)
EXTENDS OracleChain

Reporter(n, fct, peg, diff, honest) ==
  [name |-> n, nonce |-> n, fct |-> fct, peg |-> peg, difficulty |-> diff, honest |-> honest]

MCOPRMiners == {Reporter("a", 4, 1, 3, TRUE), Reporter("b", 5, 1, 4, TRUE),
                Reporter("c", 2, 2, 2, TRUE), Reporter("d", 4, 1, 1, FALSE)}
Staker(n, owner, fct) == [name |-> n, owner |-> owner, fct |-> fct, peg |-> 1]

MCStakers == {Staker("s", "o1", 2), Staker("t", "o2", 4), Staker("u", "o3", 5),
              Staker("v", "o4", 4), Staker("w", "o1", 4)}
=============================================================================
