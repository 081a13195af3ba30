------------------------------ MODULE BlocksMC ------------------------------
(***************************************************************************)
(* A block of the daemon's, from both ends: how its miners make it, and    *)
(* how the chain of such blocks is graded. The two meet only on the chain  *)
(* (an entry written is an entry read), so a behaviour moves one of them;  *)
(* mining is fair as its own specification says.                           *)
(***************************************************************************)
EXTENDS Mining, OracleChainMC

VARIABLE part   \* the end that moves

allVars == <<vars, chainVars, part>>

InitAll == part \in {"mining", "chain"} /\ Init /\ InitChain

MiningMoves(A) == part = "mining" /\ A /\ UNCHANGED <<chainVars, part>>
ChainMoves(A)  == part = "chain" /\ A /\ UNCHANGED <<vars, part>>

NextAll == MiningMoves(Next) \/ ChainMoves(NextChain)

SpecAll ==
  /\ InitAll /\ [][NextAll]_allVars
  /\ WF_allVars(MiningMoves(Coordinator))
  /\ \A m \in Miners : WF_allVars(MiningMoves(Miner(m)))
  /\ \A b \in Blocks : WF_allVars(MiningMoves(Writer(b)))
=============================================================================
