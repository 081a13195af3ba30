---------------------------- MODULE AlgorithmsMC ----------------------------
(***************************************************************************)
(* The components that keep a state of their own and run in one thread,    *)
(* side by side: the miners' rankings, a block's conversions, the tracking *)
(* of burns, the miners' nonces and the polling of prices. They share      *)
(* nothing, so a behaviour moves one of them: the states add up instead of *)
(* multiplying.                                                            *)
(***************************************************************************)
EXTENDS NonceRanking, Conversions, BurnTracking, Nonces, PollingMC

VARIABLE part   \* the component that moves

allVars == <<vars, conversionVars, burnVars, nonceVars, pollingVars, part>>

InitAll ==
  /\ part \in {"ranking", "conversions", "burns", "nonces", "polling"}
  /\ Init /\ InitBurns /\ InitConversions /\ InitNonces /\ InitPolling
  /\ part = "conversions" \/ (supply.Bank = 0 /\ pegRate = Min(PegRates))
  /\ part = "nonces" \/ (prior = (CHOOSE s \in SortedLists : TRUE) /\ cutoff = Min(Cutoffs))
  /\ part = "polling" \/ config = (CHOOSE c \in Configs : TRUE)

RankingMoves == part = "ranking" /\ Next
                  /\ UNCHANGED <<conversionVars, burnVars, nonceVars, pollingVars, part>>
ConversionsMove == part = "conversions" /\ NextConversions
                     /\ UNCHANGED <<vars, burnVars, nonceVars, pollingVars, part>>
BurnsMove == part = "burns" /\ NextBurns
               /\ UNCHANGED <<vars, conversionVars, nonceVars, pollingVars, part>>
NoncesMove == part = "nonces" /\ NextNonces
                /\ UNCHANGED <<vars, conversionVars, burnVars, pollingVars, part>>
PollingMoves == part = "polling" /\ NextPolling
                  /\ UNCHANGED <<vars, conversionVars, burnVars, nonceVars, part>>

NextAll == RankingMoves \/ ConversionsMove \/ BurnsMove \/ NoncesMove \/ PollingMoves

SpecAll == InitAll /\ [][NextAll]_allVars
-----------------------------------------------------------------------------
Tx(index, hash) == FormatTxIDWithPad(1, index, hash)

(* Two transactions of one batch, the first of them padded, one of another *)
(* batch, two batch hashes and a text that is neither.                     *)
SomeTxids ==
  {Tx(0, 2), Tx(1, 2), FormatTxIDWithPad(2, 1, 2), Tx(3, 1),
   [form |-> "batch", hash |-> 1], [form |-> "batch", hash |-> 2], [form |-> "text"]}

Burn(a, n) == [burn |-> TRUE, outputs |-> 0, inputs |-> 1, from |-> a, amount |-> n]

(* A coinbase at every height, burns by one and by both addresses, and     *)
(* transfers that are not burns: to another output as well, from two       *)
(* inputs, and to no burn address.                                         *)
SomeChain ==
  LET a == CHOOSE x \in Burners : TRUE
      b == CHOOSE x \in Burners : x # a
  IN  << <<>>, <<Burn(a, 5)>>, <<Burn(a, 1), Burn(b, 2)>>,
         <<[Burn(b, 3) EXCEPT !.outputs = 1], [Burn(b, 3) EXCEPT !.inputs = 2], Burn(a, 4)>>,
         <<[Burn(a, 7) EXCEPT !.burn = FALSE], Burn(a, 1), Burn(a, 2)>>, <<Burn(b, 1)>> >>

(* The place measured at: high and low, one and the last of three, where a *)
(* float has room for it and where it has not, and next to the top.        *)
SomeLists == {<<577>>, <<0>>, <<1023, 1021>>, <<1019, 1003, 981, 5>>, <<1020, 1010, 1006>>,
              <<1017, 1011>>, <<900, 811, 703>>, <<640, 350>>, <<999, 701, 513>>,
              <<40, 40, 2, 0, 0>>}
=============================================================================
