----------------------------- MODULE Conversions ----------------------------
(***************************************************************************)
(* The conversions into PEG of one block (modules/conversions) and the     *)
(* transaction ids they are kept under (modules/transactionid). Requests   *)
(* are collected in a ConversionSupplySet, the bank is shared between them *)
(* in proportion, and what is not converted is refunded.                   *)
(*                                                                         *)
(* A txid is a string: a batch hash, an index and a hash (the index padded *)
(* with zeros or not), or neither. A hash is a number; the empty string an *)
(* error returns is 0. Go walks a map in any order, which is a parameter.  *)
(* The amounts are uint64 or big.Int, and do not overflow below.           *)
(***************************************************************************)
EXTENDS Integers, Sequences, FiniteSets, FiniteSetsExt, SequencesExt, Sums, Sorting

CONSTANTS
  Txids,        \* txids offered
  Amounts,      \* input amounts
  Rates,        \* pUSD rates of the input assets
  PegRates,     \* pUSD rates of PEG
  Banks,        \* the PEG a block may convert into
  MaxInt64,     \* the largest int64
  MaxRequests   \* bound: conversions of the block

ASSUME ConversionsAssumption ==
  /\ Amounts \subseteq Nat /\ Rates \subseteq Nat /\ PegRates \subseteq Nat \ {0}
  /\ Banks \subseteq Nat /\ MaxInt64 \in Nat /\ MaxRequests \in Nat
  /\ \A t \in Txids : t.form = "txid" => t.index \in Nat /\ t.hash \in Nat

VARIABLES
  supply,     \* the ConversionSupplySet
  inputs,     \* what each request converts
  pegRate,    \* the block's rate of PEG
  refused,    \* AddConversion has returned an error
  payouts,    \* the PEG each request yields
  refunds     \* what it gets back

conversionVars == <<supply, inputs, pegRate, refused, payouts, refunds>>

NotATxID == [index |-> -1, hash |-> 0, err |-> TRUE]

(* A txid is its index and its hash; a batch hash and a malformed text are *)
(* not.                                                                    *)
SplitTxID(t) ==
  IF t.form = "txid" THEN [index |-> t.index, hash |-> t.hash, err |-> FALSE] ELSE NotATxID

VerifyTransactionHash(t) ==
  IF t.form = "batch" THEN [index |-> -1, hash |-> t.hash, err |-> FALSE]
  ELSE SplitTxID(t)

(* FormatTxIDWithPad: the same index may be written with different pads.   *)
FormatTxIDWithPad(pad, index, hash) ==
  [form |-> "txid", pad |-> pad, index |-> index, hash |-> hash]

(* The order of SortTxIDS: by hash, then by index. The errors of SplitTxID *)
(* are ignored: every batch hash sorts as the empty hash.                  *)
TxBefore(s, t) ==
  IF SplitTxID(s).hash # SplitTxID(t).hash THEN SplitTxID(s).hash < SplitTxID(t).hash
  ELSE SplitTxID(s).index < SplitTxID(t).index

SortTxIDS(txids) == StableSort(txids, TxBefore)
-----------------------------------------------------------------------------
(* Convert: 0 and an error for a negative amount, a zero rate or a result  *)
(* beyond an int64, else the amount rounded down.                          *)
Convert(amount, fromRate, toRate) ==
  IF amount < 0 \/ fromRate = 0 \/ toRate = 0 THEN [amount |-> 0, err |-> TRUE]
  ELSE LET n == (amount * fromRate) \div toRate
       IN  IF n > MaxInt64 THEN [amount |-> 0, err |-> TRUE] ELSE [amount |-> n, err |-> FALSE]

(* The method the comment on Refund warns of, which returns what rounding  *)
(* took, for the mutation runs.                                            *)
RefundTheDifference(inputAmount, pegYield, inputRate, rate) ==
  inputAmount - Convert(pegYield, rate, inputRate).amount

(* Refund: the PEG not yielded, converted back. Errors are ignored.        *)
Refund(inputAmount, pegYield, inputRate, rate) ==
  LET maxPEGYield == Convert(inputAmount, inputRate, rate).amount
  IN  Convert(maxPEGYield - pegYield, rate, inputRate).amount

TotalRequested(s) == Sum(s.Requests)

(* A payout that divides before it multiplies, for the mutation runs.      *)
PayoutDividesFirst(requested, bank, total) ==
  IF total = 0 THEN 0 ELSE requested * (bank \div total)

PayoutBig(requested, bank, total) ==
  IF requested = 0 \/ bank = 0 \/ total = 0 THEN 0
  ELSE (requested * bank) \div total

(* The requests that ask for most.                                         *)
TopRequests(s) ==
  {t \in DOMAIN s.Requests : \A u \in DOMAIN s.Requests : s.Requests[u] <= s.Requests[t]}

(* Payouts: everyone gets what he asked for if the bank has more than all  *)
(* of it, else a share rounded down; what rounding leaves goes to the top  *)
(* request, of tied ones to the first in the order of the sort. The walk   *)
(* meets the top requests in the order `top'.                              *)
Payouts(s, top) ==
  LET total == TotalRequested(s)
      share == [t \in DOMAIN s.Requests |-> PayoutBig(s.Requests[t], s.Bank, total)]
      dust == s.Bank - Sum(share)
      winner == SortTxIDS(top)[1]
  IN  IF DOMAIN s.Requests = {} \/ total < s.Bank THEN s.Requests
      ELSE [share EXCEPT ![winner] = @ + dust]
-----------------------------------------------------------------------------
NewConversionSupply(bank) == [Bank |-> bank, Requests |-> [t \in {} |-> 0]]

InitConversions ==
  /\ \E bank \in Banks : supply = NewConversionSupply(bank)
  /\ inputs = [t \in {} |-> 0]
  /\ pegRate \in PegRates /\ refused = FALSE
  /\ payouts = [t \in {} |-> 0] /\ refunds = [t \in {} |-> 0]

Settled == DOMAIN payouts # {}

(* A map with one entry more.                                              *)
With(map, t, value) == [u \in DOMAIN map \cup {t} |-> IF u = t THEN value ELSE map[u]]

(* AddConversion of what the input converts into. A conversion that fails  *)
(* never becomes a request.                                                *)
AddConversion(t, amount, rate) ==
  LET peg == Convert(amount, rate, pegRate)
  IN  /\ ~Settled /\ Cardinality(DOMAIN supply.Requests) < MaxRequests
      /\ ~peg.err
      /\ ~VerifyTransactionHash(t).err /\ t \notin DOMAIN supply.Requests
      /\ supply' = [supply EXCEPT !.Requests = With(@, t, peg.amount)]
      /\ inputs' = With(inputs, t, [amount |-> amount, rate |-> rate])
      /\ UNCHANGED <<pegRate, refused, payouts, refunds>>

(* A malformed txid, or one the set has.                                   *)
RefuseConversion(t) ==
  /\ ~Settled
  /\ VerifyTransactionHash(t).err \/ t \in DOMAIN supply.Requests
  /\ refused' = TRUE
  /\ UNCHANGED <<supply, inputs, pegRate, payouts, refunds>>

(* The block is settled: payouts, then the refund of each request.         *)
Settle ==
  /\ ~Settled
  /\ \E top \in SetToSeqs(TopRequests(supply)) : payouts' = Payouts(supply, top)
  /\ refunds' = [t \in DOMAIN payouts' |->
                   Refund(inputs[t].amount, payouts'[t], inputs[t].rate, pegRate)]
  /\ UNCHANGED <<supply, inputs, pegRate, refused>>

NextConversions ==
  \/ \E t \in Txids, amount \in Amounts, rate \in Rates : AddConversion(t, amount, rate)
  \/ \E t \in Txids : RefuseConversion(t)
  \/ Settle

ConversionsSpec == InitConversions /\ [][NextConversions]_conversionVars
-----------------------------------------------------------------------------
(* The bank is spent to the last unit and never beyond ("to make the       *)
(* inflation even"); apart from the one request that gets the dust         *)
(* everyone gets its proportion, short of it by less than one unit; and    *)
(* every node pays the same out whatever order it walks its map in, if the *)
(* tied requests are txids that differ in index or hash (Payouts).         *)
PayoutsSpendTheBank ==
  Settled =>
    LET total == TotalRequested(supply)
        asked == DOMAIN supply.Requests
        Fair(t) == LET owed == supply.Requests[t] * Min({supply.Bank, total})
                   IN  payouts[t] * total <= owed /\ owed < (payouts[t] + 1) * total
        unfair == {t \in DOMAIN payouts : total > 0 /\ ~Fair(t)}
        distinct == \A s, t \in asked :
                      s # t => ~SplitTxID(s).err /\ SplitTxID(s) # SplitTxID(t)
    IN  /\ Sum(payouts) = Min({supply.Bank, total})
        /\ Cardinality(unfair) <= 1
        /\ \A t \in unfair : payouts[t] * total > supply.Requests[t] * supply.Bank
        /\ distinct => \A top \in SetToSeqs(TopRequests(supply)) : Payouts(supply, top) = payouts

(* Converting and refunding a block creates no value beyond the dust       *)
(* (fewer units of PEG than requests), and who gets all the PEG of his     *)
(* input gets no refund: what rounding took is burnt, as in every other    *)
(* conversion (the rationale given at Refund).                             *)
ConversionsCreateNoValue ==
  Settled =>
    LET out(t) == payouts[t] * pegRate + refunds[t] * inputs[t].rate
        in(t) == inputs[t].amount * inputs[t].rate
    IN  /\ Sum([t \in DOMAIN payouts |-> out(t)])
             <= Sum([t \in DOMAIN payouts |-> in(t)]) + (Cardinality(DOMAIN payouts) - 1) * pegRate
        /\ \A t \in DOMAIN payouts : payouts[t] >= supply.Requests[t] => refunds[t] = 0
=============================================================================
