---------------------------- MODULE GraderSyncMC ----------------------------
(***************************************************************************)
(* Small instances of GraderSync: chains of two or three eblocks, one      *)
(* record making a block up to height 2 (version 1) and two from height 3. *)
(***************************************************************************)
EXTENDS GraderSync, SequencesExt

MCHeights == 1..4
MCHashes == {""} \cup {"h1", "h2", "h3", "h4", "h5", "h6", "h7", "h8"}

Opr(hash, addr, wins) ==
  [EntryHash |-> hash, CoinbasePEGAddress |-> addr, WinPreviousOPR |-> wins, IsOPR |-> TRUE]
Junk(hash) ==
  [EntryHash |-> hash, CoinbasePEGAddress |-> "a", WinPreviousOPR |-> <<>>, IsOPR |-> FALSE]

(* Grading reverses the entry order and drops entries of address "z", as   *)
(* the real one reorders by grade and drops dishonest difficulties.        *)
MCGrade(eb, S) ==
  LET oprs == [k \in 1..Cardinality(S) |-> eb.EntryList[SetToSortSeq(S, >)[k]]]
  IN  SelectSeq(oprs, LAMBDA e : e.CoinbasePEGAddress # "z")

(* The first place earns more, and rewards grow with the height so that a  *)
(* reward paid for the wrong block shows.                                  *)
MCReward(p, h) == (IF p = 0 THEN 3 ELSE 1) * h

(* Height 1: one record, version 1. *)
First == [DBHeight |-> 1, EntryList |-> <<Opr("h1", "a", <<"">>)>>]
(* Height 2: lists the winner of height 1, or blanks as if there were none. *)
Second(w) == [DBHeight |-> 2, EntryList |-> <<Opr("h2", "b", <<w>>), Junk("h3")>>]
(* Height 3: version 2 needs two records; one may be junk or dishonest.     *)
Third(w, addr) ==
  [DBHeight |-> 3, EntryList |-> <<Opr("h4", "a", <<w>>), Opr("h5", addr, <<w>>)>>]

MCChains ==
  {<<First, Second(w), Third(v, addr)>> :
      w \in {"", "h1"}, v \in {"h1", "h2"}, addr \in {"b", "z"}}
  \cup {<<[DBHeight |-> 1, EntryList |-> <<Junk("h1")>>], Second(""), Third("h2", "b")>>}
  \cup {<<First, [Third(v, "b") EXCEPT !.DBHeight = 4]>> : v \in {"", "h1"}}
=============================================================================
