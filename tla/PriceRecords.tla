---------------------------- MODULE PriceRecords ----------------------------
(***************************************************************************)
(* Oracle price records and their entries: how a miner of the daemon makes *)
(* one (opr/opr.go), how it is encoded (opr/opr.go, opr/assetList.go) and  *)
(* read back, which version a height asks for (common/activation.go) and   *)
(* which assets a version lists (common/assets.go, modules/opr/assets.go). *)
(*                                                                         *)
(* Every asset group of the code is cut to one member. A price is counted  *)
(* in units of 1e-8, the precision the daemon keeps; a price in a JSON     *)
(* record is a float and is counted in halves of such a unit, so that      *)
(* rounding to 8 decimals is not the identity.                             *)
(***************************************************************************)
EXTENDS Integers, Sequences, SequencesExt

CONSTANTS
  ActivationHeight,           \* first height of the network
  V2GradingActivation, FloatingPegPriceActivation, V4HeightActivation,
  V20HeightActivation, SprSignatureActivation, V202EnhanceActivation,
  WinnersV1, WinnersV2,       \* winners of a block: 10, and 25 from version 2
  Failed                      \* what a function that returns an error returns

HalfUnits == 2                \* JSON prices per unit of the daemon's precision

ASSUME ActivationAssumption ==
  /\ \A h \in {ActivationHeight, V2GradingActivation, FloatingPegPriceActivation,
               V4HeightActivation, V20HeightActivation,
               SprSignatureActivation, V202EnhanceActivation} : h \in Nat
  /\ WinnersV1 \in Nat \ {0} /\ WinnersV2 \in Nat /\ WinnersV1 < WinnersV2

-----------------------------------------------------------------------------
(* Activation heights.                                                     *)
NetworkActive(height) == height >= ActivationHeight

OPRVersion(height) ==
  IF height < V2GradingActivation THEN 1
  ELSE IF height < FloatingPegPriceActivation THEN 2
  ELSE IF height < V4HeightActivation THEN 3
  ELSE IF height < V20HeightActivation THEN 4 ELSE 5

SPRVersion(height) ==
  IF height < SprSignatureActivation THEN 5
  ELSE IF height < V202EnhanceActivation THEN 6 ELSE 7

-----------------------------------------------------------------------------
(* The daemon's asset lists, put together from groups of assets: PEG, the  *)
(* commodities, the cryptos; the cryptos of version 4, the currencies of 5.*)
SubtractFromSet(list, sub) == SelectSeq(list, LAMBDA a : a \notin sub)

AssetsV1        == <<"PEG">> \o <<"XPD">> \o <<"FCT">>
AssetsV1WithPNT == <<"PNT">> \o SubtractFromSet(AssetsV1, {"PEG"})
AssetsV2        == SubtractFromSet(AssetsV1, {"XPD"})
AssetsV4        == AssetsV2 \o <<"EOS">>
AssetsV5        == AssetsV4 \o <<"AED">>

(* AssetList that forgets version 4, for the mutation runs.                *)
AssetListNoV4(version) == CASE version = 1      -> AssetsV1
                            [] version \in 2..4 -> AssetsV2
                            [] version = 5      -> AssetsV5

(* The list SafeMarshal and SafeUnmarshal place the prices by.             *)
AssetList(version) == CASE version = 1      -> AssetsV1
                        [] version \in 2..3 -> AssetsV2
                        [] version = 4      -> AssetsV4
                        [] version = 5      -> AssetsV5

(* The lists of modules/opr, written out one by one.                       *)
V1Assets == <<"PNT", "XPD", "FCT">>
V2Assets == <<"PEG", "FCT">>
V4Assets == <<"PEG", "FCT", "EOS">>
V5Assets == <<"PEG", "FCT", "EOS", "AED">>

-----------------------------------------------------------------------------
(* A factoid address is abstracted to what the code finds out about it: a  *)
(* good one carries the name of its owner.                                 *)
Address(owner)    == [b58 |-> TRUE, length |-> 38, prefix |-> "FA", checksum |-> TRUE, owner |-> owner]
BadChecksum(addr) == [addr EXCEPT !.checksum = FALSE]

(* factoidaddress.Valid (the library's check).                             *)
Valid(addr) == addr.b58 /\ addr.length = 38 /\ addr.prefix = "FA" /\ addr.checksum

(* ConvertFCTtoRaw and ValidFCTAddress (the daemon's checks): a wallet     *)
(* address of 52 characters decodes to 38 bytes.                           *)
ConvertFCTtoRaw(addr) ==
  IF addr.length = 38 /\ addr.prefix = "FA" /\ addr.checksum THEN addr.owner ELSE Failed
ValidFCTAddress(addr) == addr.prefix = "FA" /\ addr.b58 /\ addr.checksum

(* ConvertFCTtoPegNetAsset(network, "PEG", addr) on the main network.      *)
ConvertFCTtoPegNetAsset(addr) ==
  IF ConvertFCTtoRaw(addr) = Failed THEN Failed ELSE <<"PEG", ConvertFCTtoRaw(addr)>>

(* Identities are letters, digits and commas; "!" stands for anything else.*)
ValidIdentity(id) == id # "!"

-----------------------------------------------------------------------------
(* OraclePriceRecordAssetList.                                             *)
SetValue(value) == (value + 1) \div HalfUnits   \* rounds a float to 8 decimals
Value(amount) == HalfUnits * amount             \* and back to a float
ContainsExactly(assets, list) == DOMAIN assets = ToSet(list)

(* MarshalJSON writes the listed assets and nothing else, a missing one as *)
(* 0; UnmarshalJSON keeps whatever the object holds.                       *)
MarshalJSON(assets, list) ==
  [a \in ToSet(list) |-> IF a \in DOMAIN assets THEN Value(assets[a]) ELSE 0]
UnmarshalJSON(object) == [a \in DOMAIN object |-> SetValue(object[a])]

(* SafeMarshal: version 1 is JSON, with PNT for PEG; the others are        *)
(* protobuf, with prices by place in the version's asset list. The winners *)
(* are short hashes, blank in a bootstrap record.                          *)
SafeMarshal(opr) ==
  LET fields(enc, assets) ==
        [enc |-> enc, Address |-> opr.CoinbaseAddress, ID |-> opr.FactomDigitalID,
         Height |-> opr.Dbht, Winners |-> opr.WinPreviousOPR, Assets |-> assets]
      price(a) == IF a \in DOMAIN opr.Assets THEN opr.Assets[a] ELSE 0
      swapped == [a \in (DOMAIN opr.Assets \ {"PEG"}) \cup {"PNT"} |->
                    IF a = "PNT" THEN price("PEG") ELSE opr.Assets[a]]
  IN  IF opr.Version \notin 1..5 \/ "PNT" \in DOMAIN opr.Assets THEN Failed
      ELSE IF opr.Version = 1
      THEN fields("json", MarshalJSON(swapped, AssetsV1WithPNT))
      ELSE fields("proto", [i \in DOMAIN AssetList(opr.Version) |->
                              price(AssetList(opr.Version)[i])])

(* SafeUnmarshal, given the version of the entry.                          *)
SafeUnmarshal(version, content) ==
  LET record(assets) ==
        [Version |-> version, CoinbaseAddress |-> content.Address, Dbht |-> content.Height,
         WinPreviousOPR |-> content.Winners, FactomDigitalID |-> content.ID, Assets |-> assets]
      list == AssetList(version)
      json == UnmarshalJSON(content.Assets)
  IN  CASE version \notin 1..5 -> Failed
        [] version = 1 ->
             IF content.enc # "json" \/ "PNT" \notin DOMAIN content.Assets THEN Failed
             ELSE record([a \in (DOMAIN json \ {"PNT"}) \cup {"PEG"} |->
                            IF a = "PEG" THEN json["PNT"] ELSE json[a]])
        [] OTHER ->
             IF content.enc # "proto" \/ Len(content.Assets) # Len(list) THEN Failed
             ELSE record([a \in ToSet(list) |->
                            content.Assets[CHOOSE i \in DOMAIN list : list[i] = a]])

-----------------------------------------------------------------------------
(* OraclePriceRecord.Validate: everything but the previous winners. Only   *)
(* version 1 fixes how many it lists.                                      *)
Validate(opr, dbht) ==
  /\ NetworkActive(dbht)
  /\ \A a \in DOMAIN opr.Assets : opr.Assets[a] = 0 => opr.Version <= 2 /\ a = "PEG"
  /\ opr.Version > 1 => ValidIdentity(opr.FactomDigitalID)
  /\ opr.Version > 1 => ValidFCTAddress(opr.CoinbaseAddress)
  /\ opr.Dbht = dbht
  /\ opr.Version = OPRVersion(dbht)
  /\ opr.Version = 1 => Len(opr.WinPreviousOPR) = WinnersV1
  /\ ContainsExactly(opr.Assets, AssetList(opr.Version))

(* SetPegValues: PEG has no price before version 3.                        *)
SetPegValues(version, prices) ==
  [a \in DOMAIN prices |->
     IF a = "PEG" /\ version <= 2 THEN 0 ELSE SetValue(prices[a])]

(* NewOpr, from the wait for the winners on: the miner's identity and      *)
(* address, the winners announced to it (none: a bootstrap record with     *)
(* blanks) and the prices polled for the version's assets.                 *)
NewOpr(id, addr, dbht, toBePaid, prices) ==
  LET version == OPRVersion(dbht)
      bootstrap == [i \in 1..(IF version = 1 THEN WinnersV1 ELSE WinnersV2) |-> ""]
      opr == [Version |-> version, CoinbaseAddress |-> addr, Dbht |-> dbht,
              WinPreviousOPR |-> IF toBePaid = <<>> THEN bootstrap ELSE toBePaid,
              FactomDigitalID |-> id, Assets |-> SetPegValues(version, prices)]
  IN  IF Validate(opr, dbht) THEN opr ELSE Failed

(* CreateOPREntry: the nonce, its difficulty in 8 bytes and the version in *)
(* one. The true difficulty is what LXRHash gives for content and nonce.   *)
CreateOPREntry(opr, hash, nonce, difficulty) ==
  [EntryHash |-> hash, ExtIDs |-> 3, DifficultyBytes |-> 8, VersionBytes |-> 1,
   Nonce |-> nonce, SelfReportedDifficulty |-> difficulty, Difficulty |-> difficulty,
   Version |-> opr.Version, Content |-> SafeMarshal(opr)]

(* ParseOPREntry: the record an entry holds, or nil.                       *)
ParseOPREntry(entry, height) ==
  LET opr == SafeUnmarshal(entry.Version, entry.Content)
  IN  IF \/ entry.ExtIDs # 3 \/ entry.VersionBytes # 1
         \/ opr = Failed
         \/ ConvertFCTtoPegNetAsset(opr.CoinbaseAddress) = Failed
         \/ ~Validate(opr, height)
         \/ entry.DifficultyBytes # 8
      THEN Failed
      ELSE [EntryHash |-> entry.EntryHash, Nonce |-> entry.Nonce,
            OPRHash |-> entry.Content, WinPreviousOPR |-> opr.WinPreviousOPR,
            CoinbasePEGAddress |-> ConvertFCTtoPegNetAsset(opr.CoinbaseAddress),
            SelfReportedDifficulty |-> entry.SelfReportedDifficulty,
            Difficulty |-> entry.Difficulty,
            Tokens |-> [i \in DOMAIN AssetList(opr.Version) |->
                          opr.Assets[AssetList(opr.Version)[i]]],
            IsOPR |-> TRUE]
=============================================================================
