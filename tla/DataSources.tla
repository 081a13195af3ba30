----------------------------- MODULE DataSources ----------------------------
(***************************************************************************)
(* The price services the daemon polls (a file of polling/ each). A        *)
(* service lists prices under names of its own, some the wrong way round   *)
(* (how much of the asset a dollar buys). For each service: the assets it  *)
(* is used for (SupportedPegs), the names it is asked by, what a call      *)
(* brings back of all it lists, and how FetchPegPrices reads that.         *)
(*                                                                         *)
(* What a service lists is external: the functions with World in the name  *)
(* say how the outside names and quotes the assets, whatever the daemon    *)
(* asks for. Every asset group of the code is cut to one or two members.   *)
(***************************************************************************)
EXTENDS Integers, Sequences, FiniteSets, Functions, TLC

CONSTANTS
  Dollar,       \* the price of a dollar: prices are counted in cents
  RateUnit      \* a multiple of every price: the rate of a price v is RateUnit / v

PEGAsset            == {"PEG"}
CurrencyAssets      == {"USD", "EUR"}
CommodityAssets     == {"XAU", "XAG"}
CryptoAssets        == {"XBT", "FCT"}
V4CurrencyAdditions == {"AUD"}
V4CryptoAdditions   == {"EOS"}
V5CurrencyAdditions == {"AED"}
V5CryptoAdditions   == {"NEO", "CRO"}
AllAssets == PEGAsset \cup CurrencyAssets \cup CommodityAssets \cup CryptoAssets
               \cup V4CurrencyAdditions \cup V4CryptoAdditions
               \cup V5CurrencyAdditions \cup V5CryptoAdditions

(* The 1/v of the code, which turns a rate into a price and back.          *)
PerDollar(v) == RateUnit \div v

(* What is listed under the names asked for, if it is.                     *)
Only(list, names) == Restrict(list, names \cap DOMAIN list)

(* The asset that goes by a name.                                          *)
AssetNamed(names, n) == CHOOSE a \in DOMAIN names : names[a] = n

-----------------------------------------------------------------------------
(* How the world names and quotes the assets, given the prices in USD of   *)
(* those it lists. An asset worth nothing has no rate.                     *)
WorldTicker == [a \in AllAssets |-> IF a = "XBT" THEN "BTC" ELSE a]
WorldNumber == [PEG |-> 4979, XBT |-> 1, FCT |-> 1087, EOS |-> 1765, NEO |-> 1376, CRO |-> 3635]
WorldName   == [PEG |-> "pegnet", XBT |-> "bitcoin", FCT |-> "factom", EOS |-> "eos",
                NEO |-> "neo", CRO |-> "crypto-com-chain"]
WorldMetal  == [XAU |-> "Gold", XAG |-> "Silver"]

(* Prices, and rates per dollar, listed under the names `names' gives.     *)
Listed(names, prices) == {names[a] : a \in DOMAIN names \cap DOMAIN prices}
World(names, prices) == [n \in Listed(names, prices) |-> prices[AssetNamed(names, n)]]
WorldRates(names, prices) ==
  [n \in {n \in Listed(names, prices) : prices[AssetNamed(names, n)] # 0} |->
     PerDollar(prices[AssetNamed(names, n)])]

WorldPairs == [a \in AllAssets |-> <<"USD", a>>]

-----------------------------------------------------------------------------
(* apilayer.net: pairs USDXXX, inverted. All of them come in one call.     *)
APILayerPegs == CurrencyAssets \cup V4CurrencyAdditions \cup V5CurrencyAdditions
CallAPILayer(prices) == WorldRates(WorldPairs, prices)
APILayerPrices(quotes) ==
  [a \in {a \in APILayerPegs : <<"USD", a>> \in DOMAIN quotes} |-> PerDollar(quotes[<<"USD", a>>])]

(* exchangeratesapi.io: currencies by name, inverted.                      *)
ExchangeRatesPegs == CurrencyAssets
CallExchangeRatesAPI(prices) == WorldRates(WorldTicker, prices)
ExchangeRatesPrices(rates) ==
  [a \in ExchangeRatesPegs \cap DOMAIN rates |-> PerDollar(rates[a])]

(* openexchangerates.org: inverted, and bitcoin under BTC.                 *)
OpenExchangeRatesPegs ==
  CurrencyAssets \cup CommodityAssets \cup {"XBT"} \cup V4CurrencyAdditions \cup V5CurrencyAdditions
CallOpenExchangeRates(prices) == WorldRates(WorldTicker, prices)

OpenExchangeRatesPrices(rates) ==
  LET name(a) == IF a = "XBT" /\ "BTC" \in DOMAIN rates THEN "BTC" ELSE a
  IN  [a \in {a \in OpenExchangeRatesPegs : name(a) \in DOMAIN rates} |-> PerDollar(rates[name(a)])]

(* freeforexapi.com: the pairs asked for, inverted.                        *)
FreeForexPegs ==
  CurrencyAssets \cup {"XAU", "XAG"} \cup V4CurrencyAdditions \cup V5CurrencyAdditions
CallFreeForexAPI(prices) ==
  Only(WorldRates(WorldPairs, prices), {<<"USD", a>> : a \in FreeForexPegs})
FreeForexPrices(rates) ==
  [a \in {a \in FreeForexPegs : <<"USD", a>> \in DOMAIN rates} |-> PerDollar(rates[<<"USD", a>>])]

(* 1forge.com: the pairs XXX/USD asked for, some under other symbols.      *)
OneForgePegs == {"EUR", "XAU", "XAG", "AUD"}
OneForgeMapping == [XBT |-> "BTC"]
OneForgeSymbol(a) == <<IF a \in DOMAIN OneForgeMapping THEN OneForgeMapping[a] ELSE a, "USD">>
Call1Forge(prices) ==
  Only(World([a \in AllAssets |-> <<WorldTicker[a], "USD">>], prices),
       {OneForgeSymbol(a) : a \in OneForgePegs})
OneForgePrices(rates) ==
  [a \in {a \in OneForgePegs : OneForgeSymbol(a) \in DOMAIN rates} |-> rates[OneForgeSymbol(a)]]

(* kitco.com: a page with a table row per metal. ParseKitco picks the rows *)
(* apart; every metal must have parsed.                                    *)
KitcoPegs == CommodityAssets
ParseKitco(page, metal) == page[metal]
KitcoAnswers(prices) == KitcoPegs \subseteq DOMAIN prices
CallKitcoWeb(prices) ==
  LET page == World(WorldMetal, prices)
  IN  [metal \in {"Gold", "Silver"} |-> ParseKitco(page, metal)]
KitcoPrices(data) == [XAG |-> data["Silver"], XAU |-> data["Gold"]]

(* coincap.io: asked by name; records under their ticker, of which some    *)
(* are renamed and one with another asset's ticker is skipped.             *)
CoinCapPegs == CryptoAssets \cup V4CryptoAdditions \cup {"NEO"}
CoinCapIOCryptoAssetNames == [XBT |-> "bitcoin", FCT |-> "factom", EOS |-> "eos", NEO |-> "neo"]
CallCoinCap(prices) ==
  {[ID |-> WorldName[a], Symbol |-> WorldTicker[a], PriceUSD |-> prices[a]] :
     a \in {a \in DOMAIN WorldName \cap DOMAIN prices : WorldName[a] \in
              {CoinCapIOCryptoAssetNames[b] : b \in CoinCapPegs}}}
CoinCapPrices(data) ==
  LET genuine == {c \in data : c.Symbol \in DOMAIN CoinCapIOCryptoAssetNames
                                 => c.ID = CoinCapIOCryptoAssetNames[c.Symbol]}
      peg(c) == IF c.Symbol \in {"BTC", "XBT"} THEN "XBT" ELSE c.Symbol
      wanted == {c \in genuine : peg(c) \in CoinCapPegs}
  IN  [a \in {peg(c) : c \in wanted} |-> (CHOOSE c \in wanted : peg(c) = a).PriceUSD]

(* coingecko.com: by name.                                                 *)
CoinGeckoPegs == PEGAsset \cup CryptoAssets \cup V4CryptoAdditions \cup V5CryptoAdditions
CoinGeckoIDs == [PEG |-> "pegnet", XBT |-> "bitcoin", FCT |-> "factom", EOS |-> "eos",
                 NEO |-> "neo", CRO |-> "crypto-com-chain"]
CallCoinGecko(prices) ==
  Only(World(WorldName, prices), {CoinGeckoIDs[a] : a \in CoinGeckoPegs})
CoinGeckoPrices(resp) ==
  [a \in {a \in CoinGeckoPegs : CoinGeckoIDs[a] \in DOMAIN resp} |-> resp[CoinGeckoIDs[a]]]

(* coinmarketcap.com: by number. The symbol must be the asset's own,       *)
(* bitcoin and bitcoin cash excepted.                                      *)
CoinMarketCapPegs == CryptoAssets \cup V4CryptoAdditions \cup PEGAsset \cup V5CryptoAdditions
CoinMarketCapIDs == [XBT |-> 1, FCT |-> 1087, PEG |-> 4979, EOS |-> 1765, NEO |-> 1376, CRO |-> 3635]
CallCoinMarketCap(prices) ==
  [n \in {CoinMarketCapIDs[a] : a \in CoinMarketCapPegs} \cap Listed(WorldNumber, prices) |->
     [Symbol |-> WorldTicker[AssetNamed(WorldNumber, n)], USD |-> prices[AssetNamed(WorldNumber, n)]]]
CoinMarketCapPrices(data) ==
  [a \in {a \in CoinMarketCapPegs :
            /\ CoinMarketCapIDs[a] \in DOMAIN data
            /\ data[CoinMarketCapIDs[a]].Symbol = a \/ a = "XBT"} |->
     data[CoinMarketCapIDs[a]].USD]

(* alternative.me: the same numbers, without PEG; it sends all it has.     *)
AlternativeMePegs == CryptoAssets \cup {"EOS", "NEO"}
AlternativeMeIDs == [XBT |-> 1, FCT |-> 1087, EOS |-> 1765, NEO |-> 1376]
CallAlternativeMe(prices) == World(WorldNumber, prices)
AlternativeMePrices(data) ==
  [a \in {a \in AlternativeMePegs : AlternativeMeIDs[a] \in DOMAIN data} |-> data[AlternativeMeIDs[a]]]

(* pegnetmarketcap.com lists all pegs, of which PEG is taken.              *)
PegnetMarketCapPegs == PEGAsset
CallPegnetMarketCap(prices) == prices
PegnetMarketCapPrices(resp) == Only(resp, {"PEG"})

(* factoshi.io has the price of PEG and nothing else; a field that is not  *)
(* there is read as 0.                                                     *)
FactoshiioPegs == PEGAsset
CallFactoshiio(prices) == [price |-> IF "PEG" \in DOMAIN prices THEN prices["PEG"] ELSE 0]
FactoshiioPrices(resp) == [PEG |-> resp.price]

(* A dollar is a dollar; no call is made.                                  *)
FixedUSDPegs == {"USD"}
FixedUSDPrices == [USD |-> Dollar]

-----------------------------------------------------------------------------
(* NewDataSource: the services there are; any other name is an error.      *)
Services == {"APILayer", "ExchangeRates", "OpenExchangeRates", "FreeForexAPI", "1Forge",
             "Kitco", "CoinCap", "CoinGecko", "CoinMarketCap", "AlternativeMe",
             "PegnetMarketCap", "Factoshiio", "FixedUSD"}

SupportedPegs(source) ==
  CASE source = "APILayer"          -> APILayerPegs
    [] source = "ExchangeRates"     -> ExchangeRatesPegs
    [] source = "OpenExchangeRates" -> OpenExchangeRatesPegs
    [] source = "FreeForexAPI"      -> FreeForexPegs
    [] source = "1Forge"            -> OneForgePegs
    [] source = "Kitco"             -> KitcoPegs
    [] source = "CoinCap"           -> CoinCapPegs
    [] source = "CoinGecko"         -> CoinGeckoPegs
    [] source = "CoinMarketCap"     -> CoinMarketCapPegs
    [] source = "AlternativeMe"     -> AlternativeMePegs
    [] source = "PegnetMarketCap"   -> PegnetMarketCapPegs
    [] source = "Factoshiio"        -> FactoshiioPegs
    [] source = "FixedUSD"          -> FixedUSDPegs

(* A service's FetchPegPrices when its call comes back.                    *)
Fetched(source, prices) ==
  CASE source = "APILayer"          -> APILayerPrices(CallAPILayer(prices))
    [] source = "ExchangeRates"     -> ExchangeRatesPrices(CallExchangeRatesAPI(prices))
    [] source = "OpenExchangeRates" -> OpenExchangeRatesPrices(CallOpenExchangeRates(prices))
    [] source = "FreeForexAPI"      -> FreeForexPrices(CallFreeForexAPI(prices))
    [] source = "1Forge"            -> OneForgePrices(Call1Forge(prices))
    [] source = "Kitco"             -> KitcoPrices(CallKitcoWeb(prices))
    [] source = "CoinCap"           -> CoinCapPrices(CallCoinCap(prices))
    [] source = "CoinGecko"         -> CoinGeckoPrices(CallCoinGecko(prices))
    [] source = "CoinMarketCap"     -> CoinMarketCapPrices(CallCoinMarketCap(prices))
    [] source = "AlternativeMe"     -> AlternativeMePrices(CallAlternativeMe(prices))
    [] source = "PegnetMarketCap"   -> PegnetMarketCapPrices(CallPegnetMarketCap(prices))
    [] source = "Factoshiio"        -> FactoshiioPrices(CallFactoshiio(prices))
    [] source = "FixedUSD"          -> FixedUSDPrices
=============================================================================
