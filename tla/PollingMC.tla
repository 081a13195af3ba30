------------------------------ MODULE PollingMC -----------------------------
EXTENDS Polling

Prioritised(list) == [s \in Range(list) |-> CHOOSE i \in DOMAIN list : list[i] = s]
NoOverride == [a \in {} |-> <<>>]

(* Version 5 with three services and more for currencies and coins; metals *)
(* only; coins with one service each; and configurations that are wrong.   *)
MCConfigs ==
  {[priority |-> Prioritised(<<"1Forge", "FreeForexAPI", "OpenExchangeRates", "FixedUSD",
                               "CoinMarketCap", "CoinGecko", "CoinCap">>),
    override |-> NoOverride, version |-> 5],
   [priority |-> Prioritised(<<"CoinGecko", "APILayer", "Kitco", "AlternativeMe">>),
    override |-> [EUR |-> <<"APILayer", "CoinGecko">>], version |-> 4],
   [priority |-> Prioritised(<<"Factoshiio", "ExchangeRates", "Kitco", "AlternativeMe">>),
    override |-> NoOverride, version |-> 3],
   [priority |-> Prioritised(<<"Kitco", "ExchangeRates", "CoinCap">>),
    override |-> NoOverride, version |-> 3],
   [priority |-> Prioritised(<<"ExchangeRates", "Kitco", "CoinCap">>),
    override |-> NoOverride, version |-> 1],
   [priority |-> [Prioritised(<<"PegnetMarketCap", "FreeForexAPI", "CoinCap">>) EXCEPT !["FreeForexAPI"] = -1],
    override |-> [EUR |-> <<"FreeForexAPI">>, USD |-> <<"CoinCap">>], version |-> 2],
   [priority |-> [Kitco |-> 1, CoinCap |-> 1], override |-> NoOverride, version |-> 2],
   [priority |-> [Nowhere |-> 1], override |-> NoOverride, version |-> 2],
   [priority |-> Prioritised(<<"ExchangeRates", "CoinCap">>), override |-> NoOverride, version |-> 2],
   [priority |-> Prioritised(<<"PegnetMarketCap", "OpenExchangeRates", "CoinCap">>),
    override |-> [XAU |-> <<"FreeForexAPI">>], version |-> 2]}

(* Answers at a hundredth of the market, which cutting takes to nothing,   *)
(* with some assets not listed, and a little above it, with some at zero.  *)
MCViews ==
  {Fair, [level |-> 1, unlisted |-> {"PEG", "EUR", "XBT"}, worthless |-> {}],
   [level |-> 105, unlisted |-> {}, worthless |-> {"PEG", "FCT", "XAG"}]}
=============================================================================
