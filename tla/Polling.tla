------------------------------ MODULE Polling -------------------------------
(***************************************************************************)
(* How the daemon puts its prices together (polling/assets.go,             *)
(* polling/datasource.go): the services of the configuration, in the order *)
(* of their priorities, are asked for each asset in turn, and one quote is *)
(* chosen. A service is called at most once in eight minutes, which the    *)
(* timed cache sees to, and one pull sees one answer of it, which the      *)
(* cache of the pull (OneTimeUseCache) sees to.                            *)
(*                                                                         *)
(* A call may fail, and the services need not agree: an answer carries the *)
(* view the service has of the market, its level, the same for all assets, *)
(* the assets it does not list and those it has no price of.               *)
(***************************************************************************)
EXTENDS DataSources, SequencesExt, FiniteSetsExt, Sums, Sorting

CONSTANTS
  Configs,      \* [priority: service -> Int, override: asset -> services, version]
  Views,        \* what a service may see: [level, unlisted, worthless]
  MaxOff,       \* bound on the answers that are off: errors, or not Fair
  MaxPulls,     \* bound on pulls
  MaxExpired,   \* bound on the times a cache runs out
  None

VARIABLES
  config, panicked,
  sources,      \* d.AssetSources, or None before NewDataSources
  timed,        \* per service, the answer in its timed cache, or None
  fresh,        \* the services whose timed cache is younger than 8 minutes
  pull,         \* the pull under way, or None
  result,       \* how the last pull ended: its prices, or None
  calls, off, pulls, expired,
  stale         \* history: the answers that had run out before this pull

pollingVars == <<config, panicked, sources, timed, fresh, pull, result, calls, off, pulls, expired, stale>>

(* Prices when the market is at a level of so many percent: gold and       *)
(* bitcoin are worth over a thousand dollars, the others about one.        *)
Market(level) ==
  [a \in AllAssets |-> CASE a = "USD"            -> Dollar
                         [] a \in {"XAU", "XBT"} -> 15 * Dollar * level
                         [] OTHER                -> (Dollar * level) \div 100]

(* The view of most services, and the prices a view gives.                 *)
Fair == [level |-> 100, unlisted |-> {}, worthless |-> {}]
Seen(view) ==
  [a \in AllAssets \ view.unlisted |-> IF a \in view.worthless THEN 0 ELSE Market(view.level)[a]]

(* What a service may answer to a call, numbered.                          *)
Answer == [call : Nat, prices : {Fetched(s, Seen(view)) : s \in Services, view \in Views}]

ASSUME PollingAssumption ==
  /\ Dollar \in Nat \ {0} /\ RateUnit \in Nat \ {0}
  /\ Fair \in Views
  /\ Views \subseteq [level : Nat, unlisted : SUBSET AllAssets, worthless : SUBSET AllAssets]
  /\ \A view \in Views : \A a \in AllAssets :
       Market(view.level)[a] > 0 /\ RateUnit % Market(view.level)[a] = 0
  /\ \A c \in Configs : \A a \in DOMAIN c.override : c.override[a] \in Seq(STRING)
  /\ None \notin Answer /\ None \notin [source : Services, value : Nat]

-----------------------------------------------------------------------------
(* The assets of a pull.                                                   *)
PulledAssets(version) ==
  LET v2 == <<"PEG", "USD", "EUR", "XAU", "XAG", "XBT", "FCT">>
      v4 == v2 \o <<"AUD", "EOS">>
      v5 == v4 \o <<"NEO", "CRO", "AED">>
  IN  IF version = 4 THEN v4 ELSE IF version \in {5, 6, 7} THEN v5 ELSE v2

(* Prices are cut to 8 decimals, and to 4 in version 1.                    *)
TruncateTo4(v) == v - (v % 10)
TruncateTo8(v) == v - (v % 2)

-----------------------------------------------------------------------------
(* NewDataSources: the services with a priority, sorted by it; two of the  *)
(* same priority are refused. The services of an asset keep that order,    *)
(* unless the configuration overrides it.                                  *)
Enabled == {s \in DOMAIN config.priority : config.priority[s] # -1}
Ahead(s, t) == config.priority[s] < config.priority[t]
sortPriorityList(list) == StableSort(list, Ahead)
AssetSources ==
  [a \in AllAssets |->
     IF a \in DOMAIN config.override THEN config.override[a]
     ELSE sortPriorityList(SetToSeq({s \in Enabled : a \in SupportedPegs(s)}))]

NewDataSources ==
  /\ sources = None /\ ~panicked
  /\ IF \/ \E s, t \in Enabled : s # t /\ config.priority[s] = config.priority[t]
        \/ ~ Enabled \subseteq Services
     THEN panicked' = TRUE /\ UNCHANGED sources
     ELSE sources' = AssetSources /\ UNCHANGED panicked
  /\ UNCHANGED <<config, timed, fresh, pull, result, calls, off, pulls, expired, stale>>

InitPolling ==
  /\ config \in Configs
  /\ panicked = FALSE /\ sources = None
  /\ timed = [s \in Services |-> None]
  /\ fresh = {}
  /\ pull = None /\ result = None
  /\ calls = 0 /\ off = 0 /\ pulls = 0 /\ expired = 0
  /\ stale = {}

-----------------------------------------------------------------------------
(* A pull that remembers no answer, for the mutation runs.                 *)
NoRemember(cache, s, answer) == cache

(* NewCachedDataSource: a pull begins with an empty cache per service.     *)
NewCachedDataSources == [s \in Services |-> None]

(* OneTimeUseCache.FetchPegPrices keeps what the service returned.         *)
Remember(cache, s, answer) == [cache EXCEPT ![s] = answer]

(* PullAllPEGAssets begins.                                                *)
StartPull ==
  /\ sources # None /\ pull = None /\ ~panicked /\ pulls < MaxPulls
  /\ pulls' = pulls + 1
  /\ pull' = [todo   |-> PulledAssets(config.version), ask |-> sources["PEG"],
              prices |-> <<>>, err |-> FALSE, once |-> NewCachedDataSources,
              used   |-> {}, chosen |-> <<>>]
  /\ stale' = {timed[s].call : s \in {s \in Services \ fresh : timed[s] # None}}
  /\ UNCHANGED <<config, panicked, sources, timed, fresh, result, calls, off, expired>>

Asset == Head(pull.todo)
Asking == pull # None /\ ~panicked /\ pull.ask # <<>>
Asked == Head(pull.ask)

(* FetchPegPrice: the asset is looked up in the answer; PullBestPrice      *)
(* keeps the quote unless it is zero.                                      *)
Quote(answer) ==
  IF Asset \in DOMAIN answer.prices
  THEN [pull EXCEPT !.ask = Tail(@), !.err = FALSE,
                    !.prices = IF answer.prices[Asset] = 0 THEN @
                               ELSE Append(@, [source |-> Asked, value |-> answer.prices[Asset]])]
  ELSE [pull EXCEPT !.ask = Tail(@), !.err = TRUE]

(* The pull has the answer of the service already.                         *)
FromOneTimeUseCache ==
  /\ Asking /\ Asked \in Enabled /\ pull.once[Asked] # None
  /\ pull' = [Quote(pull.once[Asked]) EXCEPT !.used = @ \cup {<<Asked, pull.once[Asked].call>>}]
  /\ UNCHANGED <<config, panicked, sources, timed, fresh, result, calls, off, pulls, expired, stale>>

(* The service was called within the last eight minutes.                   *)
FromTimedCache ==
  /\ Asking /\ Asked \in Enabled /\ pull.once[Asked] = None
  /\ timed[Asked] # None /\ Asked \in fresh
  /\ pull' = [Quote(timed[Asked]) EXCEPT !.once = Remember(@, Asked, timed[Asked]),
                                         !.used = @ \cup {<<Asked, timed[Asked].call>>}]
  /\ UNCHANGED <<config, panicked, sources, timed, fresh, result, calls, off, pulls, expired, stale>>

MustCall ==
  /\ Asking /\ Asked \in Enabled /\ pull.once[Asked] = None
  /\ timed[Asked] = None \/ Asked \notin fresh

(* The service is called and answers.                                      *)
CallSource ==
  /\ MustCall
  /\ \E view \in Views :
       LET answer == [call |-> calls + 1, prices |-> Fetched(Asked, Seen(view))]
       IN  /\ view # Fair => off < MaxOff /\ Asked # "FixedUSD"
           /\ Asked = "Kitco" => KitcoAnswers(Seen(view))
           /\ off' = IF view = Fair THEN off ELSE off + 1
           /\ timed' = [timed EXCEPT ![Asked] = answer]
           /\ pull' = [Quote(answer) EXCEPT !.once = Remember(@, Asked, answer),
                                            !.used = @ \cup {<<Asked, calls + 1>>}]
  /\ calls' = calls + 1
  /\ fresh' = fresh \cup {Asked}
  /\ UNCHANGED <<config, panicked, sources, result, pulls, expired, stale>>

(* The call fails. Nothing is cached, so the next asset calls again. The   *)
(* call to apilayer closes the body of a response it did not get.          *)
CallFails ==
  /\ MustCall /\ Asked # "FixedUSD" /\ off < MaxOff
  /\ off' = off + 1
  /\ IF Asked = "APILayer"
     THEN panicked' = TRUE /\ UNCHANGED pull
     ELSE pull' = [pull EXCEPT !.ask = Tail(@), !.err = TRUE] /\ UNCHANGED panicked
  /\ UNCHANGED <<config, sources, timed, fresh, result, calls, pulls, expired, stale>>

(* A service of an override that is not configured: sources[source] is nil.*)
AskUnknown ==
  /\ Asking /\ Asked \notin Enabled
  /\ panicked' = TRUE
  /\ UNCHANGED <<config, sources, timed, fresh, pull, result, calls, off, pulls, expired, stale>>

-----------------------------------------------------------------------------
Values(prices) == [i \in DOMAIN prices |-> prices[i].value]
SumOf(prices) == Sum(Values(prices))
Cheaper(q, r) == q.value < r.value

(* TrimmedMean as a mean of all the quotes, for the mutation runs.         *)
PlainMean(prices, p) == [sum |-> SumOf(prices), count |-> Len(prices), data |-> prices]

(* TrimmedMean as a sum and a count, and what it leaves of its argument:   *)
(* with three quotes or more the caller's slice is sorted by value.        *)
TrimmedMean(prices, p) ==
  IF Len(prices) < 3 THEN [sum |-> prices[1].value, count |-> 1, data |-> prices]
  ELSE LET sorted == StableSort(prices, Cheaper)
       IN  [sum   |-> SumOf(SubSeq(sorted, p + 1, Len(sorted) - p)),
            count |-> Len(prices) - 2 * p, data |-> sorted]

(* The tolerance is one part in so many of the mean.                       *)
ToleranceParts(mean) == IF mean.sum >= 1000 * Dollar * mean.count THEN 100 ELSE 10
WithinBand(value, mean) ==
  LET parts == ToleranceParts(mean)
  IN  value * mean.count * parts \in mean.sum * (parts - 1) .. mean.sum * (parts + 1)

(* The choice of PullBestPrice among the quotes it has: in version 5 the   *)
(* first within the tolerance band, otherwise the first.                   *)
BestOf(prices) ==
  LET mean   == TrimmedMean(prices, 1)
      inBand == {i \in DOMAIN mean.data : WithinBand(mean.data[i].value, mean)}
  IN  IF config.version # 5 THEN prices[1]
      ELSE IF inBand # {} THEN mean.data[Min(inBand)] ELSE mean.data[1]

(* The next asset, with the price of this one cut and kept; its quotes are *)
(* remembered for the properties.                                          *)
Priced(price, value) ==
  [pull EXCEPT !.todo = Tail(@), !.prices = <<>>, !.err = FALSE,
               !.ask = IF Tail(pull.todo) = <<>> THEN <<>> ELSE sources[pull.todo[2]],
               !.chosen = Append(@, [asset |-> Asset, quote |-> price, quotes |-> pull.prices,
                                     value |-> IF config.version = 1
                                               THEN TruncateTo4(value) ELSE TruncateTo8(value)])]

(* PriceFound that lets any asset go without a quote, for the mutation     *)
(* runs.                                                                   *)
PriceFoundOrNot ==
  /\ pull # None /\ ~panicked /\ pull.todo # <<>> /\ pull.ask = <<>>
  /\ IF pull.prices # <<>> THEN pull' = Priced(BestOf(pull.prices), BestOf(pull.prices).value)
     ELSE ~pull.err /\ pull' = Priced(None, 0)
  /\ UNCHANGED <<config, panicked, sources, timed, fresh, result, calls, off, pulls, expired, stale>>

(* PullBestPrice returns a quote; PEG may have none, except in version 3.  *)
PriceFound ==
  /\ pull # None /\ ~panicked /\ pull.todo # <<>> /\ pull.ask = <<>>
  /\ IF pull.prices # <<>> THEN pull' = Priced(BestOf(pull.prices), BestOf(pull.prices).value)
     ELSE /\ ~pull.err /\ Asset = "PEG" /\ config.version # 3
          /\ pull' = Priced(None, 0)
  /\ UNCHANGED <<config, panicked, sources, timed, fresh, result, calls, off, pulls, expired, stale>>

(* No quote, and the last service failed, or there is none for the asset:  *)
(* the pull fails.                                                         *)
NoPrice ==
  /\ pull # None /\ ~panicked /\ pull.todo # <<>> /\ pull.ask = <<>> /\ pull.prices = <<>>
  /\ pull.err \/ Asset # "PEG" \/ config.version = 3
  /\ pull' = None
  /\ result' = None
  /\ UNCHANGED <<config, panicked, sources, timed, fresh, calls, off, pulls, expired, stale>>

EndPull ==
  /\ pull # None /\ ~panicked /\ pull.todo = <<>>
  /\ pull' = None
  /\ result' = pull
  /\ UNCHANGED <<config, panicked, sources, timed, fresh, calls, off, pulls, expired, stale>>

(* Eight minutes have passed since a service was called.                   *)
Expire(s) ==
  /\ s \in fresh /\ expired < MaxExpired
  /\ fresh' = fresh \ {s}
  /\ expired' = expired + 1
  /\ UNCHANGED <<config, panicked, sources, timed, pull, result, calls, off, pulls, stale>>

NextPolling ==
  \/ NewDataSources \/ StartPull
  \/ FromOneTimeUseCache \/ FromTimedCache \/ CallSource \/ CallFails \/ AskUnknown
  \/ PriceFound \/ NoPrice \/ EndPull
  \/ \E s \in Services : Expire(s)

PollingSpec == InitPolling /\ [][NextPolling]_pollingVars

-----------------------------------------------------------------------------
(* All the prices of a pull that come from one service come from one       *)
(* answer, even if its timed cache runs out half way, and the answer had   *)
(* not run out before the pull (PullAllPEGAssets, the two caches).         *)
OneFreshAnswerPerPull ==
  pull # None =>
    /\ \A u, v \in pull.used : u[1] = v[1] => u = v
    /\ \A u \in pull.used : u[2] \notin stale

(* In version 5 a single service cannot set a price: of three quotes or    *)
(* more of which all but one agree, the price is within the tolerance of   *)
(* the ones that agree (PullBestPrice, TrimmedMean).                       *)
OneOutlierDoesNotWin ==
  pull # None /\ config.version = 5 =>
    \A c \in Range(pull.chosen) :
      LET agree(v) == {i \in DOMAIN c.quotes : c.quotes[i].value = v}
      IN  \A v \in Range(Values(c.quotes)) :
            Len(c.quotes) >= 3 /\ Cardinality(agree(v)) >= Len(c.quotes) - 1 =>
              WithinBand(c.quote.value, [sum |-> v, count |-> 1])

(* A pull that ends has a price for every asset it was to price, in order. *)
(* The price is what a service configured for that asset answered, in the  *)
(* one answer this pull has of it, and not zero before it is cut, whatever *)
(* failed, was not listed or was listed at zero in between. Only PEG may   *)
(* go without: not in version 3, and only if no service is configured for  *)
(* it or the last of them did answer, with zero (PullAllPEGAssets,         *)
(* PullBestPrice).                                                         *)
EveryAssetIsPriced ==
  result # None =>
    /\ [i \in DOMAIN result.chosen |-> result.chosen[i].asset] = PulledAssets(config.version)
    /\ \A c \in Range(result.chosen) :
         LET asked    == sources[c.asset]
             quote(s) == IF result.once[s] = None THEN None ELSE result.once[s].prices[c.asset]
         IN  IF c.quote # None
             THEN /\ c.quote.source \in Range(asked)
                  /\ c.quote.value = quote(c.quote.source) /\ c.quote.value > 0
             ELSE /\ c.asset = "PEG" /\ config.version # 3
                  /\ asked # <<>> => quote(Last(asked)) = 0

(* What the comment at assets.go:397 says, "We keep datasource priority    *)
(* order here": in version 5 the price is the quote within the band whose  *)
(* service comes first in the order of priorities.                         *)
PriorityOrderIsKept ==
  pull # None /\ config.version = 5 =>
    \A c \in Range(pull.chosen) : c.quotes # <<>> =>
      LET mean   == TrimmedMean(c.quotes, 1)
          inBand == SelectSeq(c.quotes, LAMBDA q : WithinBand(q.value, mean))
      IN  inBand # <<>> => c.quote = inBand[1]
=============================================================================
