--------------------------- MODULE ParallelFetch ---------------------------
(***************************************************************************)
(* ParallelFetchOPRsFromEBlock and fetchOPRWorker (opr/grader.go): the     *)
(* caller hands the entries of an eblock to workers, a collector gathers   *)
(* their answers, and the caller returns the OPRs in entry order. The      *)
(* fetch is one step of GraderSync; here are the goroutines inside it.     *)
(*                                                                         *)
(* An entry is named by its order. What a worker finds out about it is an  *)
(* OPR with the right winners, something else, or an error.                *)
(***************************************************************************)
EXTENDS Integers, Sequences, FiniteSets, Functions

CONSTANTS
  Count,    \* entries of the eblock: at least MinRecords of them
  Workers,  \* the worker goroutines (4)
  Buffer    \* capacity of both channels (workerCount*2)

ASSUME FetchAssumption == Count \in Nat \ {0} /\ Buffer \in Nat \ {0} /\ Workers # {}

VARIABLES
  sent, mpc, result,         \* the caller
  work, collect, closed,     \* the channels; work may be closed
  wpc,                       \* each worker: what it holds
  resp, oprResponses, collectErr, cpc, count,  \* the collector
  wg,                        \* the wait group
  outcome                    \* history: what was found out about each entry

mainVars == <<sent, mpc, result>>
collectorVars == <<resp, oprResponses, collectErr, cpc, count>>
fetchVars == <<sent, mpc, result, work, collect, closed, wpc, resp, oprResponses, collectErr,
          cpc, count, wg, outcome>>

Orders == 1..Count
Kinds == {"opr", "other", "error"}
Response == [order : Orders, kind : Kinds]
Idle == [order |-> 0, kind |-> "idle"]
Stopped == [order |-> 0, kind |-> "stopped"]
NoResult == [oprs |-> <<>>, err |-> FALSE]

InitFetch ==
  /\ sent = 0 /\ mpc = "send" /\ result = NoResult
  /\ work = <<>> /\ collect = <<>> /\ closed = FALSE
  /\ wpc = [w \in Workers |-> Idle]
  /\ resp = Idle /\ oprResponses = <<>> /\ collectErr = FALSE
  /\ cpc = "range" /\ count = Count
  /\ wg = Count
  /\ outcome = [i \in Orders |-> "unknown"]
-----------------------------------------------------------------------------
(* The caller queues the next entry; after the last it waits.              *)
SendWork ==
  /\ mpc = "send" /\ Len(work) < Buffer
  /\ work' = Append(work, sent + 1)
  /\ sent' = sent + 1
  /\ mpc' = IF sent' = Count THEN "wait" ELSE "send"
  /\ UNCHANGED <<result, collect, closed, wpc, collectorVars, wg, outcome>>

(* The responses sorted back into entry order: moved about until no one    *)
(* is before a lower one.                                                  *)
Ascending(s) == \A i, j \in DOMAIN s : i < j => s[i] <= s[j]
Moved(s, p) == [i \in DOMAIN s |-> s[p[i]]]
SortByOrder(responses) ==
  Moved(responses, CHOOSE p \in Bijection(DOMAIN responses, DOMAIN responses) :
                     Ascending(Moved(responses, p)))

(* wg.Wait returns.                                                        *)
Return ==
  /\ mpc = "wait" /\ wg = 0
  /\ result' = [oprs |-> SortByOrder(oprResponses), err |-> collectErr]
  /\ mpc' = "returned"
  /\ UNCHANGED <<sent, work, collect, closed, wpc, collectorVars, wg, outcome>>
-----------------------------------------------------------------------------
(* A worker takes a job and asks factomd for the entry.                    *)
FetchEntry(w) ==
  /\ wpc[w] = Idle /\ work # <<>>
  /\ work' = Tail(work)
  /\ \E kind \in Kinds :
       /\ wpc' = [wpc EXCEPT ![w] = [order |-> Head(work), kind |-> kind]]
       /\ outcome' = [outcome EXCEPT ![Head(work)] = kind]
  /\ UNCHANGED <<mainVars, collect, closed, collectorVars, wg>>

(* A worker that gives up at an error, for the mutation runs.              *)
SendResultOrStop(w) ==
  /\ wpc[w] \in Response /\ Len(collect) < Buffer
  /\ collect' = IF wpc[w].kind = "error" THEN collect ELSE Append(collect, wpc[w])
  /\ wpc' = [wpc EXCEPT ![w] = IF @.kind = "error" THEN Stopped ELSE Idle]
  /\ UNCHANGED <<mainVars, work, closed, collectorVars, wg, outcome>>

SendResult(w) ==
  /\ wpc[w] \in Response /\ Len(collect) < Buffer
  /\ collect' = Append(collect, wpc[w])
  /\ wpc' = [wpc EXCEPT ![w] = Idle]
  /\ UNCHANGED <<mainVars, work, closed, collectorVars, wg, outcome>>

(* The work channel is closed: the worker returns.                         *)
StopWorking(w) ==
  /\ wpc[w] = Idle /\ work = <<>> /\ closed
  /\ wpc' = [wpc EXCEPT ![w] = Stopped]
  /\ UNCHANGED <<mainVars, work, collect, closed, collectorVars, wg, outcome>>
-----------------------------------------------------------------------------
(* The collector receives a response,                                      *)
Receive ==
  /\ cpc = "range" /\ collect # <<>>
  /\ resp' = Head(collect) /\ collect' = Tail(collect)
  /\ cpc' = "record"
  /\ UNCHANGED <<mainVars, work, closed, wpc, oprResponses, collectErr, count, wg, outcome>>

(* Record that remembers only the last answer's error, for the mutation    *)
(* runs.                                                                   *)
RecordLastError ==
  /\ cpc = "record"
  /\ collectErr' = (resp.kind = "error")
  /\ oprResponses' = IF resp.kind = "opr" THEN Append(oprResponses, resp.order) ELSE oprResponses
  /\ cpc' = "done"
  /\ UNCHANGED <<mainVars, work, collect, closed, wpc, resp, count, wg, outcome>>

(* records it,                                                             *)
Record ==
  /\ cpc = "record"
  /\ collectErr' = (collectErr \/ resp.kind = "error")
  /\ oprResponses' = IF resp.kind = "opr" THEN Append(oprResponses, resp.order) ELSE oprResponses
  /\ cpc' = "done"
  /\ UNCHANGED <<mainVars, work, collect, closed, wpc, resp, count, wg, outcome>>

(* A collector that leaves one answer early, for the mutation runs.        *)
DoneEarly ==
  /\ cpc = "done"
  /\ wg' = wg - 1
  /\ count' = count - 1
  /\ cpc' = IF count' <= 1 THEN "close" ELSE "range"
  /\ UNCHANGED <<mainVars, work, collect, closed, wpc, resp, oprResponses, collectErr, outcome>>

(* and only then tells the wait group (wg.Done) and counts it off.         *)
Done ==
  /\ cpc = "done"
  /\ wg' = wg - 1
  /\ count' = count - 1
  /\ cpc' = IF count' = 0 THEN "close" ELSE "range"
  /\ UNCHANGED <<mainVars, work, collect, closed, wpc, resp, oprResponses, collectErr, outcome>>

CloseWork ==
  /\ cpc = "close"
  /\ closed' = TRUE /\ cpc' = "returned"
  /\ UNCHANGED <<mainVars, work, collect, wpc, resp, oprResponses, collectErr, count, wg, outcome>>

Caller == SendWork \/ Return
Worker(w) == FetchEntry(w) \/ SendResult(w) \/ StopWorking(w)
Collector == Receive \/ Record \/ Done \/ CloseWork

NextFetch == Caller \/ Collector \/ \E w \in Workers : Worker(w)

FetchSpec == InitFetch /\ [][NextFetch]_fetchVars

(* Every goroutine that can take a step takes one.                         *)
FairFetchSpec == FetchSpec /\ WF_fetchVars(Caller) /\ WF_fetchVars(Collector) /\ \A w \in Workers : WF_fetchVars(Worker(w))
-----------------------------------------------------------------------------
(* What is returned is what a sequential loop over the entries would       *)
(* return: all the OPRs and no others, in entry order, with an error if    *)
(* and only if some entry failed. FetchFails and FetchFromFactomd of       *)
(* GraderSync rest on it.                                                  *)
FetchIsSequential ==
  mpc = "returned" =>
    /\ Range(result.oprs) = {i \in Orders : outcome[i] = "opr"}
    /\ \A i, j \in DOMAIN result.oprs : i < j => result.oprs[i] < result.oprs[j]
    /\ result.err = (\E i \in Orders : outcome[i] = "error")

(* The work channel is closed only when nothing will be sent to it any     *)
(* more (a send would panic), the wait group never goes below zero, and    *)
(* the collector writes nothing once the caller may read.                  *)
NoUseAfterClose ==
  /\ closed => mpc # "send" /\ work = <<>> /\ collect = <<>>
  /\ wg = 0 => /\ \A i \in Orders : outcome[i] # "unknown"
               /\ cpc \in {"close", "returned"}
  /\ wg >= 0

(* A fetch that has begun returns and leaves no goroutine behind, however  *)
(* the channels fill up.                                                   *)
FetchEnds ==
  sent > 0 ~> (mpc = "returned" /\ cpc = "returned" /\ \A w \in Workers : wpc[w] = Stopped)
=============================================================================
