----------------------------- MODULE ProcessesMC ----------------------------
(***************************************************************************)
(* The processes around the miner, side by side: the staking daemon, the   *)
(* network miner with its server, and the goroutines that fetch an eblock. *)
(* They share nothing, so a behaviour moves one of them; each is fair as   *)
(* its own specification says.                                             *)
(***************************************************************************)
EXTENDS NetworkMiner, Staking, ParallelFetch

VARIABLE part   \* the system that moves

allVars == <<vars, stakingVars, fetchVars, part>>

InitAll ==
  /\ part \in {"network", "staking", "fetch"}
  /\ Init /\ InitStaking /\ InitFetch
  /\ part = "network" \/ (~useAuth /\ secret = "right")

NetworkMoves(A) == part = "network" /\ A /\ UNCHANGED <<stakingVars, fetchVars, part>>
StakingMoves(A) == part = "staking" /\ A /\ UNCHANGED <<vars, fetchVars, part>>
FetchMoves(A)   == part = "fetch" /\ A /\ UNCHANGED <<vars, stakingVars, part>>

NextAll == NetworkMoves(Next) \/ StakingMoves(NextStaking) \/ FetchMoves(NextFetch)

FairnessAll ==
  /\ WF_allVars(NetworkMoves(Client)) /\ WF_allVars(NetworkMoves(Server))
  /\ WF_allVars(StakingMoves(~panicked /\ (Coordinator \/ NewSPRFails)))
  /\ WF_allVars(StakingMoves(~panicked /\ Staker))
  /\ \A w \in 1..(MaxStaked + 1) :
       WF_allVars(StakingMoves(~panicked /\ (EntryWritten(w) \/ EntryFails(w))))
  /\ WF_allVars(FetchMoves(Caller)) /\ WF_allVars(FetchMoves(Collector))
  /\ \A w \in Workers : WF_allVars(FetchMoves(Worker(w)))

SpecAll == InitAll /\ [][NextAll]_allVars /\ FairnessAll

MCAddresses == <<"FA1", "FA2">>
=============================================================================
