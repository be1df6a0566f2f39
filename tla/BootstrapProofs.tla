---------------------------- MODULE BootstrapProofs ----------------------------
(***************************************************************************)
(* The launch script, for any number of launches: however they fail and    *)
(* overlap, the masterpool never gets stuck before genesis, and a record   *)
(* that was written is true.                                               *)
(***************************************************************************)
EXTENDS Bootstrap, TLAPS

StepNames == {"create_claw", "create_usdc", "hand_over_mint", "hand_over_freeze",
              "initialize", "mint_genesis", "configure_attestation", "write_record", "done"}

BootstrapTypeOK ==
    /\ at \in [Runs -> StepNames \cup {"stopped"}]
    /\ DOMAIN claw_mint = Runs
    /\ DOMAIN usdc_mint = Runs
    /\ config \in GlobalConfig \cup {None}
    /\ reward_vault \in Nat
    /\ att_config \in BOOLEAN
    /\ record \in Runs \cup {None}

MintOf(mint_authority, freeze_authority, supply) ==
    [mint_authority |-> mint_authority, freeze_authority |-> freeze_authority, supply |-> supply]

UntilInitialized ==
    {"create_claw", "create_usdc", "hand_over_mint", "hand_over_freeze", "initialize"}

\* The masterpool is bound to the mints of run, and its genesis was minted.
GenesisOf(run) ==
    config = [claw_mint |-> run, usdc_mint |-> run, genesis_minted |-> TRUE]

\* What a run that has come to this step has done to its mints and the pool.  Of
\* a run that stopped nothing is known but what BoundRun says.
DoneBy(run) ==
    /\ at[run] \in {"create_usdc", "hand_over_mint"} =>
         claw_mint[run] = MintOf("admin", "admin", 0)
    /\ at[run] = "hand_over_freeze" => claw_mint[run] = MintOf("pool", "admin", 0)
    /\ at[run] \in {"initialize", "mint_genesis"} => claw_mint[run] = MintOf("pool", "pool", 0)
    /\ at[run] \in {"hand_over_mint", "hand_over_freeze", "initialize"} =>
         usdc_mint[run] = "operator"
    /\ at[run] = "mint_genesis" =>
         config = [claw_mint |-> run, usdc_mint |-> run, genesis_minted |-> FALSE]
    /\ at[run] \in {"configure_attestation", "write_record", "done"} => GenesisOf(run)
    /\ at[run] \in {"write_record", "done"} => att_config

\* What the masterpool was bound to, whether or not the run that bound it is
\* still under way.
BoundRun ==
    /\ config = None => reward_vault = 0
    /\ config # None =>
         LET run == config.claw_mint IN
         /\ config.usdc_mint = run
         /\ at[run] \notin UntilInitialized
         /\ usdc_mint[run] = "operator"
         /\ IF config.genesis_minted
            THEN /\ claw_mint[run] = MintOf(None, None, GENESIS_TOTAL_SUPPLY)
                 /\ reward_vault = GENESIS_TOTAL_SUPPLY
            ELSE claw_mint[run] = MintOf("pool", "pool", 0) /\ reward_vault = 0

Recorded == record # None => GenesisOf(record) /\ att_config

\* GenesisStillMintable alone is not inductive: that the bound mint is the pool's
\* follows from the order of the awaits, which DoneBy keeps for each run.
BootstrapInv ==
    BootstrapTypeOK /\ (\A run \in Runs : DoneBy(run)) /\ BoundRun /\ Recorded

-----------------------------------------------------------------------------

\* The awaits follow each other as main lists them.
LEMMA AfterSteps ==
  /\ After("create_claw") = "create_usdc"
  /\ After("create_usdc") = "hand_over_mint"
  /\ After("hand_over_mint") = "hand_over_freeze"
  /\ After("hand_over_freeze") = "initialize"
  /\ After("initialize") = "mint_genesis"
  /\ After("mint_genesis") = "configure_attestation"
  /\ After("configure_attestation") = "write_record"
  /\ After("write_record") = "done"
<1>1. ASSUME NEW k \in 1..8 PROVE After(Steps[k]) = Steps[1 + k]
  <2>1. \A i, j \in 1..8 : Steps[i] = Steps[j] => i = j
    BY DEF Steps
  <2>2. \A i \in 1..8 : Steps[i] = Steps[k] => i = k
    BY <2>1
  <2> DEFINE j == CHOOSE i \in 1..8 : Steps[i] = Steps[k]
  <2>3. j \in 1..8 /\ Steps[j] = Steps[k]
    OBVIOUS
  <2>4. j = k
    BY <2>2, <2>3
  <2> QED
    BY <2>4 DEF After
<1>2. /\ After(Steps[1]) = Steps[2] /\ After(Steps[2]) = Steps[3]
      /\ After(Steps[3]) = Steps[4] /\ After(Steps[4]) = Steps[5]
      /\ After(Steps[5]) = Steps[6] /\ After(Steps[6]) = Steps[7]
      /\ After(Steps[7]) = Steps[8] /\ After(Steps[8]) = Steps[9]
  BY <1>1
<1>3. /\ Steps[1] = "create_claw" /\ Steps[2] = "create_usdc" /\ Steps[3] = "hand_over_mint"
      /\ Steps[4] = "hand_over_freeze" /\ Steps[5] = "initialize"
      /\ Steps[6] = "mint_genesis" /\ Steps[7] = "configure_attestation"
      /\ Steps[8] = "write_record" /\ Steps[9] = "done"
  BY DEF Steps
<1> QED
  BY <1>2, <1>3

\* A bound masterpool has a configuration, and it is the run's.
LEMMA GenesisOfRun ==
  ASSUME NEW run \in Runs, NEW minted \in BOOLEAN,
         config = [claw_mint |-> run, usdc_mint |-> run, genesis_minted |-> minted]
  PROVE  config # None /\ config.claw_mint = run /\ config.genesis_minted = minted
BY BootstrapNoneAssumption DEF GlobalConfig

LEMMA BootstrapInvInit == Init => BootstrapInv
<1> SUFFICES ASSUME Init PROVE BootstrapInv
  OBVIOUS
<1>1. BootstrapTypeOK
  BY DEF Init, BootstrapTypeOK, StepNames
<1>2. ASSUME NEW run \in Runs PROVE DoneBy(run)
  <2>1. at[run] = "create_claw"
    BY DEF Init
  <2> QED
    BY <2>1 DEF DoneBy
<1>3. BoundRun /\ Recorded
  BY DEF Init, BoundRun, Recorded
<1> QED
  BY <1>1, <1>2, <1>3 DEF BootstrapInv

\* One step per await of main; stopping changes where a run is and nothing else.
LEMMA BootstrapInvNext == BootstrapInv /\ [Next]_vars => BootstrapInv'
<1> SUFFICES ASSUME BootstrapInv, [Next]_vars PROVE BootstrapInv'
  OBVIOUS
<1> USE BootstrapAssumption, BootstrapNoneAssumption
<1>t. ASSUME NEW run \in Runs, NEW step, Reaches(run, step)
      PROVE  /\ at[run] = step /\ at' = [at EXCEPT ![run] = After(step)]
             /\ at'[run] = After(step)
             /\ \A other \in Runs \ {run} : at'[other] = at[other]
  BY <1>t DEF BootstrapInv, BootstrapTypeOK, Reaches
<1>1. ASSUME NEW run \in Runs, CreateClawMint(run) PROVE BootstrapInv'
  BY <1>1, <1>t, AfterSteps
     DEF CreateClawMint, BootstrapInv, BootstrapTypeOK, StepNames, DoneBy, BoundRun, Recorded,
         GenesisOf, MintOf, UntilInitialized, GlobalConfig
<1>2. ASSUME NEW run \in Runs, CreateUsdcMint(run) PROVE BootstrapInv'
  BY <1>2, <1>t, AfterSteps
     DEF CreateUsdcMint, BootstrapInv, BootstrapTypeOK, StepNames, DoneBy, BoundRun, Recorded,
         GenesisOf, MintOf, UntilInitialized, GlobalConfig
<1>3. ASSUME NEW run \in Runs, HandOverMint(run) PROVE BootstrapInv'
  BY <1>3, <1>t, AfterSteps
     DEF HandOverMint, BootstrapInv, BootstrapTypeOK, StepNames, DoneBy, BoundRun, Recorded,
         GenesisOf, MintOf, UntilInitialized, GlobalConfig
<1>4. ASSUME NEW run \in Runs, HandOverFreeze(run) PROVE BootstrapInv'
  BY <1>4, <1>t, AfterSteps
     DEF HandOverFreeze, BootstrapInv, BootstrapTypeOK, StepNames, DoneBy, BoundRun, Recorded,
         GenesisOf, MintOf, UntilInitialized, GlobalConfig
<1>5. ASSUME NEW run \in Runs, InitializeMasterpool(run) PROVE BootstrapInv'
  <2>0. /\ config = None /\ reward_vault = 0 /\ record = None
        /\ \A other \in Runs : at[other] \notin {"mint_genesis", "configure_attestation",
                                                "write_record", "done"}
    BY <1>5, GenesisOfRun
       DEF InitializeMasterpool, BootstrapInv, BootstrapTypeOK, DoneBy, BoundRun, Recorded,
           GenesisOf
  <2>1. /\ at'[run] = "mint_genesis" /\ at[run] = "initialize"
        /\ \A other \in Runs \ {run} : at'[other] = at[other]
        /\ config' = [claw_mint |-> run, usdc_mint |-> run, genesis_minted |-> FALSE]
        /\ UNCHANGED <<claw_mint, usdc_mint, reward_vault, att_config, record>>
    BY <1>5, <1>t, AfterSteps DEF InitializeMasterpool
  <2>2. BootstrapTypeOK'
    BY <1>5, <1>t, AfterSteps, <2>1
       DEF InitializeMasterpool, BootstrapInv, BootstrapTypeOK, StepNames, GlobalConfig
  <2>3. ASSUME NEW other \in Runs PROVE DoneBy(other)'
    <3>1. CASE other = run
      BY <2>1, <3>1 DEF BootstrapInv, DoneBy, MintOf
    <3>2. CASE other # run
      BY <2>0, <2>1, <3>2 DEF BootstrapInv, DoneBy
    <3> QED
      BY <3>1, <3>2
  <2>4. BoundRun'
    BY <2>0, <2>1 DEF BootstrapInv, DoneBy, BoundRun, MintOf, UntilInitialized
  <2> QED
    BY <2>0, <2>1, <2>2, <2>3, <2>4 DEF BootstrapInv, Recorded
<1>6. ASSUME NEW run \in Runs, MintGenesisSupply(run) PROVE BootstrapInv'
  <2>0. /\ config = [claw_mint |-> run, usdc_mint |-> run, genesis_minted |-> FALSE]
        /\ config # None /\ reward_vault = 0 /\ record = None
        /\ claw_mint[run] = MintOf("pool", "pool", 0) /\ usdc_mint[run] = "operator"
        /\ \A other \in Runs \ {run} :
             at[other] \notin {"mint_genesis", "configure_attestation", "write_record", "done"}
    BY <1>6, GenesisOfRun
       DEF MintGenesisSupply, Reaches, BootstrapInv, BootstrapTypeOK, DoneBy, BoundRun, Recorded,
           GenesisOf
  <2>1. /\ at'[run] = "configure_attestation" /\ at[run] = "mint_genesis"
        /\ \A other \in Runs \ {run} : at'[other] = at[other]
    BY <1>6, <1>t, AfterSteps DEF MintGenesisSupply
  <2>2. /\ config' = [claw_mint |-> run, usdc_mint |-> run, genesis_minted |-> TRUE]
        /\ claw_mint'[run] = MintOf(None, None, GENESIS_TOTAL_SUPPLY)
        /\ \A other \in Runs \ {run} : claw_mint'[other] = claw_mint[other]
        /\ reward_vault' = GENESIS_TOTAL_SUPPLY
        /\ DOMAIN claw_mint' = Runs
        /\ UNCHANGED <<usdc_mint, att_config, record>>
    <3>1. config' = [config EXCEPT !.genesis_minted = TRUE]
      BY <1>6 DEF MintGenesisSupply
    <3>2. config' = [claw_mint |-> run, usdc_mint |-> run, genesis_minted |-> TRUE]
      BY <2>0, <3>1
    <3>3. claw_mint[run].supply + GENESIS_TOTAL_SUPPLY = GENESIS_TOTAL_SUPPLY
      BY <2>0 DEF MintOf
    <3>4. claw_mint' = [claw_mint EXCEPT ![run] = MintOf(None, None, GENESIS_TOTAL_SUPPLY)]
      BY <1>6, <3>3 DEF MintGenesisSupply, MintOf
    <3>5. /\ claw_mint'[run] = MintOf(None, None, GENESIS_TOTAL_SUPPLY)
          /\ \A other \in Runs \ {run} : claw_mint'[other] = claw_mint[other]
          /\ DOMAIN claw_mint' = Runs
      BY <3>4 DEF BootstrapInv, BootstrapTypeOK
    <3>6. reward_vault' = reward_vault + GENESIS_TOTAL_SUPPLY
          /\ UNCHANGED <<usdc_mint, att_config, record>>
      BY <1>6 DEF MintGenesisSupply
    <3>7. reward_vault' = GENESIS_TOTAL_SUPPLY
      BY <2>0, <3>6
    <3> QED
      BY <3>2, <3>5, <3>6, <3>7
  <2>3. BootstrapTypeOK'
    <3>1. config' \in GlobalConfig
      BY <2>2 DEF GlobalConfig
    <3>2. at' \in [Runs -> StepNames \cup {"stopped"}]
      BY <1>6, <1>t, AfterSteps DEF MintGenesisSupply, BootstrapInv, BootstrapTypeOK, StepNames
    <3> QED
      BY <2>2, <3>1, <3>2 DEF BootstrapInv, BootstrapTypeOK
  <2>4. ASSUME NEW other \in Runs PROVE DoneBy(other)'
    <3>1. CASE other = run
      BY <2>1, <2>2, <3>1 DEF DoneBy, GenesisOf
    <3>2. CASE other # run
      BY <2>0, <2>1, <2>2, <3>2 DEF BootstrapInv, DoneBy
    <3> QED
      BY <3>1, <3>2
  <2>5. BoundRun'
    <3>1. config' # None /\ config'.claw_mint = run /\ config'.usdc_mint = run
          /\ config'.genesis_minted
      <4>1. PICK c : c = config'
        OBVIOUS
      <4>2. c \in GlobalConfig /\ c.claw_mint = run /\ c.usdc_mint = run /\ c.genesis_minted
        BY <2>2, <4>1 DEF GlobalConfig
      <4> QED
        BY <4>1, <4>2, BootstrapNoneAssumption
    <3> QED
      BY <2>0, <2>1, <2>2, <3>1 DEF BootstrapInv, BoundRun, UntilInitialized
  <2> QED
    BY <2>0, <2>2, <2>3, <2>4, <2>5 DEF BootstrapInv, Recorded
<1>7. ASSUME NEW run \in Runs, ConfigureAttestation(run) PROVE BootstrapInv'
  BY <1>7, <1>t, AfterSteps
     DEF ConfigureAttestation, BootstrapInv, BootstrapTypeOK, StepNames, DoneBy, BoundRun,
         Recorded, GenesisOf, MintOf, UntilInitialized, GlobalConfig
<1>8. ASSUME NEW run \in Runs, WriteRecord(run) PROVE BootstrapInv'
  BY <1>8, <1>t, AfterSteps
     DEF WriteRecord, BootstrapInv, BootstrapTypeOK, StepNames, DoneBy, BoundRun,
         Recorded, GenesisOf, MintOf, UntilInitialized, GlobalConfig
<1>9. ASSUME NEW run \in Runs, Stop(run) PROVE BootstrapInv'
  BY <1>9
     DEF Stop, BootstrapInv, BootstrapTypeOK, StepNames, DoneBy, BoundRun,
         Recorded, GenesisOf, MintOf, UntilInitialized, GlobalConfig
<1>10. CASE UNCHANGED vars
  BY <1>10 DEF vars, BootstrapInv, BootstrapTypeOK, DoneBy, BoundRun, Recorded, GenesisOf
<1> QED
  BY <1>1, <1>2, <1>3, <1>4, <1>5, <1>6, <1>7, <1>8, <1>9, <1>10 DEF Next

LEMMA BootstrapInvHolds == Spec => []BootstrapInv
BY BootstrapInvInit, BootstrapInvNext, PTL DEF Spec

-----------------------------------------------------------------------------

\* A masterpool bound to a mint can always still be given its genesis supply,
\* whatever the launches of bootstrap-testnet.ts did before.
THEOREM BootstrapGenesisStillMintable == Spec => []GenesisStillMintable
<1>1. BootstrapInv => GenesisStillMintable
  BY DEF BootstrapInv, BoundRun, GenesisStillMintable, MintOf
<1> QED
  BY <1>1, BootstrapInvHolds, PTL

\* A deployment record that was written names the mints the masterpool is bound
\* to, with the whole supply minted and nobody left who could mint or freeze.
THEOREM BootstrapRecordIsTrue == Spec => []RecordIsTrue
<1>1. ASSUME BootstrapInv, record # None PROVE RecordIsTrue
  <2>1. record \in Runs /\ GenesisOf(record) /\ att_config
    BY <1>1 DEF BootstrapInv, BootstrapTypeOK, Recorded
  <2>2. config # None /\ config.claw_mint = record /\ config.genesis_minted
    BY <2>1, GenesisOfRun DEF GenesisOf
  <2> QED
    BY <1>1, <2>1, <2>2 DEF BootstrapInv, BoundRun, GenesisOf, RecordIsTrue, MintOf
<1>2. BootstrapInv => RecordIsTrue
  BY <1>1 DEF RecordIsTrue
<1> QED
  BY <1>2, BootstrapInvHolds, PTL
=============================================================================
