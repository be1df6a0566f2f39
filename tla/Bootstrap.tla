------------------------------- MODULE Bootstrap -------------------------------
(***************************************************************************)
(* scripts/phase1/bootstrap-testnet.ts: the admin's script that creates    *)
(* the two mints, binds them in the masterpool, mints the CLAW supply,     *)
(* configures the attestation program and writes the deployment record.    *)
(*                                                                         *)
(* Every launch creates fresh mints, so a run and its mints share a name.  *)
(* A run awaits one transaction after the other; it may stop at any of     *)
(* them (a refused instruction, a lost confirmation, a killed process) and *)
(* be launched again, and nothing keeps two launches from overlapping.     *)
(***************************************************************************)
EXTENDS Naturals

CONSTANTS
    Runs,                  \* launches of the script
    None,                  \* no account, no authority, no file
    GENESIS_TOTAL_SUPPLY   \* CLAW mint_genesis_supply mints

ASSUME BootstrapAssumption == GENESIS_TOTAL_SUPPLY \in Nat \ {0}

\* What initialize_masterpool binds, and whether genesis was minted since.
GlobalConfig == [claw_mint : Runs, usdc_mint : Runs, genesis_minted : BOOLEAN]

ASSUME BootstrapNoneAssumption == None \notin Runs /\ None \notin GlobalConfig

VARIABLES
    at,            \* what each run does next
    claw_mint,     \* the CLAW mint of each run: authorities and supply, or None
    usdc_mint,     \* the mint authority of each run's Test USDC mint, or None
    config,        \* the masterpool's GlobalConfig, or None
    reward_vault,  \* CLAW in the masterpool's reward vault
    att_config,    \* whether the attestation program has its Config
    record         \* the run whose addresses the deployment record holds, or None

vars == <<at, claw_mint, usdc_mint, config, reward_vault, att_config, record>>

Init ==
    /\ at = [run \in Runs |-> "create_claw"]
    /\ claw_mint = [run \in Runs |-> None]
    /\ usdc_mint = [run \in Runs |-> None]
    /\ config = None
    /\ reward_vault = 0
    /\ att_config = FALSE
    /\ record = None

\* Slip: the masterpool is initialized before the mint is handed to the pool.
InitializingFirst ==
    <<"create_claw", "create_usdc", "initialize", "hand_over_mint", "hand_over_freeze",
      "mint_genesis", "configure_attestation", "write_record", "done">>

\* Slip: the record is written as soon as the addresses are known.
RecordingFirst ==
    <<"create_claw", "create_usdc", "hand_over_mint", "hand_over_freeze", "initialize",
      "mint_genesis", "write_record", "configure_attestation", "done">>

\* The awaits of main, in order.
Steps ==
    <<"create_claw", "create_usdc", "hand_over_mint", "hand_over_freeze", "initialize",
      "mint_genesis", "configure_attestation", "write_record", "done">>

After(step) == Steps[1 + CHOOSE i \in 1..8 : Steps[i] = step]

Reaches(run, step) == at[run] = step /\ at' = [at EXCEPT ![run] = After(step)]

CreateClawMint(run) ==
    /\ Reaches(run, "create_claw")
    /\ claw_mint' = [claw_mint EXCEPT ![run] =
                       [mint_authority |-> "admin", freeze_authority |-> "admin", supply |-> 0]]
    /\ UNCHANGED <<usdc_mint, config, reward_vault, att_config, record>>

CreateUsdcMint(run) ==
    /\ Reaches(run, "create_usdc")
    /\ usdc_mint' = [usdc_mint EXCEPT ![run] = "operator"]
    /\ UNCHANGED <<claw_mint, config, reward_vault, att_config, record>>

HandOverMint(run) ==
    /\ Reaches(run, "hand_over_mint")
    /\ claw_mint[run].mint_authority = "admin"
    /\ claw_mint' = [claw_mint EXCEPT ![run].mint_authority = "pool"]
    /\ UNCHANGED <<usdc_mint, config, reward_vault, att_config, record>>

HandOverFreeze(run) ==
    /\ Reaches(run, "hand_over_freeze")
    /\ claw_mint[run].freeze_authority = "admin"
    /\ claw_mint' = [claw_mint EXCEPT ![run].freeze_authority = "pool"]
    /\ UNCHANGED <<usdc_mint, config, reward_vault, att_config, record>>

\* initialize_masterpool: it does not ask who holds the mint.
InitializeMasterpool(run) ==
    /\ Reaches(run, "initialize")
    /\ config = None
    /\ config' = [claw_mint |-> run, usdc_mint |-> run, genesis_minted |-> FALSE]
    /\ UNCHANGED <<claw_mint, usdc_mint, reward_vault, att_config, record>>

\* mint_genesis_supply: the mint must be the bound one and the pool's, and is
\* nobody's afterwards.
MintGenesisSupply(run) ==
    /\ Reaches(run, "mint_genesis")
    /\ config # None
    /\ config.claw_mint = run
    /\ ~config.genesis_minted
    /\ claw_mint[run].mint_authority = "pool"
    /\ claw_mint[run].freeze_authority = "pool"
    /\ claw_mint' = [claw_mint EXCEPT ![run] =
                       [mint_authority |-> None, freeze_authority |-> None,
                        supply |-> @.supply + GENESIS_TOTAL_SUPPLY]]
    /\ reward_vault' = reward_vault + GENESIS_TOTAL_SUPPLY
    /\ config' = [config EXCEPT !.genesis_minted = TRUE]
    /\ UNCHANGED <<usdc_mint, att_config, record>>

\* initialize_config of the attestation program.
ConfigureAttestation(run) ==
    /\ Reaches(run, "configure_attestation")
    /\ ~att_config
    /\ att_config' = TRUE
    /\ UNCHANGED <<claw_mint, usdc_mint, config, reward_vault, record>>

\* The file is overwritten with the addresses this run has used.
WriteRecord(run) ==
    /\ Reaches(run, "write_record")
    /\ record' = run
    /\ UNCHANGED <<claw_mint, usdc_mint, config, reward_vault, att_config>>

\* An await that throws ends main; what the transaction did stays.
Stop(run) ==
    /\ at[run] \notin {"done", "stopped"}
    /\ at' = [at EXCEPT ![run] = "stopped"]
    /\ UNCHANGED <<claw_mint, usdc_mint, config, reward_vault, att_config, record>>

Next ==
    \E run \in Runs :
        \/ CreateClawMint(run) \/ CreateUsdcMint(run)
        \/ HandOverMint(run) \/ HandOverFreeze(run)
        \/ InitializeMasterpool(run) \/ MintGenesisSupply(run)
        \/ ConfigureAttestation(run) \/ WriteRecord(run) \/ Stop(run)

Spec == Init /\ [][Next]_vars

-----------------------------------------------------------------------------

\* However launches fail, are repeated or overlap, a masterpool that is bound to
\* a mint can always still be given its genesis supply: until then the pool
\* holds both authorities of the bound mint and not one CLAW of it exists, so no
\* aborted run leaves a masterpool that mint_genesis_supply refuses for ever.
GenesisStillMintable ==
    config # None /\ ~config.genesis_minted =>
        claw_mint[config.claw_mint] =
            [mint_authority |-> "pool", freeze_authority |-> "pool", supply |-> 0]

\* The runbook's checks hold of any record that was written, by whichever run:
\* the masterpool binds exactly the recorded mints, nobody can mint or freeze
\* CLAW, its whole supply is in the reward vault, and both programs are set up.
RecordIsTrue ==
    record # None =>
        /\ config = [claw_mint |-> record, usdc_mint |-> record, genesis_minted |-> TRUE]
        /\ claw_mint[record] = [mint_authority |-> None, freeze_authority |-> None,
                                supply |-> GENESIS_TOTAL_SUPPLY]
        /\ reward_vault = GENESIS_TOTAL_SUPPLY
        /\ usdc_mint[record] = "operator"
        /\ att_config
=============================================================================
