----------------------------- MODULE AccountLists -----------------------------
(***************************************************************************)
(* The account lists of the instructions.  A Solana instruction is given   *)
(* addresses, in any combination its sender likes; the #[derive(Accounts)] *)
(* structs of both programs and the require! checks on accounts decide     *)
(* which lists run.  Here every list is tried: accounts are addresses with *)
(* contents, a derived address (PDA) is the triple of program, seed and    *)
(* key, and only the fields that name other accounts are kept.  Statuses,  *)
(* amounts and deadlines are in Masterpool and Attestation, so here every  *)
(* instruction may run at any time its accounts allow.                     *)
(*                                                                         *)
(* An account whose seeds have no key, or that an address = constraint     *)
(* binds to the configuration, leaves no choice and is named directly.     *)
(***************************************************************************)
EXTENDS Integers, FiniteSets

CONSTANTS
    Wallets,    \* wallets of users, providers and challengers
    Nonces,     \* request nonces
    Signed,     \* messages [nonce, payer_user, provider_wallet, signer] keys signed
    Approved,   \* the delegate of each wallet's USDC account
    Mints,      \* token mints
    MintPairs,  \* the CLAW and USDC mints the masterpool may be set up with
    Authority, ChallengeResolver, Admin,  \* who the configurations name
    None

VARIABLES
    config,           \* the mints in GlobalConfig, or None
    faucet_config,    \* does FaucetConfig exist
    provider_signer,  \* ProviderSigner accounts: a function of their addresses
    provider,         \* ProviderAccount
    reward,           \* RewardAccount
    receipt,          \* Receipt
    settlement,       \* ReceiptSettlement
    challenge,        \* Challenge
    bond_record,      \* ChallengeBondRecord
    done              \* who signed the last instruction, its transfers, its writes

configs == <<config, faucet_config>>
account_vars == <<provider_signer, provider, reward, receipt, settlement, challenge,
                  bond_record>>
lvars == <<configs, account_vars, done>>

-----------------------------------------------------------------------------
(* Addresses *)

Pda(program, seed, key) == <<program, seed, key>>

Masterpool(seed, key) == Pda("masterpool", seed, key)
Attestation(seed, key) == Pda("attestation", seed, key)

ReceiptOf(nonce) == Attestation("receipt", nonce)
ChallengeOf(receipt_address) == Attestation("challenge", receipt_address)
SettlementOf(receipt_address) == Masterpool("receipt_settlement", receipt_address)
BondRecordOf(challenge_address) == Masterpool("challenge_bond_record", challenge_address)
ProviderOf(w) == Masterpool("provider", w)
RewardOf(kind, w) ==
    Masterpool(IF kind = "User" THEN "user_reward" ELSE "provider_reward", w)

PoolAuthority == Masterpool("pool_authority", None)
ClawPots == {"rewards", "bonds", "faucet_claw"}
UsdcPots == {"treasury", "stake", "escrow", "faucet_usdc"}

Vault(pot) == Masterpool("vault", pot)
WalletToken(w, mint) == Pda("token", w, mint)
ClawSupply == Pda("mint", "supply", None)    \* where minted CLAW comes from and burned goes

\* A signed message may name anyone as payer and provider.  Wallets are keys that
\* can sign, which a derived address cannot; who does not sign may be either.  The
\* scripts create two mints (initialize_masterpool compares only decimals).
ASSUME ListsAssumption ==
    /\ \A m \in Signed : m.nonce \in Nonces
    /\ \A pair \in MintPairs : pair[1] # pair[2]
    /\ PoolAuthority \notin Wallets
    /\ None \notin Wallets /\ None \notin Signed

Vaults == {Vault(pot) : pot \in ClawPots \cup UsdcPots}
TokenOwners == Wallets \cup {PoolAuthority}
TokenAccounts == Vaults \cup {WalletToken(w, mint) : w \in Wallets, mint \in Mints}

OwnerOf(token) == IF token \in Vaults THEN PoolAuthority ELSE token[2]
MintOf(token) ==
    IF token \notin Vaults THEN token[3]
    ELSE IF token[3] \in ClawPots THEN config.claw_mint ELSE config.usdc_mint
DelegateOf(token) ==
    IF token \in Vaults \/ MintOf(token) # config.usdc_mint THEN None
    ELSE Approved[OwnerOf(token)]

\* require_token_owner and require_token_mint.
OwnedToken(token, owner, mint) == OwnerOf(token) = owner /\ MintOf(token) = mint

\* What the token program itself asks of a transfer.
Transferable(from, to, signer) ==
    /\ signer \in {OwnerOf(from), DelegateOf(from)}
    /\ MintOf(from) = MintOf(to)

Put(f, address, contents) ==
    [a \in DOMAIN f \cup {address} |-> IF a = address THEN contents ELSE f[a]]
Drop(f, address) == [a \in DOMAIN f \ {address} |-> f[a]]

NoAccounts == [a \in {} |-> None]

Did(signers, transfers, writes) ==
    done' = [signers |-> signers, transfers |-> transfers, writes |-> writes]

-----------------------------------------------------------------------------
(* Constraints several account lists share *)

\* The settlement's address derives from the receipt, the provider's from the
\* settlement's contents.
SettlementAccounts(r, s, p) ==
    /\ s = SettlementOf(r)
    /\ p = ProviderOf(settlement[s].provider_wallet)
    /\ provider[p].provider_wallet = settlement[s].provider_wallet

\* Slip: the provider's reward account may be any reward account.
UserRewardAccountOnly(s, provider_reward, user_reward) ==
    user_reward = RewardOf("User", settlement[s].payer_user)

RewardAccounts(s, provider_reward, user_reward) ==
    /\ provider_reward = RewardOf("Provider", settlement[s].provider_wallet)
    /\ user_reward = RewardOf("User", settlement[s].payer_user)

DisputeAccounts(r, c, s, b) ==
    /\ challenge[c].receipt = r
    /\ b = BondRecordOf(c)
    /\ settlement[s].attestation_receipt = r
    /\ bond_record[b].attestation_challenge = c
    /\ bond_record[b].attestation_receipt = settlement[s].attestation_receipt

\* Slip: whose key signed is not compared with who is paid.
SubmitPartiesUnbound(key, p) == p = ProviderOf(provider[p].provider_wallet)

\* The seeds of provider_account and the check of submit_receipt against the key.
SubmitParties(key, p) ==
    /\ p = ProviderOf(provider[p].provider_wallet)
    /\ provider[p].provider_wallet = provider_signer[key].provider_wallet

-----------------------------------------------------------------------------
(* Setting up *)

InitializeMasterpool(claw_mint, usdc_mint) ==
    /\ config = None
    /\ config' = [claw_mint |-> claw_mint, usdc_mint |-> usdc_mint]
    /\ Did({Admin}, {}, {})
    /\ UNCHANGED <<faucet_config, account_vars>>

\* The faucet's vaults are created on the configured mints.
InitializeFaucet ==
    /\ ~faucet_config
    /\ faucet_config' = TRUE
    /\ Did({Admin}, {}, {})
    /\ UNCHANGED <<config, account_vars>>

MintGenesisSupply ==
    /\ Did({Admin}, {<<ClawSupply, Vault("rewards")>>}, {})
    /\ UNCHANGED <<configs, account_vars>>

FundFaucetClaw ==
    /\ faucet_config
    /\ Did({Admin}, {<<Vault("rewards"), Vault("faucet_claw")>>}, {})
    /\ UNCHANGED <<configs, account_vars>>

UpsertProviderSigner(signer, provider_wallet) ==
    /\ provider_signer' =
         Put(provider_signer, Attestation("provider_signer", <<provider_wallet, signer>>),
             [signer |-> signer, provider_wallet |-> provider_wallet])
    /\ Did({Authority}, {}, {})
    /\ UNCHANGED <<configs, provider, reward, receipt, settlement, challenge, bond_record>>

\* The key's account must exist, and stays.
RevokeProviderSigner(signer, provider_wallet) ==
    /\ Attestation("provider_signer", <<provider_wallet, signer>>) \in DOMAIN provider_signer
    /\ Did({Authority}, {}, {})
    /\ UNCHANGED <<configs, account_vars>>

-----------------------------------------------------------------------------
(* Providers *)

RegisterProvider(w) ==
    LET p == ProviderOf(w)
        provider_reward == RewardOf("Provider", w)
    IN
    /\ p \notin DOMAIN provider /\ provider_reward \notin DOMAIN reward
    /\ \E source \in TokenAccounts :
         /\ OwnedToken(source, w, config.usdc_mint)
         /\ Transferable(source, Vault("stake"), w)
         /\ Did({w}, {<<source, Vault("stake")>>}, {p, provider_reward})
    /\ provider' = Put(provider, p, [provider_wallet |-> w])
    /\ reward' = Put(reward, provider_reward, [owner |-> w, kind |-> "Provider"])
    /\ UNCHANGED <<configs, provider_signer, receipt, settlement, challenge, bond_record>>

\* Nothing is asked of the destination but the mint the token program compares.
ExitProvider(w) ==
    \E p \in DOMAIN provider, destination \in TokenAccounts :
        /\ p = ProviderOf(w)
        /\ provider[p].provider_wallet = w
        /\ Transferable(Vault("stake"), destination, PoolAuthority)
        /\ Did({w}, {<<Vault("stake"), destination>>}, {p})
        /\ UNCHANGED <<configs, account_vars>>

-----------------------------------------------------------------------------
(* Receipts *)

\* submit_receipt with record_mining_from_receipt; the signature is checked
\* against the registered key and covers the parties.  The delegate signs, the
\* payer does not: it may be the pool authority, whose vaults have no delegate.
SubmitReceipt(nonce, payer_user, payment_delegate) ==
    LET r == ReceiptOf(nonce)
        s == SettlementOf(r)
        user_reward == RewardOf("User", payer_user)
    IN
    /\ r \notin DOMAIN receipt /\ s \notin DOMAIN settlement
    /\ payment_delegate # None
    /\ \E key \in DOMAIN provider_signer, p \in DOMAIN provider,
          provider_reward \in DOMAIN reward :
         LET signed == provider_signer[key].provider_wallet
             paid == provider[p].provider_wallet
         IN
         /\ [nonce |-> nonce, payer_user |-> payer_user, provider_wallet |-> signed,
             signer |-> provider_signer[key].signer] \in Signed
         /\ SubmitParties(key, p)
         /\ provider_reward = RewardOf("Provider", paid)
         /\ receipt' = Put(receipt, r, [payer_user |-> payer_user, provider_wallet |-> signed])
         /\ settlement' = Put(settlement, s,
              [attestation_receipt |-> r, payer_user |-> payer_user, provider_wallet |-> paid])
         /\ reward' = Put(reward, user_reward, [owner |-> payer_user, kind |-> "User"])
         /\ \E payer_token \in TokenAccounts :
              /\ OwnedToken(payer_token, payer_user, config.usdc_mint)
              /\ DelegateOf(payer_token) = payment_delegate
              /\ Did({Authority, payment_delegate},
                     {<<payer_token, Vault("treasury")>>, <<payer_token, Vault("escrow")>>},
                     {s, p, provider_reward, user_reward})
    /\ UNCHANGED <<configs, provider_signer, provider, challenge, bond_record>>

\* finalize_receipt with settle_finalized_receipt.
FinalizeReceipt ==
    \E r \in DOMAIN receipt, s \in DOMAIN settlement, p \in DOMAIN provider,
       provider_reward, user_reward \in DOMAIN reward :
        /\ SettlementAccounts(r, s, p)
        /\ settlement[s].attestation_receipt = r
        /\ RewardAccounts(s, provider_reward, user_reward)
        /\ \E payout \in TokenAccounts :
             /\ OwnedToken(payout, settlement[s].provider_wallet, config.usdc_mint)
             /\ Did({Authority}, {<<Vault("escrow"), payout>>},
                    {s, p, provider_reward, user_reward})
        /\ UNCHANGED <<configs, account_vars>>

CloseReceipt ==
    \E r \in DOMAIN receipt :
        /\ receipt' = Drop(receipt, r)
        /\ Did({Authority}, {}, {})
        /\ UNCHANGED <<configs, provider_signer, provider, reward, settlement, challenge,
                       bond_record>>

-----------------------------------------------------------------------------
(* Challenges *)

\* open_challenge with record_challenge_bond.
OpenChallenge(w) ==
    \E r \in DOMAIN receipt, s \in DOMAIN settlement, p \in DOMAIN provider :
        LET c == ChallengeOf(r)
            b == BondRecordOf(c)
        IN
        /\ c \notin DOMAIN challenge /\ b \notin DOMAIN bond_record
        /\ SettlementAccounts(r, s, p)
        /\ \E source \in TokenAccounts :
             /\ OwnedToken(source, w, config.claw_mint)
             /\ Transferable(source, Vault("bonds"), w)
             /\ Did({w}, {<<source, Vault("bonds")>>}, {b, p})
        /\ challenge' = Put(challenge, c, [receipt |-> r, challenger |-> w])
        /\ bond_record' = Put(bond_record, b,
             [attestation_challenge |-> c, attestation_receipt |-> r, challenger |-> w])
        /\ UNCHANGED <<configs, provider_signer, provider, reward, receipt, settlement>>

\* The accounts resolve_challenge and timeout_reject_challenge share.
Dispute(r, c, s, b, p, provider_reward, user_reward) ==
    /\ DisputeAccounts(r, c, s, b)
    /\ SettlementAccounts(r, s, p)
    /\ RewardAccounts(s, provider_reward, user_reward)

\* Dismissing burns the bond and leaves the other accounts as they are.
DismissChallenge(signer) ==
    \E r \in DOMAIN receipt, c \in DOMAIN challenge, s \in DOMAIN settlement,
       b \in DOMAIN bond_record, p \in DOMAIN provider,
       provider_reward, user_reward \in DOMAIN reward :
        /\ Dispute(r, c, s, b, p, provider_reward, user_reward)
        /\ Did({signer}, {<<Vault("bonds"), ClawSupply>>}, {b, p})
        /\ UNCHANGED <<configs, account_vars>>

TimeoutRejectChallenge == DismissChallenge(Authority)

UpholdChallenge ==
    \E r \in DOMAIN receipt, c \in DOMAIN challenge, s \in DOMAIN settlement,
       b \in DOMAIN bond_record, p \in DOMAIN provider,
       provider_reward, user_reward \in DOMAIN reward :
        /\ Dispute(r, c, s, b, p, provider_reward, user_reward)
        /\ \E payer_token, challenger_token \in TokenAccounts :
             /\ OwnedToken(payer_token, settlement[s].payer_user, config.usdc_mint)
             /\ OwnedToken(challenger_token, bond_record[b].challenger, config.claw_mint)
             /\ Did({ChallengeResolver},
                    {<<Vault("bonds"), challenger_token>>, <<Vault("rewards"), challenger_token>>,
                     <<Vault("rewards"), ClawSupply>>, <<Vault("escrow"), payer_token>>},
                    {s, b, p, provider_reward, user_reward})
        /\ UNCHANGED <<configs, account_vars>>

ResolveChallenge == DismissChallenge(ChallengeResolver) \/ UpholdChallenge

CloseChallenge ==
    \E c \in DOMAIN challenge :
        /\ challenge' = Drop(challenge, c)
        /\ Did({Authority}, {}, {})
        /\ UNCHANGED <<configs, provider_signer, provider, reward, receipt, settlement,
                       bond_record>>

-----------------------------------------------------------------------------
(* Rewards and the faucet *)

MaterializeRewardRelease(target) ==
    \E s \in DOMAIN settlement, account \in DOMAIN reward :
        /\ reward[account].kind = target
        /\ reward[account].owner = (IF target = "User" THEN settlement[s].payer_user
                                    ELSE settlement[s].provider_wallet)
        /\ Did({Admin}, {}, {s, account})
        /\ UNCHANGED <<configs, account_vars>>

\* One wallet may own two reward accounts; it names the one it claims.
ClaimReleasedClaw(claimant) ==
    \E account \in DOMAIN reward, destination \in TokenAccounts :
        /\ reward[account].owner = claimant
        /\ OwnedToken(destination, claimant, config.claw_mint)
        /\ Did({claimant}, {<<Vault("rewards"), destination>>}, {account})
        /\ UNCHANGED <<configs, account_vars>>

\* The recipient does not sign: it may be the pool authority, with any two of its
\* vaults.  The counter's address derives from it.
ClaimFaucet(user) ==
    \E user_claw_token, user_usdc_token \in TokenAccounts :
        /\ faucet_config
        /\ OwnedToken(user_claw_token, user, config.claw_mint)
        /\ OwnedToken(user_usdc_token, user, config.usdc_mint)
        /\ Did({}, {<<Vault("faucet_claw"), user_claw_token>>,
                    <<Vault("faucet_usdc"), user_usdc_token>>},
               {Masterpool("faucet_user", user)})
        /\ UNCHANGED <<configs, account_vars>>

-----------------------------------------------------------------------------

ListsInit ==
    /\ config = None /\ faucet_config = FALSE
    /\ provider_signer = NoAccounts /\ provider = NoAccounts /\ reward = NoAccounts
    /\ receipt = NoAccounts /\ settlement = NoAccounts
    /\ challenge = NoAccounts /\ bond_record = NoAccounts
    /\ done = [signers |-> {}, transfers |-> {}, writes |-> {}]

ReceiptStep ==
    \/ \E nonce \in Nonces, payer_user \in TokenOwners,
          payment_delegate \in Wallets \cup {Approved[w] : w \in Wallets} :
         SubmitReceipt(nonce, payer_user, payment_delegate)
    \/ FinalizeReceipt \/ CloseReceipt
    \/ \E w \in Wallets : OpenChallenge(w)
    \/ ResolveChallenge \/ TimeoutRejectChallenge \/ CloseChallenge

WalletStep ==
    \/ \E w \in Wallets : \/ RegisterProvider(w) \/ ExitProvider(w)
                          \/ ClaimReleasedClaw(w)
    \/ \E user \in TokenOwners : ClaimFaucet(user)
    \/ \E m \in Signed : \/ UpsertProviderSigner(m.signer, m.provider_wallet)
                          \/ RevokeProviderSigner(m.signer, m.provider_wallet)
    \/ \E target \in {"User", "Provider"} : MaterializeRewardRelease(target)
    \/ MintGenesisSupply \/ InitializeFaucet \/ FundFaucetClaw

ListsNext ==
    \/ \E pair \in MintPairs : InitializeMasterpool(pair[1], pair[2])
    \/ config # None /\ (ReceiptStep \/ WalletStep)

ListsSpec == ListsInit /\ [][ListsNext]_lvars

-----------------------------------------------------------------------------
(* Properties *)

\* Every account is where its contents say it is, and accounts of the two
\* programs that belong to one receipt name the same receipt and parties: the
\* seeds and checks of all instructions together keep the attestation program's
\* and the masterpool's copies of an identity from drifting apart.
AccountsAgree ==
    /\ \A s \in DOMAIN settlement :
         /\ s = SettlementOf(settlement[s].attestation_receipt)
         /\ ProviderOf(settlement[s].provider_wallet) \in DOMAIN provider
         /\ RewardOf("Provider", settlement[s].provider_wallet) \in DOMAIN reward
         /\ RewardOf("User", settlement[s].payer_user) \in DOMAIN reward
    /\ \A a \in DOMAIN reward : a = RewardOf(reward[a].kind, reward[a].owner)
    /\ \A r \in DOMAIN receipt :
         /\ SettlementOf(r) \in DOMAIN settlement
         /\ LET s == settlement[SettlementOf(r)] IN
            /\ s.payer_user = receipt[r].payer_user
            /\ s.provider_wallet = receipt[r].provider_wallet
    /\ \A c \in DOMAIN challenge :
         /\ c = ChallengeOf(challenge[c].receipt)
         /\ BondRecordOf(c) \in DOMAIN bond_record
         /\ LET b == bond_record[BondRecordOf(c)] IN
            /\ b.attestation_receipt = challenge[c].receipt
            /\ b.challenger = challenge[c].challenger
            /\ SettlementOf(b.attestation_receipt) \in DOMAIN settlement

\* Refinement: the accounts seen as the parties they belong to.
parties ==
    [n \in Nonces |->
       LET s == SettlementOf(ReceiptOf(n)) IN
       IF s \notin DOMAIN settlement THEN None
       ELSE CHOOSE m \in Signed :
              /\ m.nonce = n
              /\ m.payer_user = settlement[s].payer_user
              /\ m.provider_wallet = settlement[s].provider_wallet]

challenger ==
    [n \in Nonces |->
       LET b == BondRecordOf(ChallengeOf(ReceiptOf(n))) IN
       IF b \in DOMAIN bond_record THEN bond_record[b].challenger ELSE None]

Party(w) == IF w = PoolAuthority THEN "pool" ELSE w
Holder(token) == IF token \in Vaults THEN token[3] ELSE token[2]

Total(a) ==
    IF a \in DOMAIN provider THEN <<"account", provider[a].provider_wallet>>
    ELSE IF a \in DOMAIN reward THEN <<reward[a].kind, reward[a].owner>>
    ELSE IF a \in DOMAIN settlement
         THEN <<"settlement", settlement[a].attestation_receipt[3]>>
    ELSE IF a \in DOMAIN bond_record
         THEN <<"bond", bond_record[a].attestation_receipt[3]>>
    ELSE <<"claimed", Party(a[3])>>

step ==
    [signers |-> done.signers,
     moves   |-> {<<Holder(t[1]), Holder(t[2])>> : t \in done.transfers},
     booked  |-> {Total(a) : a \in done.writes}]

Parties == INSTANCE ReceiptParties

\* Whatever accounts an instruction is given, if it runs, it moves the money and
\* books the totals of one receipt's own parties, or of one wallet, as its owners'
\* signatures allow; the one other money it moves is the faucet's, into the pool's
\* own vaults, by a claim in the pool authority's name.  The state of this program
\* really is indexed by receipt and wallet.
KeepsToParties == Parties!PartiesSpec
=============================================================================
