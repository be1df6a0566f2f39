-------------------------- MODULE AccountListsProofs --------------------------
(***************************************************************************)
(* The account lists, for every set of wallets, nonces, mints and signed   *)
(* messages: each account stays where its contents say it is, and an       *)
(* instruction that runs is one step of ReceiptParties or none.            *)
(***************************************************************************)
EXTENDS AccountLists, TLAPS

ProvidersPlaced ==
    \A p \in DOMAIN provider :
        /\ provider[p].provider_wallet \in Wallets
        /\ p = ProviderOf(provider[p].provider_wallet)

RewardsPlaced ==
    \A a \in DOMAIN reward :
        /\ reward[a].kind \in {"User", "Provider"} /\ reward[a].owner \in Wallets
        /\ a = RewardOf(reward[a].kind, reward[a].owner)

\* A settlement is of a message that was signed, and has its three accounts.
SettlementPlaced(s) ==
    /\ s = SettlementOf(settlement[s].attestation_receipt)
    /\ \E m \in Signed :
         /\ settlement[s].attestation_receipt = ReceiptOf(m.nonce)
         /\ settlement[s].payer_user = m.payer_user
         /\ settlement[s].provider_wallet = m.provider_wallet
    /\ settlement[s].payer_user \in Wallets /\ settlement[s].provider_wallet \in Wallets
    /\ ProviderOf(settlement[s].provider_wallet) \in DOMAIN provider
    /\ RewardOf("Provider", settlement[s].provider_wallet) \in DOMAIN reward
    /\ RewardOf("User", settlement[s].payer_user) \in DOMAIN reward

SettlementsPlaced == \A s \in DOMAIN settlement : SettlementPlaced(s)

ReceiptsPlaced ==
    \A r \in DOMAIN receipt :
        /\ SettlementOf(r) \in DOMAIN settlement
        /\ settlement[SettlementOf(r)].payer_user = receipt[r].payer_user
        /\ settlement[SettlementOf(r)].provider_wallet = receipt[r].provider_wallet

\* A bond record outlives its challenge and its receipt, never its settlement.
BondsPlaced ==
    \A b \in DOMAIN bond_record :
        /\ b = BondRecordOf(ChallengeOf(bond_record[b].attestation_receipt))
        /\ SettlementOf(bond_record[b].attestation_receipt) \in DOMAIN settlement
        /\ bond_record[b].challenger \in Wallets

ChallengesPlaced ==
    \A c \in DOMAIN challenge :
        /\ c = ChallengeOf(challenge[c].receipt)
        /\ BondRecordOf(c) \in DOMAIN bond_record
        /\ bond_record[BondRecordOf(c)].attestation_receipt = challenge[c].receipt
        /\ bond_record[BondRecordOf(c)].challenger = challenge[c].challenger

MintsDiffer == config # None => config.claw_mint # config.usdc_mint

\* AccountsAgree speaks of open challenges only; that it survives their closing
\* and the reopening of a receipt needs what is known of every bond record.
ListsInv ==
    /\ ProvidersPlaced /\ RewardsPlaced /\ SettlementsPlaced /\ ReceiptsPlaced
    /\ BondsPlaced /\ ChallengesPlaced /\ MintsDiffer

-----------------------------------------------------------------------------
(* Addresses *)

\* Addresses of different kinds, or of different keys, differ.
LEMMA AddressesDiffer ==
  /\ \A x, y : ReceiptOf(x) = ReceiptOf(y) => x = y
  /\ \A x, y : ChallengeOf(x) = ChallengeOf(y) => x = y
  /\ \A x, y : SettlementOf(x) = SettlementOf(y) => x = y
  /\ \A x, y : BondRecordOf(x) = BondRecordOf(y) => x = y
  /\ \A x, y : ProviderOf(x) = ProviderOf(y) => x = y
BY DEF ReceiptOf, ChallengeOf, SettlementOf, BondRecordOf, ProviderOf, Masterpool, Attestation,
       Pda

LEMMA DropFacts ==
  ASSUME NEW f, NEW address
  PROVE  /\ DOMAIN Drop(f, address) = DOMAIN f \ {address}
         /\ \A a \in DOMAIN f \ {address} : Drop(f, address)[a] = f[a]
BY DEF Drop

-----------------------------------------------------------------------------
(* The invariant *)

LEMMA ListsInvInit == ListsInit => ListsInv
BY DEF ListsInit, NoAccounts, ListsInv, ProvidersPlaced, RewardsPlaced, SettlementsPlaced,
       SettlementPlaced, ReceiptsPlaced, BondsPlaced, ChallengesPlaced, MintsDiffer

\* An instruction that changes no account it names others by keeps the invariant.
LEMMA ListsInvKept ==
  ListsInv /\ UNCHANGED <<config, provider, reward, receipt, settlement, challenge, bond_record>>
    => ListsInv'
BY DEF ListsInv, ProvidersPlaced, RewardsPlaced, SettlementsPlaced,
       SettlementPlaced, ReceiptsPlaced, BondsPlaced, ChallengesPlaced, MintsDiffer

LEMMA InitializeMasterpoolKeeps ==
  ASSUME ListsInv, NEW pair \in MintPairs, InitializeMasterpool(pair[1], pair[2])
  PROVE  ListsInv'
BY ListsAssumption
   DEF InitializeMasterpool, account_vars, ListsInv, ProvidersPlaced, RewardsPlaced,
       SettlementsPlaced, SettlementPlaced, ReceiptsPlaced, BondsPlaced, ChallengesPlaced, MintsDiffer

LEMMA RegisterProviderKeeps ==
  ASSUME ListsInv, NEW w \in Wallets, RegisterProvider(w)
  PROVE  ListsInv'
<1> DEFINE p == ProviderOf(w)
           a == RewardOf("Provider", w)
<1>1. /\ provider' = Put(provider, p, [provider_wallet |-> w])
      /\ reward' = Put(reward, a, [owner |-> w, kind |-> "Provider"])
      /\ p \notin DOMAIN provider /\ a \notin DOMAIN reward
      /\ UNCHANGED <<config, receipt, settlement, challenge, bond_record>>
  BY DEF RegisterProvider, configs
<1> HIDE DEF p, a
<1>2. /\ DOMAIN provider' = DOMAIN provider \cup {p}
      /\ provider'[p] = [provider_wallet |-> w]
      /\ \A q \in DOMAIN provider : provider'[q] = provider[q]
  BY <1>1 DEF Put
<1>3. /\ DOMAIN reward' = DOMAIN reward \cup {a}
      /\ reward'[a] = [owner |-> w, kind |-> "Provider"]
      /\ \A q \in DOMAIN reward : reward'[q] = reward[q]
  BY <1>1 DEF Put
<1>4. ProvidersPlaced'
  BY <1>2 DEF ListsInv, ProvidersPlaced, p
<1>5. RewardsPlaced'
  BY <1>3 DEF ListsInv, RewardsPlaced, a
<1>6. SettlementsPlaced'
  BY <1>1, <1>2, <1>3 DEF ListsInv, SettlementsPlaced, SettlementPlaced
<1> QED
  BY <1>1, <1>4, <1>5, <1>6
     DEF ListsInv, ReceiptsPlaced, BondsPlaced, ChallengesPlaced, MintsDiffer

\* What submit_receipt does on the strength of message m, whatever accounts it
\* was given.
SubmittedFor(m, delegate) ==
    LET r == ReceiptOf(m.nonce)
        s == SettlementOf(r)
        user_reward == RewardOf("User", m.payer_user)
        provider_reward == RewardOf("Provider", m.provider_wallet)
    IN
    /\ delegate # None /\ s \notin DOMAIN settlement
    /\ ProviderOf(m.provider_wallet) \in DOMAIN provider
    /\ provider_reward \in DOMAIN reward
    /\ receipt' = Put(receipt, r, [payer_user |-> m.payer_user,
                                   provider_wallet |-> m.provider_wallet])
    /\ settlement' = Put(settlement, s,
         [attestation_receipt |-> r, payer_user |-> m.payer_user,
          provider_wallet |-> m.provider_wallet])
    /\ reward' = Put(reward, user_reward, [owner |-> m.payer_user, kind |-> "User"])
    /\ UNCHANGED <<config, provider, challenge, bond_record>>
    /\ \E token \in TokenAccounts :
         /\ OwnedToken(token, m.payer_user, config.usdc_mint)
         /\ DelegateOf(token) = delegate
         /\ Did({Authority, delegate}, {<<token, Vault("treasury")>>, <<token, Vault("escrow")>>},
                {s, ProviderOf(m.provider_wallet), provider_reward, user_reward})

LEMMA SubmitReceiptEffect ==
  ASSUME NEW nonce, NEW payer, NEW delegate, SubmitReceipt(nonce, payer, delegate)
  PROVE  \E m \in Signed : m.nonce = nonce /\ m.payer_user = payer /\ SubmittedFor(m, delegate)
<1> DEFINE r == ReceiptOf(nonce)
           s == SettlementOf(r)
           a == RewardOf("User", payer)
<1>1. /\ delegate # None /\ s \notin DOMAIN settlement
      /\ UNCHANGED <<config, provider, challenge, bond_record>>
  BY DEF SubmitReceipt, configs
<1>2. PICK key \in DOMAIN provider_signer, p \in DOMAIN provider, pr \in DOMAIN reward :
        LET signed == provider_signer[key].provider_wallet
            paid == provider[p].provider_wallet
        IN
        /\ [nonce |-> nonce, payer_user |-> payer, provider_wallet |-> signed,
            signer |-> provider_signer[key].signer] \in Signed
        /\ SubmitParties(key, p)
        /\ pr = RewardOf("Provider", paid)
        /\ receipt' = Put(receipt, r, [payer_user |-> payer, provider_wallet |-> signed])
        /\ settlement' = Put(settlement, s,
             [attestation_receipt |-> r, payer_user |-> payer, provider_wallet |-> paid])
        /\ reward' = Put(reward, a, [owner |-> payer, kind |-> "User"])
        /\ \E token \in TokenAccounts :
             /\ OwnedToken(token, payer, config.usdc_mint)
             /\ DelegateOf(token) = delegate
             /\ Did({Authority, delegate},
                    {<<token, Vault("treasury")>>, <<token, Vault("escrow")>>}, {s, p, pr, a})
  BY DEF SubmitReceipt
<1> DEFINE m == [nonce |-> nonce, payer_user |-> payer,
                 provider_wallet |-> provider_signer[key].provider_wallet,
                 signer |-> provider_signer[key].signer]
<1>3. /\ m \in Signed /\ m.nonce = nonce /\ m.payer_user = payer
      /\ m.provider_wallet = provider_signer[key].provider_wallet
  BY <1>2
<1>4. /\ p = ProviderOf(m.provider_wallet)
      /\ provider[p].provider_wallet = m.provider_wallet
      /\ pr = RewardOf("Provider", m.provider_wallet)
  BY <1>2 DEF SubmitParties
<1> HIDE DEF r, s, a, m
<1>5. SubmittedFor(m, delegate)
  BY <1>1, <1>2, <1>3, <1>4 DEF SubmittedFor, r, s, a
<1> QED
  BY <1>3, <1>5

\* A vault has no delegate and no derived address registers as a provider: whatever
\* names the message holds, those of a receipt that is recorded are wallets'.
LEMMA SubmittedForWallets ==
  ASSUME ListsInv, NEW m, NEW delegate, SubmittedFor(m, delegate)
  PROVE  m.payer_user \in Wallets /\ m.provider_wallet \in Wallets
<1>1. PICK token \in TokenAccounts :
        /\ OwnedToken(token, m.payer_user, config.usdc_mint)
        /\ DelegateOf(token) # None
  BY DEF SubmittedFor
<1>2. token \notin Vaults
  BY <1>1 DEF DelegateOf
<1>3. PICK w \in Wallets, mint \in Mints : token = WalletToken(w, mint)
  BY <1>2 DEF TokenAccounts
<1>4. m.payer_user = w
  BY <1>1, <1>2, <1>3 DEF OwnedToken, OwnerOf, WalletToken, Pda
<1>5. ProviderOf(m.provider_wallet) \in DOMAIN provider
  BY DEF SubmittedFor
<1>6. m.provider_wallet \in Wallets
  BY <1>5, AddressesDiffer DEF ListsInv, ProvidersPlaced
<1> QED
  BY <1>4, <1>6

LEMMA SubmitReceiptKeeps ==
  ASSUME ListsInv, NEW m \in Signed, NEW delegate, SubmittedFor(m, delegate)
  PROVE  ListsInv'
<1> DEFINE r == ReceiptOf(m.nonce)
           s == SettlementOf(r)
           a == RewardOf("User", m.payer_user)
<1>1. /\ s \notin DOMAIN settlement
      /\ ProviderOf(m.provider_wallet) \in DOMAIN provider
      /\ RewardOf("Provider", m.provider_wallet) \in DOMAIN reward
      /\ receipt' = Put(receipt, r, [payer_user |-> m.payer_user,
                                     provider_wallet |-> m.provider_wallet])
      /\ settlement' = Put(settlement, s,
           [attestation_receipt |-> r, payer_user |-> m.payer_user,
            provider_wallet |-> m.provider_wallet])
      /\ reward' = Put(reward, a, [owner |-> m.payer_user, kind |-> "User"])
      /\ UNCHANGED <<config, provider, challenge, bond_record>>
  BY DEF SubmittedFor
<1>2. m.nonce \in Nonces /\ m.payer_user \in Wallets /\ m.provider_wallet \in Wallets
  BY ListsAssumption, SubmittedForWallets
<1>3. \A x : SettlementOf(x) = s => x = r
  BY AddressesDiffer
<1> HIDE DEF r, s, a
<1>4. /\ DOMAIN receipt' = DOMAIN receipt \cup {r}
      /\ receipt'[r] = [payer_user |-> m.payer_user, provider_wallet |-> m.provider_wallet]
      /\ \A x \in DOMAIN receipt \ {r} : receipt'[x] = receipt[x]
  BY <1>1 DEF Put
<1>5. /\ DOMAIN settlement' = DOMAIN settlement \cup {s}
      /\ settlement'[s] = [attestation_receipt |-> r, payer_user |-> m.payer_user,
                           provider_wallet |-> m.provider_wallet]
      /\ \A x \in DOMAIN settlement : settlement'[x] = settlement[x]
  BY <1>1 DEF Put
<1>6. /\ DOMAIN reward' = DOMAIN reward \cup {a}
      /\ reward'[a] = [owner |-> m.payer_user, kind |-> "User"]
      /\ \A x \in DOMAIN reward \ {a} : reward'[x] = reward[x]
  BY <1>1 DEF Put
<1>7. RewardsPlaced'
  BY <1>2, <1>6 DEF ListsInv, RewardsPlaced, a
<1>8. SettlementsPlaced'
  <2>1. ASSUME NEW x \in DOMAIN settlement PROVE SettlementPlaced(x)'
    BY <1>1, <1>5, <1>6 DEF ListsInv, SettlementsPlaced, SettlementPlaced
  <2>2. SettlementPlaced(s)'
    BY <1>1, <1>2, <1>5, <1>6 DEF SettlementPlaced, r, s, a
  <2> QED
    BY <1>5, <2>1, <2>2 DEF SettlementsPlaced
<1>9. ReceiptsPlaced'
  <2>1. ASSUME NEW x \in DOMAIN receipt, x # r
        PROVE  /\ SettlementOf(x) \in DOMAIN settlement' /\ x \in DOMAIN receipt'
               /\ settlement'[SettlementOf(x)].payer_user = receipt'[x].payer_user
               /\ settlement'[SettlementOf(x)].provider_wallet = receipt'[x].provider_wallet
    BY <1>3, <1>4, <1>5, <2>1 DEF ListsInv, ReceiptsPlaced
  <2>2. /\ SettlementOf(r) \in DOMAIN settlement'
        /\ settlement'[SettlementOf(r)].payer_user = receipt'[r].payer_user
        /\ settlement'[SettlementOf(r)].provider_wallet = receipt'[r].provider_wallet
    BY <1>4, <1>5 DEF s
  <2> QED
    BY <1>4, <2>1, <2>2 DEF ReceiptsPlaced
<1>10. BondsPlaced'
  BY <1>1, <1>5 DEF ListsInv, BondsPlaced
<1> QED
  BY <1>1, <1>7, <1>8, <1>9, <1>10 DEF ListsInv, ProvidersPlaced, ChallengesPlaced, MintsDiffer

LEMMA CloseReceiptKeeps == ListsInv /\ CloseReceipt => ListsInv'
<1> SUFFICES ASSUME ListsInv, CloseReceipt PROVE ListsInv'
  OBVIOUS
<1>1. PICK r \in DOMAIN receipt : receipt' = Drop(receipt, r)
  BY DEF CloseReceipt
<1>2. UNCHANGED <<config, provider, reward, settlement, challenge, bond_record>>
  BY DEF CloseReceipt, configs
<1>3. \A x \in DOMAIN receipt' : x \in DOMAIN receipt /\ receipt'[x] = receipt[x]
  BY <1>1, DropFacts
<1> QED
  BY <1>2, <1>3
     DEF ListsInv, ProvidersPlaced, RewardsPlaced, SettlementsPlaced, SettlementPlaced,
         ReceiptsPlaced, BondsPlaced, ChallengesPlaced, MintsDiffer

\* What open_challenge does: the settlement it is given is the receipt's own, of
\* a signed message m.
OpenedAgainst(m, w) ==
    LET r == ReceiptOf(m.nonce)
        s == SettlementOf(r)
        c == ChallengeOf(r)
        b == BondRecordOf(c)
    IN
    /\ s \in DOMAIN settlement /\ c \notin DOMAIN challenge /\ b \notin DOMAIN bond_record
    /\ settlement[s].payer_user = m.payer_user
    /\ settlement[s].provider_wallet = m.provider_wallet
    /\ challenge' = Put(challenge, c, [receipt |-> r, challenger |-> w])
    /\ bond_record' = Put(bond_record, b,
         [attestation_challenge |-> c, attestation_receipt |-> r, challenger |-> w])
    /\ UNCHANGED <<config, provider, reward, receipt, settlement>>
    /\ \E source \in TokenAccounts :
         /\ OwnedToken(source, w, config.claw_mint)
         /\ Did({w}, {<<source, Vault("bonds")>>}, {b, ProviderOf(m.provider_wallet)})

\* The settlement at the address a receipt's settlement would have is of that
\* receipt, and of a signed message.
LEMMA SettlementOfReceipt ==
  ASSUME ListsInv, NEW r, SettlementOf(r) \in DOMAIN settlement
  PROVE  \E m \in Signed :
           /\ r = ReceiptOf(m.nonce)
           /\ settlement[SettlementOf(r)].attestation_receipt = r
           /\ settlement[SettlementOf(r)].payer_user = m.payer_user
           /\ settlement[SettlementOf(r)].provider_wallet = m.provider_wallet
<1>1. SettlementPlaced(SettlementOf(r))
  BY DEF ListsInv, SettlementsPlaced
<1>2. settlement[SettlementOf(r)].attestation_receipt = r
  BY <1>1, AddressesDiffer DEF SettlementPlaced
<1> QED
  BY <1>1, <1>2 DEF SettlementPlaced

LEMMA OpenChallengeEffect ==
  ASSUME ListsInv, NEW w, OpenChallenge(w)
  PROVE  \E m \in Signed : OpenedAgainst(m, w)
<1>1. PICK r \in DOMAIN receipt, s \in DOMAIN settlement, p \in DOMAIN provider :
        LET c == ChallengeOf(r)
            b == BondRecordOf(c)
        IN
        /\ c \notin DOMAIN challenge /\ b \notin DOMAIN bond_record
        /\ SettlementAccounts(r, s, p)
        /\ \E source \in TokenAccounts :
             /\ OwnedToken(source, w, config.claw_mint)
             /\ Did({w}, {<<source, Vault("bonds")>>}, {b, p})
        /\ challenge' = Put(challenge, c, [receipt |-> r, challenger |-> w])
        /\ bond_record' = Put(bond_record, b,
             [attestation_challenge |-> c, attestation_receipt |-> r, challenger |-> w])
        /\ UNCHANGED <<config, provider, reward, receipt, settlement>>
  BY DEF OpenChallenge, configs
<1>2. s = SettlementOf(r) /\ p = ProviderOf(settlement[s].provider_wallet)
  BY <1>1 DEF SettlementAccounts
<1>3. PICK m \in Signed :
        /\ r = ReceiptOf(m.nonce)
        /\ settlement[s].payer_user = m.payer_user
        /\ settlement[s].provider_wallet = m.provider_wallet
  BY <1>2, SettlementOfReceipt
<1>4. OpenedAgainst(m, w)
  BY <1>1, <1>2, <1>3 DEF OpenedAgainst
<1> QED
  BY <1>4

LEMMA OpenChallengeKeeps ==
  ASSUME ListsInv, NEW m \in Signed, NEW w \in Wallets, OpenedAgainst(m, w)
  PROVE  ListsInv'
<1> DEFINE r == ReceiptOf(m.nonce)
           s == SettlementOf(r)
           c == ChallengeOf(r)
           b == BondRecordOf(c)
<1>1. /\ s \in DOMAIN settlement /\ c \notin DOMAIN challenge /\ b \notin DOMAIN bond_record
      /\ challenge' = Put(challenge, c, [receipt |-> r, challenger |-> w])
      /\ bond_record' = Put(bond_record, b,
           [attestation_challenge |-> c, attestation_receipt |-> r, challenger |-> w])
      /\ UNCHANGED <<config, provider, reward, receipt, settlement>>
  BY DEF OpenedAgainst
<1>2. c = ChallengeOf(r) /\ b = BondRecordOf(c) /\ s = SettlementOf(r)
  OBVIOUS
<1> HIDE DEF r, s, c, b
<1>3. /\ DOMAIN challenge' = DOMAIN challenge \cup {c}
      /\ challenge'[c] = [receipt |-> r, challenger |-> w]
      /\ \A x \in DOMAIN challenge : challenge'[x] = challenge[x]
  BY <1>1 DEF Put
<1>4. /\ DOMAIN bond_record' = DOMAIN bond_record \cup {b}
      /\ bond_record'[b] = [attestation_challenge |-> c, attestation_receipt |-> r,
                            challenger |-> w]
      /\ \A x \in DOMAIN bond_record : bond_record'[x] = bond_record[x]
  BY <1>1 DEF Put
<1>5. BondsPlaced'
  BY <1>1, <1>2, <1>4 DEF ListsInv, BondsPlaced
<1>6. ChallengesPlaced'
  <2>1. ASSUME NEW x \in DOMAIN challenge
        PROVE  /\ x = ChallengeOf(challenge'[x].receipt)
               /\ BondRecordOf(x) \in DOMAIN bond_record'
               /\ bond_record'[BondRecordOf(x)].attestation_receipt = challenge'[x].receipt
               /\ bond_record'[BondRecordOf(x)].challenger = challenge'[x].challenger
    BY <1>3, <1>4 DEF ListsInv, ChallengesPlaced
  <2>2. /\ c = ChallengeOf(challenge'[c].receipt)
        /\ BondRecordOf(c) \in DOMAIN bond_record'
        /\ bond_record'[BondRecordOf(c)].attestation_receipt = challenge'[c].receipt
        /\ bond_record'[BondRecordOf(c)].challenger = challenge'[c].challenger
    BY <1>2, <1>3, <1>4
  <2> QED
    BY <1>3, <2>1, <2>2 DEF ChallengesPlaced
<1> QED
  BY <1>1, <1>5, <1>6
     DEF ListsInv, ProvidersPlaced, RewardsPlaced, SettlementsPlaced, SettlementPlaced,
         ReceiptsPlaced, MintsDiffer

LEMMA CloseChallengeKeeps == ListsInv /\ CloseChallenge => ListsInv'
<1> SUFFICES ASSUME ListsInv, CloseChallenge PROVE ListsInv'
  OBVIOUS
<1>1. PICK c \in DOMAIN challenge : challenge' = Drop(challenge, c)
  BY DEF CloseChallenge
<1>2. UNCHANGED <<config, provider, reward, settlement, receipt, bond_record>>
  BY DEF CloseChallenge, configs
<1>3. \A x \in DOMAIN challenge' : x \in DOMAIN challenge /\ challenge'[x] = challenge[x]
  BY <1>1, DropFacts
<1> QED
  BY <1>2, <1>3
     DEF ListsInv, ProvidersPlaced, RewardsPlaced, SettlementsPlaced, SettlementPlaced,
         ReceiptsPlaced, BondsPlaced, ChallengesPlaced, MintsDiffer

\* The instructions that create no account and close none.
LEMMA OthersKeep ==
  ASSUME ListsInv,
         \/ \E m \in Signed : \/ UpsertProviderSigner(m.signer, m.provider_wallet)
                               \/ RevokeProviderSigner(m.signer, m.provider_wallet)
         \/ \E w \in Wallets : ExitProvider(w) \/ ClaimReleasedClaw(w)
         \/ \E user \in TokenOwners : ClaimFaucet(user)
         \/ \E target \in {"User", "Provider"} : MaterializeRewardRelease(target)
         \/ MintGenesisSupply \/ InitializeFaucet \/ FundFaucetClaw
         \/ FinalizeReceipt \/ ResolveChallenge \/ TimeoutRejectChallenge
         \/ UNCHANGED lvars
  PROVE  ListsInv'
<1>1. UNCHANGED <<config, provider, reward, receipt, settlement, challenge, bond_record>>
  BY DEF UpsertProviderSigner, RevokeProviderSigner, ExitProvider, ClaimReleasedClaw, ClaimFaucet,
         MaterializeRewardRelease, MintGenesisSupply, InitializeFaucet, FundFaucetClaw,
         FinalizeReceipt, ResolveChallenge, DismissChallenge, UpholdChallenge,
         TimeoutRejectChallenge, lvars, configs, account_vars
<1> QED
  BY <1>1, ListsInvKept

LEMMA ListsInvNext == ListsInv /\ [ListsNext]_lvars => ListsInv'
<1> SUFFICES ASSUME ListsInv, [ListsNext]_lvars PROVE ListsInv'
  OBVIOUS
<1>1. ASSUME NEW pair \in MintPairs, InitializeMasterpool(pair[1], pair[2]) PROVE ListsInv'
  BY <1>1, InitializeMasterpoolKeeps
<1>2. CASE ReceiptStep
  <2>1. ASSUME NEW nonce \in Nonces, NEW payer \in TokenOwners,
               NEW delegate \in Wallets \cup {Approved[w] : w \in Wallets},
               SubmitReceipt(nonce, payer, delegate)
        PROVE  ListsInv'
    BY <2>1, SubmitReceiptEffect, SubmitReceiptKeeps
  <2>2. ASSUME NEW w \in Wallets, OpenChallenge(w) PROVE ListsInv'
    BY <2>2, OpenChallengeEffect, OpenChallengeKeeps
  <2> QED
    BY <1>2, <2>1, <2>2, CloseReceiptKeeps, CloseChallengeKeeps, OthersKeep DEF ReceiptStep
<1>3. CASE WalletStep
  BY <1>3, RegisterProviderKeeps, OthersKeep DEF WalletStep
<1> QED
  BY <1>1, <1>2, <1>3, OthersKeep DEF ListsNext

LEMMA ListsInvHolds == ListsSpec => []ListsInv
BY ListsInvInit, ListsInvNext, PTL DEF ListsSpec

\* Whatever accounts the instructions of both programs are given, every account
\* is where its contents say it is and both programs' copies of an identity agree.
THEOREM ListsAccountsAgree == ListsSpec => []AccountsAgree
<1>1. ListsInv => AccountsAgree
  BY DEF ListsInv, RewardsPlaced, SettlementsPlaced, SettlementPlaced, ReceiptsPlaced, BondsPlaced,
         ChallengesPlaced, AccountsAgree
<1> QED
  BY <1>1, ListsInvHolds, PTL
-----------------------------------------------------------------------------
(* Refinement: what the accounts say of a receipt's parties                 *)

\* The message a nonce was submitted with is the one its settlement names.
PartiesNamed ==
    \A n \in Nonces :
        LET s == SettlementOf(ReceiptOf(n)) IN
        /\ s \notin DOMAIN settlement => parties[n] = None
        /\ s \in DOMAIN settlement =>
             /\ parties[n] \in Signed /\ parties[n] # None
             /\ parties[n].nonce = n
             /\ parties[n].payer_user = settlement[s].payer_user
             /\ parties[n].provider_wallet = settlement[s].provider_wallet

\* What is booked in an account, by the seed of its address.
TotalsNamed ==
    /\ \A w : ProviderOf(w) \in DOMAIN provider => Total(ProviderOf(w)) = <<"account", w>>
    /\ \A kind \in {"User", "Provider"} : \A w :
         RewardOf(kind, w) \in DOMAIN reward => Total(RewardOf(kind, w)) = <<kind, w>>
    /\ \A n : SettlementOf(ReceiptOf(n)) \in DOMAIN settlement =>
         Total(SettlementOf(ReceiptOf(n))) = <<"settlement", n>>
    /\ \A n : BondRecordOf(ChallengeOf(ReceiptOf(n))) \in DOMAIN bond_record =>
         Total(BondRecordOf(ChallengeOf(ReceiptOf(n)))) = <<"bond", n>>
    /\ \A w : Total(Masterpool("faucet_user", w)) = <<"claimed", Party(w)>>

LEMMA PartiesNamedHolds == ListsInv => PartiesNamed
<1> SUFFICES ASSUME ListsInv, NEW n \in Nonces
             PROVE  LET s == SettlementOf(ReceiptOf(n)) IN
                    /\ s \notin DOMAIN settlement => parties[n] = None
                    /\ s \in DOMAIN settlement =>
                         /\ parties[n] \in Signed /\ parties[n] # None
                         /\ parties[n].nonce = n
                         /\ parties[n].payer_user = settlement[s].payer_user
                         /\ parties[n].provider_wallet = settlement[s].provider_wallet
  BY DEF PartiesNamed
<1> DEFINE s == SettlementOf(ReceiptOf(n))
<1>1. ASSUME s \in DOMAIN settlement
      PROVE  \E m \in Signed : /\ m.nonce = n
                               /\ m.payer_user = settlement[s].payer_user
                               /\ m.provider_wallet = settlement[s].provider_wallet
  BY <1>1, SettlementOfReceipt, AddressesDiffer
<1>2. s \notin DOMAIN settlement => parties[n] = None
  BY DEF parties
<1>3. s \in DOMAIN settlement =>
        parties[n] = CHOOSE m \in Signed : /\ m.nonce = n
                                           /\ m.payer_user = settlement[s].payer_user
                                           /\ m.provider_wallet = settlement[s].provider_wallet
  BY DEF parties
<1> HIDE DEF s
<1>4. s \in DOMAIN settlement =>
        /\ parties[n] \in Signed /\ parties[n].nonce = n
        /\ parties[n].payer_user = settlement[s].payer_user
        /\ parties[n].provider_wallet = settlement[s].provider_wallet
  BY <1>1, <1>3
<1> QED
  BY <1>2, <1>4, ListsAssumption DEF s

LEMMA TotalsNamedHolds == ListsInv => TotalsNamed
<1> SUFFICES ASSUME ListsInv PROVE TotalsNamed
  OBVIOUS
<1>1. ASSUME NEW w, ProviderOf(w) \in DOMAIN provider
      PROVE  Total(ProviderOf(w)) = <<"account", w>>
  <2>1. provider[ProviderOf(w)].provider_wallet = w
    BY <1>1, AddressesDiffer DEF ListsInv, ProvidersPlaced
  <2> QED
    BY <1>1, <2>1 DEF Total
<1>2. ASSUME NEW kind \in {"User", "Provider"}, NEW w, RewardOf(kind, w) \in DOMAIN reward
      PROVE  Total(RewardOf(kind, w)) = <<kind, w>>
  <2>1. RewardOf(kind, w) \notin DOMAIN provider
    BY DEF ListsInv, ProvidersPlaced, ProviderOf, RewardOf, Masterpool, Pda
  <2>2. reward[RewardOf(kind, w)].kind = kind /\ reward[RewardOf(kind, w)].owner = w
    BY <1>2 DEF ListsInv, RewardsPlaced, RewardOf, Masterpool, Pda
  <2> QED
    BY <1>2, <2>1, <2>2 DEF Total
<1>3. ASSUME NEW n, SettlementOf(ReceiptOf(n)) \in DOMAIN settlement
      PROVE  Total(SettlementOf(ReceiptOf(n))) = <<"settlement", n>>
  <2>1. /\ SettlementOf(ReceiptOf(n)) \notin DOMAIN provider
        /\ SettlementOf(ReceiptOf(n)) \notin DOMAIN reward
    BY DEF ListsInv, ProvidersPlaced, RewardsPlaced, ProviderOf, RewardOf, SettlementOf,
           Masterpool, Pda
  <2>2. settlement[SettlementOf(ReceiptOf(n))].attestation_receipt = ReceiptOf(n)
    BY <1>3, AddressesDiffer DEF ListsInv, SettlementsPlaced, SettlementPlaced
  <2>3. ReceiptOf(n)[3] = n
    BY DEF ReceiptOf, Attestation, Pda
  <2> QED
    BY <1>3, <2>1, <2>2, <2>3 DEF Total
<1>4. ASSUME NEW n, BondRecordOf(ChallengeOf(ReceiptOf(n))) \in DOMAIN bond_record
      PROVE  Total(BondRecordOf(ChallengeOf(ReceiptOf(n)))) = <<"bond", n>>
  <2> DEFINE b == BondRecordOf(ChallengeOf(ReceiptOf(n)))
  <2>1. b \notin DOMAIN provider /\ b \notin DOMAIN reward /\ b \notin DOMAIN settlement
    BY DEF ListsInv, ProvidersPlaced, RewardsPlaced, SettlementsPlaced, SettlementPlaced,
           ProviderOf, RewardOf, SettlementOf, BondRecordOf, Masterpool, Pda
  <2>2. bond_record[b].attestation_receipt = ReceiptOf(n)
    BY <1>4, AddressesDiffer DEF ListsInv, BondsPlaced
  <2>3. ReceiptOf(n)[3] = n
    BY DEF ReceiptOf, Attestation, Pda
  <2> QED
    BY <1>4, <2>1, <2>2, <2>3 DEF Total
<1>5. ASSUME NEW w PROVE Total(Masterpool("faucet_user", w)) = <<"claimed", Party(w)>>
  <2> DEFINE a == Masterpool("faucet_user", w)
  <2>1. /\ a \notin DOMAIN provider /\ a \notin DOMAIN reward
        /\ a \notin DOMAIN settlement /\ a \notin DOMAIN bond_record
    BY DEF ListsInv, ProvidersPlaced, RewardsPlaced, SettlementsPlaced, SettlementPlaced,
           BondsPlaced, ProviderOf, RewardOf, SettlementOf, BondRecordOf, Masterpool, Pda
  <2>2. a[3] = w
    BY DEF Masterpool, Pda
  <2> QED
    BY <2>1, <2>2 DEF Total
<1> QED
  BY <1>1, <1>2, <1>3, <1>4, <1>5 DEF TotalsNamed

LEMMA NamedNext == ListsInv' => PartiesNamed' /\ TotalsNamed'
BY PartiesNamedHolds, TotalsNamedHolds, PTL

\* A nonce whose settlement stays keeps its parties.
LEMMA PartiesKept ==
  ASSUME NEW n \in Nonces,
         LET s == SettlementOf(ReceiptOf(n)) IN
         /\ s \in DOMAIN settlement' <=> s \in DOMAIN settlement
         /\ s \in DOMAIN settlement => settlement'[s] = settlement[s]
  PROVE  parties'[n] = parties[n]
<1> DEFINE s == SettlementOf(ReceiptOf(n))
           Of(q) == CHOOSE m \in Signed : /\ m.nonce = n
                                          /\ m.payer_user = q.payer_user
                                          /\ m.provider_wallet = q.provider_wallet
<1>1. parties[n] = IF s \notin DOMAIN settlement THEN None ELSE Of(settlement[s])
  BY DEF parties
<1>2. parties'[n] = IF s \notin DOMAIN settlement' THEN None ELSE Of(settlement'[s])
  BY DEF parties
<1> HIDE DEF s, Of
<1> QED
  BY <1>1, <1>2 DEF s

\* Who gives and who gets.
LEMMA Holders ==
  /\ \A pot \in ClawPots \cup UsdcPots : Holder(Vault(pot)) = pot
  /\ Holder(ClawSupply) = "supply"
  /\ \A token, mint : \A w \in Wallets :
       OwnedToken(token, w, mint) => Holder(token) = w /\ token \notin Vaults
  /\ \A w \in Wallets : Party(w) = w
<1>1. \A pot \in ClawPots \cup UsdcPots : Vault(pot) \in Vaults /\ Vault(pot)[3] = pot
  BY DEF Vaults, Vault, Masterpool, Pda
<1>2. ClawSupply \notin Vaults /\ ClawSupply[2] = "supply"
  BY DEF Vaults, Vault, ClawSupply, Masterpool, Pda
<1>3. ASSUME NEW token, NEW mint, NEW w \in Wallets, OwnedToken(token, w, mint)
      PROVE  Holder(token) = w /\ token \notin Vaults
  BY <1>3, ListsAssumption DEF OwnedToken, OwnerOf, Holder
<1>4. \A w \in Wallets : Party(w) = w
  BY ListsAssumption DEF Party
<1> QED
  BY <1>1, <1>2, <1>3, <1>4 DEF Holder

\* What an instruction did, seen from its parties.
Moves(transfers) == {<<Holder(t[1]), Holder(t[2])>> : t \in transfers}
Booked(writes) == {Total(a) : a \in writes}

LEMMA StepSeen ==
  ASSUME NEW signers, NEW transfers, NEW writes, Did(signers, transfers, writes)
  PROVE  step' = [signers |-> signers, moves |-> Moves(transfers), booked |-> Booked(writes)']
BY DEF Did, step, Holder, Moves, Booked

LEMMA MovesOf ==
  /\ Moves({}) = {}
  /\ \A a, b : Moves({<<a, b>>}) = {<<Holder(a), Holder(b)>>}
  /\ \A a, b, c, d : Moves({<<a, b>>, <<c, d>>}) =
       {<<Holder(a), Holder(b)>>, <<Holder(c), Holder(d)>>}
  /\ \A a, b, c, d, e, f, g, h : Moves({<<a, b>>, <<c, d>>, <<e, f>>, <<g, h>>}) =
       {<<Holder(a), Holder(b)>>, <<Holder(c), Holder(d)>>,
        <<Holder(e), Holder(f)>>, <<Holder(g), Holder(h)>>}
BY DEF Moves

LEMMA BookedOf ==
  /\ Booked({})' = {}
  /\ \A a : Booked({a})' = {Total(a)'}
  /\ \A a, b : Booked({a, b})' = {Total(a)', Total(b)'}
  /\ \A a, b, c, d : Booked({a, b, c, d})' = {Total(a)', Total(b)', Total(c)', Total(d)'}
  /\ \A a, b, c, d, e : Booked({a, b, c, d, e})' =
       {Total(a)', Total(b)', Total(c)', Total(d)', Total(e)'}
BY DEF Booked

\* An instruction that writes no settlement, no bond record and no account of
\* totals leaves parties and totals alone.
LEMMA PartiesUnchanged ==
  ASSUME UNCHANGED <<settlement, bond_record>>
  PROVE  UNCHANGED <<parties, challenger>>
BY DEF parties, challenger

LEMMA TotalsUnchanged ==
  ASSUME UNCHANGED <<provider, reward, settlement, bond_record>>, NEW a
  PROVE  Total(a)' = Total(a)
BY DEF Total

\* Setting up, keys, and closing accounts.
LEMMA AdministerStep ==
  ASSUME ListsInv,
         \/ \E pair \in MintPairs : InitializeMasterpool(pair[1], pair[2])
         \/ \E m \in Signed : \/ UpsertProviderSigner(m.signer, m.provider_wallet)
                               \/ RevokeProviderSigner(m.signer, m.provider_wallet)
         \/ InitializeFaucet \/ CloseReceipt \/ CloseChallenge
  PROVE  Parties!Administer
<1>1. UNCHANGED <<settlement, bond_record>>
  BY DEF InitializeMasterpool, UpsertProviderSigner, RevokeProviderSigner, InitializeFaucet,
         CloseReceipt, CloseChallenge, account_vars
<1>2. \E signers : Did(signers, {}, {})
  BY DEF InitializeMasterpool, UpsertProviderSigner, RevokeProviderSigner, InitializeFaucet,
         CloseReceipt, CloseChallenge
<1>3. step'.moves = {} /\ step'.booked = {}
  BY <1>2 DEF Did, step
<1> QED
  BY <1>1, <1>3, PartiesUnchanged DEF Parties!Administer

\* The instructions of one wallet.
LEMMA OwnStep ==
  ASSUME ListsInv, ListsInv', config # None, NEW w \in Wallets,
         \/ RegisterProvider(w) \/ ExitProvider(w) \/ ClaimReleasedClaw(w)
         \/ ClaimFaucet(w)
  PROVE  Parties!Own(w)
<1>0. UNCHANGED <<parties, challenger>>
  <2>1. UNCHANGED <<settlement, bond_record>>
    BY DEF RegisterProvider, ExitProvider, ClaimReleasedClaw, ClaimFaucet, account_vars
  <2> QED
    BY <2>1, PartiesUnchanged
<1>t. TotalsNamed /\ TotalsNamed'
  BY TotalsNamedHolds, NamedNext
<1>1. ASSUME RegisterProvider(w) PROVE Parties!Own(w)
  <2>1. PICK source \in TokenAccounts :
          /\ OwnedToken(source, w, config.usdc_mint)
          /\ Did({w}, {<<source, Vault("stake")>>}, {ProviderOf(w), RewardOf("Provider", w)})
    BY <1>1 DEF RegisterProvider
  <2>2. Total(ProviderOf(w))' = <<"account", w>> /\ Total(RewardOf("Provider", w))' = <<"Provider", w>>
    <3>1. ProviderOf(w) \in DOMAIN provider' /\ RewardOf("Provider", w) \in DOMAIN reward'
      BY <1>1 DEF RegisterProvider, Put
    <3> QED
      BY <1>t, <3>1 DEF TotalsNamed
  <2>3. Holder(source) = w /\ Holder(Vault("stake")) = "stake"
    BY <2>1, Holders DEF UsdcPots
  <2>4. step' = [signers |-> {w}, moves |-> {<<w, "stake">>},
                 booked |-> {<<"account", w>>, <<"Provider", w>>}]
    BY <2>1, <2>2, <2>3, StepSeen, MovesOf, BookedOf
  <2> QED
    BY <1>0, <2>4 DEF Parties!Own, Parties!Step
<1>2. ASSUME ExitProvider(w) PROVE Parties!Own(w)
  <2>1. PICK p \in DOMAIN provider, destination \in TokenAccounts :
          /\ p = ProviderOf(w)
          /\ Transferable(Vault("stake"), destination, PoolAuthority)
          /\ Did({w}, {<<Vault("stake"), destination>>}, {p})
          /\ UNCHANGED account_vars
    BY <1>2 DEF ExitProvider
  <2>2. Total(p)' = <<"account", w>>
    BY <1>t, <2>1, TotalsUnchanged DEF TotalsNamed, account_vars
  <2>3. Holder(destination) \in Wallets \cup UsdcPots
    <3>1. MintOf(destination) = config.usdc_mint
      BY <2>1 DEF Transferable, MintOf, Vaults, Vault, ClawPots, UsdcPots, Masterpool, Pda
    <3>2. CASE destination \in Vaults
      <4>1. PICK pot \in ClawPots \cup UsdcPots : destination = Vault(pot)
        BY <3>2 DEF Vaults
      <4>2. pot \notin ClawPots
        BY <3>1, <3>2, <4>1 DEF MintOf, Vault, Masterpool, Pda, ListsInv, MintsDiffer
      <4> QED
        BY <4>1, <4>2, Holders
    <3>3. CASE destination \notin Vaults
      BY <3>3 DEF TokenAccounts, WalletToken, Pda, Holder
    <3> QED
      BY <3>2, <3>3
  <2>4. Holder(Vault("stake")) = "stake"
    BY Holders DEF UsdcPots
  <2>5. step' = [signers |-> {w}, moves |-> {<<"stake", Holder(destination)>>},
                 booked |-> {<<"account", w>>}]
    <3>1. Moves({<<Vault("stake"), destination>>}) = {<<"stake", Holder(destination)>>}
      BY <2>4, MovesOf
    <3>2. Booked({p})' = {<<"account", w>>}
      BY <2>2, BookedOf
    <3> QED
      BY <2>1, <3>1, <3>2, StepSeen
  <2> QED
    BY <1>0, <2>3, <2>5 DEF Parties!Own, Parties!Step, UsdcPots, Parties!UsdcPots
<1>3. ASSUME ClaimReleasedClaw(w) PROVE Parties!Own(w)
  <2>1. PICK account \in DOMAIN reward, destination \in TokenAccounts :
          /\ reward[account].owner = w
          /\ OwnedToken(destination, w, config.claw_mint)
          /\ Did({w}, {<<Vault("rewards"), destination>>}, {account})
          /\ UNCHANGED account_vars
    BY <1>3 DEF ClaimReleasedClaw
  <2>2. PICK kind \in {"User", "Provider"} : account = RewardOf(kind, w)
    BY <2>1 DEF ListsInv, RewardsPlaced
  <2>3. Total(account)' = <<kind, w>>
    BY <1>t, <2>1, <2>2, TotalsUnchanged DEF TotalsNamed, account_vars
  <2>4. Holder(destination) = w /\ Holder(Vault("rewards")) = "rewards"
    BY <2>1, Holders DEF ClawPots
  <2>5. step' = [signers |-> {w}, moves |-> {<<"rewards", w>>}, booked |-> {<<kind, w>>}]
    <3>1. Moves({<<Vault("rewards"), destination>>}) = {<<"rewards", w>>}
      BY <2>4 DEF Moves
    <3>2. Booked({account})' = {<<kind, w>>}
      BY <2>3, BookedOf
    <3> QED
      BY <2>1, <3>1, <3>2, StepSeen
  <2> QED
    BY <1>0, <2>5 DEF Parties!Own, Parties!Step
<1>4. ASSUME ClaimFaucet(w) PROVE Parties!Own(w)
  <2>1. PICK c, u \in TokenAccounts :
          /\ OwnedToken(c, w, config.claw_mint) /\ OwnedToken(u, w, config.usdc_mint)
          /\ Did({}, {<<Vault("faucet_claw"), c>>, <<Vault("faucet_usdc"), u>>},
                 {Masterpool("faucet_user", w)})
    BY <1>4 DEF ClaimFaucet
  <2>2. Total(Masterpool("faucet_user", w))' = <<"claimed", w>>
    BY <1>t, Holders DEF TotalsNamed
  <2>3. /\ Holder(c) = w /\ Holder(u) = w
        /\ Holder(Vault("faucet_claw")) = "faucet_claw"
        /\ Holder(Vault("faucet_usdc")) = "faucet_usdc"
    BY <2>1, Holders DEF ClawPots, UsdcPots
  <2>4. step' = [signers |-> {}, moves |-> {<<"faucet_claw", w>>, <<"faucet_usdc", w>>},
                 booked |-> {<<"claimed", w>>}]
    <3>1. Moves({<<Vault("faucet_claw"), c>>, <<Vault("faucet_usdc"), u>>})
            = {<<"faucet_claw", w>>, <<"faucet_usdc", w>>}
      <4> DEFINE claw_vault == Vault("faucet_claw")
                 usdc_vault == Vault("faucet_usdc")
      <4> HIDE DEF claw_vault, usdc_vault
      <4>1. Moves({<<claw_vault, c>>, <<usdc_vault, u>>})
              = {<<Holder(claw_vault), Holder(c)>>, <<Holder(usdc_vault), Holder(u)>>}
        BY DEF Moves
      <4> QED
        BY <2>3, <4>1 DEF claw_vault, usdc_vault
    <3>2. Booked({Masterpool("faucet_user", w)})' = {<<"claimed", w>>}
      BY <2>2, BookedOf
    <3> QED
      BY <2>1, <3>1, <3>2, StepSeen
  <2> QED
    BY <1>0, <2>4 DEF Parties!Own, Parties!Step
<1> QED
  BY <1>1, <1>2, <1>3, <1>4

\* A claim in the pool's name moves tokens between its vaults, by mint.
LEMMA PoolClaimStep ==
  ASSUME ListsInv, ListsInv', config # None, ClaimFaucet(PoolAuthority)
  PROVE  Parties!PoolClaim
<1>1. PICK c, u \in TokenAccounts :
        /\ OwnedToken(c, PoolAuthority, config.claw_mint)
        /\ OwnedToken(u, PoolAuthority, config.usdc_mint)
        /\ Did({}, {<<Vault("faucet_claw"), c>>, <<Vault("faucet_usdc"), u>>},
               {Masterpool("faucet_user", PoolAuthority)})
        /\ UNCHANGED account_vars
  BY DEF ClaimFaucet
<1>2. ASSUME NEW token \in TokenAccounts, NEW mint, OwnedToken(token, PoolAuthority, mint)
      PROVE  \E pot \in ClawPots \cup UsdcPots : token = Vault(pot)
  <2>1. ASSUME NEW w \in Wallets, NEW other, token = WalletToken(w, other), token \notin Vaults
        PROVE  FALSE
    <3>1. token[2] = w
      BY <2>1 DEF WalletToken, Pda
    <3>2. token[2] = PoolAuthority
      BY <1>2, <2>1 DEF OwnedToken, OwnerOf
    <3> QED
      BY <3>1, <3>2, ListsAssumption
  <2> QED
    BY <2>1 DEF TokenAccounts, Vaults
<1>3. PICK claw_pot \in ClawPots \cup UsdcPots, usdc_pot \in ClawPots \cup UsdcPots :
        c = Vault(claw_pot) /\ u = Vault(usdc_pot)
  BY <1>1, <1>2
<1>4. ASSUME NEW pot \in ClawPots \cup UsdcPots
      PROVE  MintOf(Vault(pot)) = IF pot \in ClawPots THEN config.claw_mint ELSE config.usdc_mint
  <2>1. Vault(pot) \in Vaults /\ Vault(pot)[3] = pot
    BY DEF Vaults, Vault, Masterpool, Pda
  <2> QED
    BY <2>1 DEF MintOf
<1>5. config.claw_mint # config.usdc_mint
  BY DEF ListsInv, MintsDiffer
<1>6. claw_pot \in ClawPots /\ usdc_pot \in UsdcPots
  BY <1>1, <1>3, <1>4, <1>5 DEF OwnedToken
<1>7. Total(Masterpool("faucet_user", PoolAuthority))' = <<"claimed", "pool">>
  <2>1. TotalsNamed'
    BY NamedNext
  <2> QED
    BY <2>1 DEF TotalsNamed, Party
<1>8. /\ Holder(c) = claw_pot /\ Holder(u) = usdc_pot
      /\ Holder(Vault("faucet_claw")) = "faucet_claw"
      /\ Holder(Vault("faucet_usdc")) = "faucet_usdc"
  BY <1>3, Holders DEF ClawPots, UsdcPots
<1>9. Moves({<<Vault("faucet_claw"), c>>, <<Vault("faucet_usdc"), u>>})
        = {<<"faucet_claw", claw_pot>>, <<"faucet_usdc", usdc_pot>>}
  <2> DEFINE claw_vault == Vault("faucet_claw")
             usdc_vault == Vault("faucet_usdc")
  <2> HIDE DEF claw_vault, usdc_vault
  <2>1. Moves({<<claw_vault, c>>, <<usdc_vault, u>>})
          = {<<Holder(claw_vault), Holder(c)>>, <<Holder(usdc_vault), Holder(u)>>}
    BY DEF Moves
  <2> QED
    BY <1>8, <2>1 DEF claw_vault, usdc_vault
<1>10. Booked({Masterpool("faucet_user", PoolAuthority)})' = {<<"claimed", "pool">>}
  BY <1>7, BookedOf
<1>11. step' = [signers |-> {},
                moves |-> {<<"faucet_claw", claw_pot>>, <<"faucet_usdc", usdc_pot>>},
                booked |-> {<<"claimed", "pool">>}]
  BY <1>1, <1>9, <1>10, StepSeen
<1> QED
  BY <1>1, <1>6, <1>11, PartiesUnchanged
     DEF account_vars, ClawPots, UsdcPots, Parties!PoolClaim, Parties!Step, Parties!ClawPots,
         Parties!UsdcPots

\* Genesis mints into the reward vault, and an admin stocks the faucet from it.
LEMMA StockStep ==
  ASSUME MintGenesisSupply \/ FundFaucetClaw
  PROVE  Parties!Stock
<1>0. UNCHANGED <<parties, challenger>>
  BY PartiesUnchanged DEF MintGenesisSupply, FundFaucetClaw, account_vars
<1>1. ASSUME MintGenesisSupply PROVE Parties!Stock
  <2>1. Holder(ClawSupply) = "supply" /\ Holder(Vault("rewards")) = "rewards"
    BY Holders DEF ClawPots
  <2>2. step' = [signers |-> {Admin}, moves |-> {<<"supply", "rewards">>}, booked |-> {}]
    <3>1. Moves({<<ClawSupply, Vault("rewards")>>}) = {<<"supply", "rewards">>}
      BY <2>1, MovesOf
    <3>2. Booked({})' = {}
      BY BookedOf
    <3>3. Did({Admin}, {<<ClawSupply, Vault("rewards")>>}, {})
      BY <1>1 DEF MintGenesisSupply
    <3> QED
      BY <3>1, <3>2, <3>3, StepSeen
  <2> QED
    BY <1>0, <2>2 DEF Parties!Stock, Parties!Step
<1>2. ASSUME FundFaucetClaw PROVE Parties!Stock
  <2>1. Holder(Vault("rewards")) = "rewards" /\ Holder(Vault("faucet_claw")) = "faucet_claw"
    BY Holders DEF ClawPots
  <2>2. step' = [signers |-> {Admin}, moves |-> {<<"rewards", "faucet_claw">>}, booked |-> {}]
    <3>1. Moves({<<Vault("rewards"), Vault("faucet_claw")>>}) = {<<"rewards", "faucet_claw">>}
      <4> DEFINE from == Vault("rewards")
                 to == Vault("faucet_claw")
      <4> HIDE DEF from, to
      <4>1. Moves({<<from, to>>}) = {<<Holder(from), Holder(to)>>}
        BY MovesOf
      <4> QED
        BY <2>1, <4>1 DEF from, to
    <3>2. Booked({})' = {}
      BY BookedOf
    <3>3. Did({Admin}, {<<Vault("rewards"), Vault("faucet_claw")>>}, {})
      BY <1>2 DEF FundFaucetClaw
    <3> QED
      BY <3>1, <3>2, <3>3, StepSeen
  <2> QED
    BY <1>0, <2>2 DEF Parties!Stock, Parties!Step
<1> QED
  BY <1>1, <1>2

\* submit_receipt takes the message the settlement is found by afterwards, which
\* names the same nonce, payer and provider as the one the signature was for.
LEMMA TakeStep ==
  ASSUME ListsInv, ListsInv', NEW m \in Signed, SubmittedFor(m, Approved[m.payer_user])
  PROVE  Parties!Take(parties'[m.nonce])
<1> DEFINE n == m.nonce
           s == SettlementOf(ReceiptOf(n))
           p == ProviderOf(m.provider_wallet)
           pr == RewardOf("Provider", m.provider_wallet)
           ur == RewardOf("User", m.payer_user)
<1>n. n \in Nonces /\ m.payer_user \in Wallets /\ m.provider_wallet \in Wallets
  BY ListsAssumption, SubmittedForWallets
<1>1. PICK q : q = parties'[n]
  OBVIOUS
<1>2. /\ s \notin DOMAIN settlement /\ s \in DOMAIN settlement'
      /\ settlement'[s].payer_user = m.payer_user
      /\ settlement'[s].provider_wallet = m.provider_wallet
      /\ \A k \in Nonces \ {n} :
           LET t == SettlementOf(ReceiptOf(k)) IN
           /\ t \in DOMAIN settlement' <=> t \in DOMAIN settlement
           /\ t \in DOMAIN settlement => settlement'[t] = settlement[t]
  <2>1. /\ s \notin DOMAIN settlement
        /\ settlement' = Put(settlement, s,
             [attestation_receipt |-> ReceiptOf(n), payer_user |-> m.payer_user,
              provider_wallet |-> m.provider_wallet])
    BY DEF SubmittedFor
  <2>2. \A k : k # n => SettlementOf(ReceiptOf(k)) # s
    BY AddressesDiffer
  <2> HIDE DEF s
  <2> QED
    BY <2>1, <2>2 DEF Put
<1>3. /\ q \in Signed /\ q.nonce = n /\ q.payer_user = m.payer_user
      /\ q.provider_wallet = m.provider_wallet
  BY <1>n, <1>1, <1>2, NamedNext DEF PartiesNamed
<1>4. parties[n] = None
  BY <1>n, <1>2, PartiesNamedHolds DEF PartiesNamed
<1>5. parties' = [parties EXCEPT ![n] = q]
  <2>1. \A k \in Nonces \ {n} : parties'[k] = parties[k]
    BY <1>2, PartiesKept
  <2>2. /\ parties = [k \in Nonces |-> parties[k]] /\ parties' = [k \in Nonces |-> parties'[k]]
    BY DEF parties
  <2> QED
    BY <1>n, <1>1, <2>1, <2>2
<1>6. UNCHANGED challenger
  BY DEF SubmittedFor, challenger
<1>7. PICK token \in TokenAccounts :
        /\ OwnedToken(token, m.payer_user, config.usdc_mint)
        /\ Did({Authority, Approved[m.payer_user]},
               {<<token, Vault("treasury")>>, <<token, Vault("escrow")>>}, {s, p, pr, ur})
  BY DEF SubmittedFor
<1>8. /\ Holder(token) = m.payer_user
      /\ Holder(Vault("treasury")) = "treasury" /\ Holder(Vault("escrow")) = "escrow"
  BY <1>n, <1>7, Holders DEF UsdcPots
<1>9. /\ Total(s)' = <<"settlement", n>> /\ Total(p)' = <<"account", m.provider_wallet>>
      /\ Total(pr)' = <<"Provider", m.provider_wallet>> /\ Total(ur)' = <<"User", m.payer_user>>
  <2>1. /\ p \in DOMAIN provider' /\ pr \in DOMAIN reward' /\ ur \in DOMAIN reward'
    BY DEF SubmittedFor, Put
  <2> QED
    BY <1>2, <2>1, NamedNext DEF TotalsNamed
<1> HIDE DEF s, p, pr, ur
<1>10. Moves({<<token, Vault("treasury")>>, <<token, Vault("escrow")>>})
         = {<<m.payer_user, "treasury">>, <<m.payer_user, "escrow">>}
  BY <1>8 DEF Moves
<1>11. Booked({s, p, pr, ur})' = Parties!Totals(q)
  BY <1>3, <1>9, BookedOf DEF Parties!Totals
<1>12. step' = [signers |-> {Authority, Approved[q.payer_user]},
                moves |-> {<<q.payer_user, "treasury">>, <<q.payer_user, "escrow">>},
                booked |-> Parties!Totals(q)]
  BY <1>3, <1>7, <1>10, <1>11, StepSeen
<1> QED
  BY <1>1, <1>3, <1>4, <1>5, <1>6, <1>12 DEF Parties!Take, Parties!Step

\* The signer of the payment is the delegate the payer chose.
LEMMA DelegateIsApproved ==
  ASSUME NEW m \in Signed, NEW delegate, SubmittedFor(m, delegate)
  PROVE  SubmittedFor(m, Approved[m.payer_user])
<1>1. ASSUME NEW token, OwnedToken(token, m.payer_user, config.usdc_mint),
             DelegateOf(token) = delegate, delegate # None
      PROVE  delegate = Approved[m.payer_user]
  BY <1>1 DEF DelegateOf, OwnedToken
<1>2. delegate = Approved[m.payer_user]
  BY <1>1 DEF SubmittedFor
<1> QED
  BY <1>2

\* The settlement and the accounts of totals an instruction on receipt r is
\* given are those of the receipt's parties.
OfReceipt(n, r, s, p) ==
    /\ r = ReceiptOf(n) /\ s = SettlementOf(r)
    /\ parties[n] # None /\ parties[n].nonce = n
    /\ settlement[s].attestation_receipt = r
    /\ settlement[s].payer_user = parties[n].payer_user
    /\ settlement[s].provider_wallet = parties[n].provider_wallet
    /\ parties[n].payer_user \in Wallets /\ parties[n].provider_wallet \in Wallets
    /\ Total(s)' = <<"settlement", n>>
    /\ Total(p)' = <<"account", parties[n].provider_wallet>>
    /\ \A pr, ur \in DOMAIN reward : RewardAccounts(s, pr, ur) =>
         /\ Total(pr)' = <<"Provider", parties[n].provider_wallet>>
         /\ Total(ur)' = <<"User", parties[n].payer_user>>

LEMMA AccountsOfReceipt ==
  ASSUME ListsInv, UNCHANGED <<provider, reward, settlement, bond_record>>,
         NEW r, NEW s \in DOMAIN settlement, NEW p \in DOMAIN provider, SettlementAccounts(r, s, p)
  PROVE  \E n \in Nonces : OfReceipt(n, r, s, p)
<1>1. s = SettlementOf(r) /\ p = ProviderOf(settlement[s].provider_wallet)
  BY DEF SettlementAccounts
<1>2. PICK m \in Signed : r = ReceiptOf(m.nonce) /\ settlement[s].attestation_receipt = r
  BY <1>1, SettlementOfReceipt
<1> DEFINE n == m.nonce
<1>3. n \in Nonces
  BY ListsAssumption
<1>4. /\ parties[n] \in Signed /\ parties[n] # None /\ parties[n].nonce = n
      /\ settlement[s].payer_user = parties[n].payer_user
      /\ settlement[s].provider_wallet = parties[n].provider_wallet
  BY <1>1, <1>2, <1>3, PartiesNamedHolds DEF PartiesNamed
<1>5. parties[n].payer_user \in Wallets /\ parties[n].provider_wallet \in Wallets
  BY <1>4 DEF ListsInv, SettlementsPlaced, SettlementPlaced
<1> HIDE DEF n
<1>6. Total(s)' = <<"settlement", n>> /\ Total(p)' = <<"account", parties[n].provider_wallet>>
  <2>1. Total(s) = <<"settlement", n>> /\ Total(p) = <<"account", parties[n].provider_wallet>>
    BY <1>1, <1>2, <1>4, TotalsNamedHolds DEF TotalsNamed, n
  <2> QED
    BY <2>1, TotalsUnchanged
<1>7. ASSUME NEW pr \in DOMAIN reward, NEW ur \in DOMAIN reward, RewardAccounts(s, pr, ur)
      PROVE  /\ Total(pr)' = <<"Provider", parties[n].provider_wallet>>
             /\ Total(ur)' = <<"User", parties[n].payer_user>>
  <2>1. /\ Total(pr) = <<"Provider", parties[n].provider_wallet>>
        /\ Total(ur) = <<"User", parties[n].payer_user>>
    BY <1>4, <1>7, TotalsNamedHolds DEF TotalsNamed, RewardAccounts
  <2> QED
    BY <2>1, TotalsUnchanged
<1> QED
  BY <1>1, <1>2, <1>3, <1>4, <1>5, <1>6, <1>7 DEF n, OfReceipt

\* finalize_receipt pays the provider of the receipt.
LEMMA PayStep ==
  ASSUME ListsInv, FinalizeReceipt
  PROVE  \E n \in Nonces : Parties!Pay(n)
<1>1. PICK r \in DOMAIN receipt, s \in DOMAIN settlement, p \in DOMAIN provider,
           pr \in DOMAIN reward, ur \in DOMAIN reward, payout \in TokenAccounts :
        /\ SettlementAccounts(r, s, p) /\ RewardAccounts(s, pr, ur)
        /\ OwnedToken(payout, settlement[s].provider_wallet, config.usdc_mint)
        /\ Did({Authority}, {<<Vault("escrow"), payout>>}, {s, p, pr, ur})
        /\ UNCHANGED <<provider, reward, settlement, bond_record>>
  BY DEF FinalizeReceipt, account_vars
<1>n. PICK n \in Nonces : OfReceipt(n, r, s, p)
  BY <1>1, AccountsOfReceipt
<1>2. /\ parties[n] # None /\ parties[n].nonce = n
      /\ settlement[s].provider_wallet = parties[n].provider_wallet
      /\ parties[n].provider_wallet \in Wallets
      /\ Total(s)' = <<"settlement", n>>
      /\ Total(p)' = <<"account", parties[n].provider_wallet>>
      /\ Total(pr)' = <<"Provider", parties[n].provider_wallet>>
      /\ Total(ur)' = <<"User", parties[n].payer_user>>
  BY <1>1, <1>n DEF OfReceipt
<1>3. Holder(payout) = parties[n].provider_wallet /\ Holder(Vault("escrow")) = "escrow"
  BY <1>1, <1>2, Holders DEF UsdcPots
<1>4. Moves({<<Vault("escrow"), payout>>}) = {<<"escrow", parties[n].provider_wallet>>}
  BY <1>3 DEF Moves
<1>5. Booked({s, p, pr, ur})' = Parties!Totals(parties[n])
  BY <1>2, BookedOf DEF Parties!Totals
<1>6. step' = [signers |-> {Authority}, moves |-> {<<"escrow", parties[n].provider_wallet>>},
               booked |-> Parties!Totals(parties[n])]
  BY <1>1, <1>4, <1>5, StepSeen
<1> QED
  BY <1>1, <1>2, <1>6, PartiesUnchanged DEF Parties!Pay, Parties!Step

\* open_challenge moves the challenger's bond, against the receipt's provider.
LEMMA DisputeStep ==
  ASSUME ListsInv, ListsInv', NEW m \in Signed, NEW w \in Wallets, OpenedAgainst(m, w)
  PROVE  Parties!Dispute(m.nonce, w)
<1> DEFINE n == m.nonce
           r == ReceiptOf(n)
           s == SettlementOf(r)
           b == BondRecordOf(ChallengeOf(r))
           p == ProviderOf(m.provider_wallet)
<1>1. /\ s \in DOMAIN settlement /\ b \notin DOMAIN bond_record
      /\ settlement[s].provider_wallet = m.provider_wallet
      /\ bond_record' = Put(bond_record, b,
           [attestation_challenge |-> ChallengeOf(r), attestation_receipt |-> r,
            challenger |-> w])
      /\ UNCHANGED <<provider, reward, settlement>>
  BY DEF OpenedAgainst
<1>2. n \in Nonces
  BY ListsAssumption
<1>3. parties[n] # None /\ parties[n].provider_wallet = m.provider_wallet
  BY <1>1, <1>2, PartiesNamedHolds DEF PartiesNamed
<1>4. UNCHANGED parties
  BY <1>1 DEF parties
<1>5. challenger[n] = None /\ challenger' = [challenger EXCEPT ![n] = w]
  <2>1. \A k : k # n => BondRecordOf(ChallengeOf(ReceiptOf(k))) # b
    BY AddressesDiffer
  <2> HIDE DEF b
  <2>2. /\ DOMAIN bond_record' = DOMAIN bond_record \cup {b}
        /\ bond_record'[b].challenger = w
        /\ \A x \in DOMAIN bond_record : bond_record'[x] = bond_record[x]
    BY <1>1 DEF Put
  <2>3. /\ challenger[n] = None /\ challenger'[n] = w
        /\ \A k \in Nonces \ {n} : challenger'[k] = challenger[k]
    BY <1>1, <1>2, <2>1, <2>2 DEF challenger, b
  <2>4. /\ challenger = [k \in Nonces |-> challenger[k]]
        /\ challenger' = [k \in Nonces |-> challenger'[k]]
    BY DEF challenger
  <2> QED
    BY <1>2, <2>3, <2>4
<1>6. PICK source \in TokenAccounts :
        /\ OwnedToken(source, w, config.claw_mint)
        /\ Did({w}, {<<source, Vault("bonds")>>}, {b, p})
  BY DEF OpenedAgainst
<1>7. Holder(source) = w /\ Holder(Vault("bonds")) = "bonds"
  BY <1>6, Holders DEF ClawPots
<1>8. Total(b)' = <<"bond", n>> /\ Total(p)' = <<"account", m.provider_wallet>>
  <2>1. b \in DOMAIN bond_record'
    BY <1>1 DEF Put
  <2>2. p \in DOMAIN provider'
    BY <1>1 DEF ListsInv, SettlementsPlaced, SettlementPlaced
  <2> QED
    BY <2>1, <2>2, NamedNext DEF TotalsNamed
<1> HIDE DEF b, p
<1>9. Moves({<<source, Vault("bonds")>>}) = {<<w, "bonds">>}
  BY <1>7 DEF Moves
<1>10. Booked({b, p})' = {<<"bond", n>>, <<"account", m.provider_wallet>>}
  BY <1>8, BookedOf
<1>11. step' = [signers |-> {w}, moves |-> {<<w, "bonds">>},
                booked |-> {<<"bond", n>>, <<"account", parties[n].provider_wallet>>}]
  BY <1>3, <1>6, <1>9, <1>10, StepSeen
<1> QED
  BY <1>3, <1>4, <1>5, <1>11 DEF Parties!Dispute, Parties!Step
\* The accounts of a resolved or timed-out challenge belong to one receipt, and
\* the bond is its challenger's.
LEMMA DisputedAccounts ==
  ASSUME ListsInv, UNCHANGED <<provider, reward, settlement, bond_record>>,
         NEW r, NEW c \in DOMAIN challenge, NEW s \in DOMAIN settlement,
         NEW b \in DOMAIN bond_record, NEW p \in DOMAIN provider, NEW pr, NEW ur,
         Dispute(r, c, s, b, p, pr, ur)
  PROVE  \E n \in Nonces :
           /\ OfReceipt(n, r, s, p)
           /\ challenger[n] = bond_record[b].challenger
           /\ challenger[n] \in Wallets
           /\ Total(b)' = <<"bond", n>>
<1>1. PICK n \in Nonces : OfReceipt(n, r, s, p)
  BY AccountsOfReceipt DEF Dispute
<1>2. b = BondRecordOf(ChallengeOf(ReceiptOf(n)))
  BY <1>1 DEF Dispute, DisputeAccounts, ListsInv, ChallengesPlaced, OfReceipt
<1>3. challenger[n] = bond_record[b].challenger
  BY <1>2 DEF challenger
<1>4. bond_record[b].challenger \in Wallets
  BY DEF ListsInv, BondsPlaced
<1>5. Total(b) = <<"bond", n>>
  BY <1>2, TotalsNamedHolds DEF TotalsNamed
<1>6. Total(b)' = <<"bond", n>>
  BY <1>5, TotalsUnchanged
<1> QED
  BY <1>1, <1>3, <1>4, <1>6

\* A dismissed challenge burns the bond of that receipt's challenger.
LEMMA DismissStep ==
  ASSUME ListsInv, NEW judge, DismissChallenge(judge)
  PROVE  \E n \in Nonces : Parties!Dismiss(n, judge)
<1>1. PICK r \in DOMAIN receipt, c \in DOMAIN challenge, s \in DOMAIN settlement,
           b \in DOMAIN bond_record, p \in DOMAIN provider, pr \in DOMAIN reward,
           ur \in DOMAIN reward :
        /\ Dispute(r, c, s, b, p, pr, ur)
        /\ Did({judge}, {<<Vault("bonds"), ClawSupply>>}, {b, p})
        /\ UNCHANGED <<provider, reward, settlement, bond_record>>
  BY DEF DismissChallenge, account_vars
<1>2. PICK n \in Nonces :
        /\ OfReceipt(n, r, s, p)
        /\ challenger[n] = bond_record[b].challenger
        /\ challenger[n] \in Wallets
        /\ Total(b)' = <<"bond", n>>
  BY <1>1, DisputedAccounts
<1>3. challenger[n] # None
  BY <1>2, ListsAssumption
<1>4. Total(p)' = <<"account", parties[n].provider_wallet>>
  BY <1>2 DEF OfReceipt
<1>5. Holder(Vault("bonds")) = "bonds" /\ Holder(ClawSupply) = "supply"
  BY Holders DEF ClawPots
<1>6. Moves({<<Vault("bonds"), ClawSupply>>}) = {<<"bonds", "supply">>}
  BY <1>5 DEF Moves
<1>7. Booked({b, p})' = {<<"bond", n>>, <<"account", parties[n].provider_wallet>>}
  BY <1>2, <1>4, BookedOf
<1>8. step' = [signers |-> {judge}, moves |-> {<<"bonds", "supply">>},
               booked |-> {<<"bond", n>>, <<"account", parties[n].provider_wallet>>}]
  BY <1>1, <1>6, <1>7, StepSeen
<1> QED
  BY <1>1, <1>3, <1>8, PartiesUnchanged DEF Parties!Dismiss, Parties!Step

\* An upheld challenge pays that receipt's challenger and refunds its payer.
LEMMA UpholdStep ==
  ASSUME ListsInv, UpholdChallenge
  PROVE  \E n \in Nonces : Parties!Uphold(n)
<1>1. PICK r \in DOMAIN receipt, c \in DOMAIN challenge, s \in DOMAIN settlement,
           b \in DOMAIN bond_record, p \in DOMAIN provider, pr \in DOMAIN reward,
           ur \in DOMAIN reward :
        /\ Dispute(r, c, s, b, p, pr, ur)
        /\ \E payer_token, challenger_token \in TokenAccounts :
             /\ OwnedToken(payer_token, settlement[s].payer_user, config.usdc_mint)
             /\ OwnedToken(challenger_token, bond_record[b].challenger, config.claw_mint)
             /\ Did({ChallengeResolver},
                    {<<Vault("bonds"), challenger_token>>, <<Vault("rewards"), challenger_token>>,
                     <<Vault("rewards"), ClawSupply>>, <<Vault("escrow"), payer_token>>},
                    {s, b, p, pr, ur})
        /\ UNCHANGED <<configs, account_vars>>
  BY DEF UpholdChallenge
<1>u. UNCHANGED <<provider, reward, settlement, bond_record>>
  BY <1>1 DEF account_vars
<1>t. PICK payer_token \in TokenAccounts, challenger_token \in TokenAccounts :
        /\ OwnedToken(payer_token, settlement[s].payer_user, config.usdc_mint)
        /\ OwnedToken(challenger_token, bond_record[b].challenger, config.claw_mint)
        /\ Did({ChallengeResolver},
               {<<Vault("bonds"), challenger_token>>, <<Vault("rewards"), challenger_token>>,
                <<Vault("rewards"), ClawSupply>>, <<Vault("escrow"), payer_token>>},
               {s, b, p, pr, ur})
  BY <1>1
<1>2. PICK n \in Nonces :
        /\ OfReceipt(n, r, s, p)
        /\ challenger[n] = bond_record[b].challenger
        /\ challenger[n] \in Wallets
        /\ Total(b)' = <<"bond", n>>
  BY <1>1, <1>u, DisputedAccounts
<1> DEFINE w == challenger[n]
           u == parties[n].payer_user
<1>3. w # None
  BY <1>2, ListsAssumption
<1>4. /\ parties[n].nonce = n /\ u \in Wallets /\ settlement[s].payer_user = u
      /\ Total(s)' = <<"settlement", n>>
      /\ Total(p)' = <<"account", parties[n].provider_wallet>>
      /\ Total(pr)' = <<"Provider", parties[n].provider_wallet>>
      /\ Total(ur)' = <<"User", u>>
  BY <1>1, <1>u, <1>2 DEF OfReceipt, Dispute
<1>5. /\ Holder(payer_token) = u /\ Holder(challenger_token) = w
      /\ Holder(ClawSupply) = "supply" /\ Holder(Vault("bonds")) = "bonds"
      /\ Holder(Vault("rewards")) = "rewards" /\ Holder(Vault("escrow")) = "escrow"
  BY <1>2, <1>4, <1>t, Holders DEF ClawPots, UsdcPots
<1> HIDE DEF w, u
<1>6. Moves({<<Vault("bonds"), challenger_token>>, <<Vault("rewards"), challenger_token>>,
             <<Vault("rewards"), ClawSupply>>, <<Vault("escrow"), payer_token>>})
        = {<<"bonds", w>>, <<"rewards", w>>, <<"rewards", "supply">>, <<"escrow", u>>}
  BY <1>5 DEF Moves
<1>7. Booked({s, b, p, pr, ur})' = Parties!Totals(parties[n]) \cup {<<"bond", n>>}
  BY <1>2, <1>4, BookedOf DEF Parties!Totals, u
<1>8. step' = [signers |-> {ChallengeResolver},
               moves |-> {<<"bonds", w>>, <<"rewards", w>>, <<"rewards", "supply">>,
                          <<"escrow", u>>},
               booked |-> Parties!Totals(parties[n]) \cup {<<"bond", n>>}]
  BY <1>t, <1>6, <1>7, StepSeen
<1> QED
  BY <1>u, <1>2, <1>3, <1>8, PartiesUnchanged DEF Parties!Uphold, Parties!Step, w, u

\* A release is booked in a settlement and in the reward account of one of its
\* parties, of the kind the admin asked for.
LEMMA ReleaseStep ==
  ASSUME ListsInv, NEW target \in {"User", "Provider"}, MaterializeRewardRelease(target)
  PROVE  \E n \in Nonces : Parties!Release(n)
<1>1. PICK s \in DOMAIN settlement, account \in DOMAIN reward :
        /\ reward[account].kind = target
        /\ reward[account].owner = (IF target = "User" THEN settlement[s].payer_user
                                    ELSE settlement[s].provider_wallet)
        /\ Did({Admin}, {}, {s, account})
        /\ UNCHANGED <<provider, reward, settlement, bond_record>>
  BY DEF MaterializeRewardRelease, account_vars
<1>2. PICK m \in Signed : settlement[s].attestation_receipt = ReceiptOf(m.nonce)
                         /\ s = SettlementOf(ReceiptOf(m.nonce))
  BY DEF ListsInv, SettlementsPlaced, SettlementPlaced
<1> DEFINE n == m.nonce
<1>3. n \in Nonces
  BY ListsAssumption
<1>4. /\ parties[n] # None
      /\ settlement[s].payer_user = parties[n].payer_user
      /\ settlement[s].provider_wallet = parties[n].provider_wallet
  BY <1>2, <1>3, PartiesNamedHolds DEF PartiesNamed
<1> DEFINE w == IF target = "User" THEN parties[n].payer_user ELSE parties[n].provider_wallet
<1>5. Total(s)' = <<"settlement", n>> /\ Total(account)' = <<target, w>>
  <2>1. account = RewardOf(target, w)
    BY <1>1, <1>4 DEF ListsInv, RewardsPlaced
  <2>2. Total(s) = <<"settlement", n>> /\ Total(account) = <<target, w>>
    BY <1>2, <2>1, TotalsNamedHolds DEF TotalsNamed
  <2> QED
    BY <1>1, <2>2, TotalsUnchanged
<1> HIDE DEF n, w
<1>6. Booked({s, account})' = {<<"settlement", n>>, <<target, w>>}
  BY <1>5, BookedOf
<1>7. Moves({}) = {}
  BY MovesOf
<1>8. step' = [signers |-> {Admin}, moves |-> {}, booked |-> {<<"settlement", n>>, <<target, w>>}]
  BY <1>1, <1>6, <1>7, StepSeen
<1>9. \/ target = "User" /\ w = parties[n].payer_user
      \/ target = "Provider" /\ w = parties[n].provider_wallet
  BY DEF w
<1> QED
  BY <1>1, <1>3, <1>4, <1>8, <1>9, PartiesUnchanged DEF Parties!Release, Parties!Step

\* Every instruction that runs is one step of ReceiptParties, or none.
LEMMA StepOfParties == ListsInv /\ ListsInv' /\ [ListsNext]_lvars => [Parties!PartiesNext]_Parties!pvars
<1> SUFFICES ASSUME ListsInv, ListsInv', [ListsNext]_lvars
             PROVE  [Parties!PartiesNext]_Parties!pvars
  OBVIOUS
<1>1. ASSUME Parties!Administer PROVE Parties!PartiesNext
  BY <1>1 DEF Parties!PartiesNext
<1>2. CASE \E pair \in MintPairs : InitializeMasterpool(pair[1], pair[2])
  BY <1>1, <1>2, AdministerStep
<1>3. CASE ReceiptStep
  <2>1. ASSUME NEW nonce \in Nonces, NEW payer \in TokenOwners, NEW delegate,
               SubmitReceipt(nonce, payer, delegate)
        PROVE  Parties!PartiesNext
    <3>1. PICK m \in Signed : SubmittedFor(m, delegate)
      BY <2>1, SubmitReceiptEffect
    <3>2. Parties!Take(parties'[m.nonce])
      BY <3>1, DelegateIsApproved, TakeStep
    <3>3. parties'[m.nonce] \in Signed
      <4>1. SettlementOf(ReceiptOf(m.nonce)) \in DOMAIN settlement' /\ m.nonce \in Nonces
        BY <3>1, ListsAssumption DEF SubmittedFor, Put
      <4> QED
        BY <4>1, NamedNext DEF PartiesNamed
    <3> QED
      BY <3>2, <3>3 DEF Parties!PartiesNext
  <2>2. ASSUME NEW w \in Wallets, OpenChallenge(w) PROVE Parties!PartiesNext
    <3>1. PICK m \in Signed : OpenedAgainst(m, w)
      BY <2>2, OpenChallengeEffect
    <3> QED
      BY <3>1, DisputeStep, ListsAssumption DEF Parties!PartiesNext
  <2>3. ASSUME FinalizeReceipt \/ UpholdChallenge PROVE Parties!PartiesNext
    BY <2>3, PayStep, UpholdStep DEF Parties!PartiesNext
  <2>4. ASSUME NEW judge \in {ChallengeResolver, Authority}, DismissChallenge(judge)
        PROVE  Parties!PartiesNext
    BY <2>4, DismissStep DEF Parties!PartiesNext
  <2>5. ASSUME CloseReceipt \/ CloseChallenge PROVE Parties!PartiesNext
    BY <1>1, <2>5, AdministerStep
  <2> QED
    BY <1>3, <2>1, <2>2, <2>3, <2>4, <2>5
       DEF ReceiptStep, ResolveChallenge, TimeoutRejectChallenge
<1>4. CASE config # None /\ WalletStep
  <2>1. ASSUME NEW w \in Wallets,
               \/ RegisterProvider(w) \/ ExitProvider(w) \/ ClaimReleasedClaw(w) \/ ClaimFaucet(w)
        PROVE  Parties!PartiesNext
    BY <1>4, <2>1, OwnStep DEF Parties!PartiesNext
  <2>5. ASSUME ClaimFaucet(PoolAuthority) PROVE Parties!PartiesNext
    BY <1>4, <2>5, PoolClaimStep DEF Parties!PartiesNext
  <2>2. ASSUME NEW target \in {"User", "Provider"}, MaterializeRewardRelease(target)
        PROVE  Parties!PartiesNext
    BY <2>2, ReleaseStep DEF Parties!PartiesNext
  <2>3. ASSUME MintGenesisSupply \/ FundFaucetClaw PROVE Parties!PartiesNext
    BY <2>3, StockStep DEF Parties!PartiesNext
  <2>4. ASSUME \/ \E m \in Signed : \/ UpsertProviderSigner(m.signer, m.provider_wallet)
                                    \/ RevokeProviderSigner(m.signer, m.provider_wallet)
               \/ InitializeFaucet
        PROVE  Parties!PartiesNext
    BY <1>1, <2>4, AdministerStep
  <2> QED
    BY <1>4, <2>1, <2>2, <2>3, <2>4, <2>5 DEF WalletStep, TokenOwners
<1>5. CASE UNCHANGED lvars
  <2>1. UNCHANGED <<parties, challenger>>
    BY <1>5, PartiesUnchanged DEF lvars, account_vars
  <2>2. UNCHANGED step
    BY <1>5 DEF lvars, account_vars, step, Total, Party, Holder
  <2> QED
    BY <2>1, <2>2 DEF Parties!pvars
<1> QED
  BY <1>2, <1>3, <1>4, <1>5 DEF ListsNext

\* No account list lets an instruction move money between, or book totals of,
\* other parties than those of one receipt: the accounts implement
\* ReceiptParties, for any number of wallets, nonces and mints.
THEOREM ListsKeepToParties == ListsSpec => KeepsToParties
<1>1. ListsInit => Parties!PartiesInit
  <2> SUFFICES ASSUME ListsInit PROVE Parties!PartiesInit
    OBVIOUS
  <2>1. parties = [n \in Nonces |-> None] /\ challenger = [n \in Nonces |-> None]
    BY DEF ListsInit, NoAccounts, parties, challenger
  <2>2. step = [signers |-> {}, moves |-> {}, booked |-> {}]
    BY DEF ListsInit, step
  <2> QED
    BY <2>1, <2>2 DEF Parties!PartiesInit
<1> QED
  BY <1>1, ListsInvHolds, StepOfParties, PTL DEF ListsSpec, KeepsToParties, Parties!PartiesSpec
=============================================================================
