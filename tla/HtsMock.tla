------------------------------ MODULE HtsMock ------------------------------
(***************************************************************************)
(* The mock of the Hedera Token Service that the foundry tests install at  *)
(* 0x167: HtsSystemContractMock and one token contract created with it, a  *)
(* HederaFungibleToken or a HederaNonFungibleToken.                        *)
(*                                                                         *)
(* A token has two faces.  A caller reaches it through the mock, or calls  *)
(* the ERC-20 / ERC-721 functions of the token contract, which ask the     *)
(* mock for a precheck (preTransfer, preApprove, ...) first.  An NFT is    *)
(* also in two books: the mock keeps ownerId and spenderId of each serial, *)
(* the token contract the owners and approvals of OpenZeppelin's ERC721.   *)
(*                                                                         *)
(* A call is one step.  A call that is refused or reverts leaves no trace  *)
(* and is no step; what a refused call answers is ReplyTo.                 *)
(***************************************************************************)
EXTENDS Integers, FiniteSets, Sequences, FiniteSetsExt

CONSTANTS
    Accounts,      \* accounts that exist, i.e. have HBAR
    Nobody,        \* ADDRESS_ZERO
    Token,         \* address of the token contract
    Creations,     \* the tokens that may be created, with the initial supply
    Keyrings,      \* the lists of keys updateTokenKeys may be given
    Screened,      \* bound: accounts KYC and freeze calls are about
    Grants,        \* bound: <<a, b>> when a may approve b
    Heirs,         \* bound: accounts updateTokenInfo may name as treasury
    Amounts,       \* amounts of the calls on a fungible token
    Approvals,     \* amounts that are approved
    Unlimited,     \* the largest uint256, which no allowance is taken off
    MaxSupply,     \* bound on the supply of a fungible token
    MaxSerial      \* bound on the NFTs that are ever minted

Roles == {"ADMIN", "KYC", "FREEZE", "WIPE", "SUPPLY", "PAUSE"}

Serials == 1..MaxSerial

KeyLists == UNION {[rs -> Accounts] : rs \in SUBSET Roles}

ASSUME AddressesAssumption ==
    /\ IsFiniteSet(Accounts)
    /\ Nobody \notin Accounts /\ Token \notin Accounts /\ Token # Nobody
    /\ Screened \subseteq Accounts /\ Heirs \subseteq Accounts
    /\ Grants \subseteq Accounts \X Accounts
ASSUME KeysAssumption == Keyrings \subseteq KeyLists
ASSUME BoundsAssumption ==
    MaxSupply \in Nat /\ MaxSerial \in Nat /\ Amounts \subseteq Nat \ {0}
ASSUME ApprovalsAssumption ==
    Approvals \subseteq Nat \cup {Unlimited} /\ Unlimited \notin Nat

Kinds == {"fungible", "nft"}

TokenInfo ==
    [kind : Kinds \cup {"none"}, treasury : Accounts \cup {Nobody},
     keys : [Roles -> Accounts \cup {Nobody}],
     freezeDefault : BOOLEAN, kycDefault : BOOLEAN,
     deleted : BOOLEAN, paused : BOOLEAN]

ASSUME CreationsAssumption ==
    Creations \subseteq
        [kind : Kinds, treasury : Accounts,
         keys : [Roles -> Accounts \cup {Nobody}],
         freezeDefault : BOOLEAN, kycDefault : BOOLEAN, initial : 0..MaxSupply]

VARIABLES
    token,        \* what the mock keeps of the token
    association,  \* accounts associated with it
    kyc,          \* _kyc: what was explicitly set for an account
    unfrozen,     \* _unfrozen: likewise
    balance, allowance, supply,                  \* the ERC-20 contract
    owner, approved, operators, minted, burned,  \* the ERC-721 contract
    ownerId, spenderId,  \* the mock's book of NFTs
    sender,       \* who made the last call
    treasuries    \* history: every treasury the token has had

erc20 == <<balance, allowance, supply>>
erc721 == <<owner, approved, operators, minted, burned>>
book == <<ownerId, spenderId>>
settings == <<token, treasuries>>
marks == <<kyc, unfrozen>>

vars == <<settings, association, marks, erc20, erc721, book, sender>>

IsFungible == token.kind = "fungible"
IsNonFungible == token.kind = "nft"

Mark == {"unset", "yes", "no"}

SettingsOK ==
    /\ token \in TokenInfo /\ treasuries \in SUBSET Accounts
    /\ token.kind # "none" => token.treasury \in treasuries

MarksOK == kyc \in [Accounts -> Mark] /\ unfrozen \in [Accounts -> Mark]

Erc20OK ==
    /\ balance \in [Accounts -> Nat] /\ supply \in Int
    /\ allowance \in [Accounts -> [Accounts -> Nat \cup {Unlimited}]]

Erc721OK ==
    /\ owner \in [Serials -> Accounts \cup {Nobody}]
    /\ approved \in [Serials -> Accounts \cup {Nobody}]
    /\ operators \in SUBSET (Accounts \X Accounts)
    /\ minted \in 0..MaxSerial /\ burned \in Int

BookOK ==
    /\ ownerId \in [Serials -> Accounts \cup {Nobody}]
    /\ spenderId \in [Serials -> Accounts \cup {Nobody}]

TypeOK ==
    /\ SettingsOK /\ MarksOK /\ Erc20OK /\ Erc721OK /\ BookOK
    /\ association \in SUBSET Accounts /\ sender \in Accounts \cup {Nobody}

Init ==
    /\ token = [kind |-> "none", treasury |-> Nobody,
                keys |-> [r \in Roles |-> Nobody],
                freezeDefault |-> FALSE, kycDefault |-> FALSE,
                deleted |-> FALSE, paused |-> FALSE]
    /\ association = {} /\ treasuries = {} /\ sender = Nobody
    /\ kyc = [a \in Accounts |-> "unset"]
    /\ unfrozen = [a \in Accounts |-> "unset"]
    /\ balance = [a \in Accounts |-> 0] /\ supply = 0
    /\ allowance = [a \in Accounts |-> [b \in Accounts |-> 0]]
    /\ owner = [s \in Serials |-> Nobody]
    /\ approved = [s \in Serials |-> Nobody]
    /\ operators = {} /\ minted = 0 /\ burned = 0
    /\ ownerId = [s \in Serials |-> Nobody]
    /\ spenderId = [s \in Serials |-> Nobody]

-----------------------------------------------------------------------------
(***************************************************************************)
(* Prechecks.  A precheck is a list of validations; the first that fails   *)
(* decides the response code.  m is msg.sender as the mock sees it: the    *)
(* account, or Token when the call comes through the token contract.       *)
(***************************************************************************)
Check(pass, code) == [pass |-> pass, code |-> code]

Passes(checks) == \A i \in DOMAIN checks : checks[i].pass

ReplyTo(checks) ==
    IF Passes(checks) THEN "SUCCESS"
    ELSE LET first == CHOOSE i \in DOMAIN checks :
                         /\ ~checks[i].pass
                         /\ \A j \in 1..(i - 1) : checks[j].pass
         IN checks[first].code

IsToken == token.kind # "none"

ValidToken ==
    Check(IsToken /\ ~token.deleted,
          IF token.deleted THEN "TOKEN_WAS_DELETED" ELSE "INVALID_TOKEN_ID")

Signed(m, role) ==
    Check(m = token.keys[role],
          IF token.keys[role] = Nobody THEN "TOKEN_HAS_NO_KEY" ELSE "INVALID_KEY")

IsTreasury(m) == Check(m = token.treasury, "AUTHORIZATION_FAILED")

Associated(a) == Check(a \in association, "TOKEN_NOT_ASSOCIATED_TO_ACCOUNT")

\* isKyc and isFrozen answer the holder of the key only.  To anyone else they
\* return an error, which the prechecks take for "KYC (freeze) not enabled".
Told(m, role) == IsToken /\ ~token.deleted /\ m = token.keys[role]

MarkOf(mark, a) == IF a \in Accounts THEN mark[a] ELSE "unset"

KycGranted(a) ==
    MarkOf(kyc, a) = "yes" \/ (MarkOf(kyc, a) = "unset" /\ ~token.kycDefault)

Frozen(a) ==
    \/ MarkOf(unfrozen, a) = "no"
    \/ MarkOf(unfrozen, a) = "unset" /\ token.freezeDefault

PassesKyc(m, a) ==
    Check(Told(m, "KYC") => KycGranted(a), "ACCOUNT_KYC_NOT_GRANTED_FOR_TOKEN")

\* _validateAccountUnfrozen: the code of a failure is that of isFrozen, SUCCESS.
PassesUnfrozen(m, a) ==
    Check(Told(m, "FREEZE") => ~Frozen(a), "SUCCESS")

\* x is an amount, or the serial of an NFT.
OwnsNft(a, x) ==
    Check(IsNonFungible => ownerId[x] = a, "SENDER_DOES_NOT_OWN_NFT_SERIAL_NO")

Sufficient(a, x) ==
    IF IsFungible THEN Check(balance[a] >= x, "INSUFFICIENT_TOKEN_BALANCE")
    ELSE OwnsNft(a, x)

\* OpenZeppelin ERC721 _isAuthorized.
IsAuthorized(o, s, x) ==
    s # Nobody /\ (s = o \/ <<o, s>> \in operators \/ approved[x] = s)

Covers(from, s, x) ==
    allowance[from][s] = Unlimited \/ allowance[from][s] >= x

Allowed(m, s, from, x) ==
    IF IsFungible
    THEN Check(m = from \/ s = Nobody \/ Covers(from, s, x),
               "AMOUNT_EXCEEDS_ALLOWANCE")
    ELSE Check(m = from \/ s = Nobody \/ IsAuthorized(from, s, x),
               "INSUFFICIENT_ACCOUNT_BALANCE")

TransferChecks(m, s, from, to, x) ==
    <<ValidToken, Associated(from), Associated(to),
      PassesKyc(m, s), PassesKyc(m, from), PassesKyc(m, to),
      PassesUnfrozen(m, s), PassesUnfrozen(m, from), PassesUnfrozen(m, to),
      Sufficient(from, x), Allowed(m, s, from, x)>>

\* Mutant: approvals do not look at the deletion.
ApproveUnvalidated(m, o, s, x) ==
    <<PassesKyc(m, o), PassesKyc(m, s),
      PassesUnfrozen(m, o), PassesUnfrozen(m, s), OwnsNft(o, x)>>

ApproveChecks(m, o, s, x) ==
    <<PassesKyc(m, o), PassesKyc(m, s),
      PassesUnfrozen(m, o), PassesUnfrozen(m, s), ValidToken, OwnsNft(o, x)>>

OperatorChecks(m, o, s) ==
    <<ValidToken, Associated(o), Associated(s), PassesKyc(m, o), PassesKyc(m, s),
      PassesUnfrozen(m, o), PassesUnfrozen(m, s),
      Check(IsNonFungible, "INVALID_TOKEN_ID")>>

BurnChecks(m, n, s) ==
    <<ValidToken, IsTreasury(m),
      Sufficient(token.treasury, IF IsFungible THEN n ELSE s)>>

WipeChecks(m, a, s) == <<ValidToken, Signed(m, "WIPE"), OwnsNft(a, s)>>

Holds(a) == balance[a] > 0 \/ \E s \in Serials : owner[s] = a

\* Mutant: an account may leave with a balance.
DissociateHolding(a) == <<ValidToken, Associated(a)>>

DissociateChecks(a) ==
    <<ValidToken, Associated(a),
      Check(~Holds(a), "TRANSACTION_REQUIRES_ZERO_TOKEN_BALANCES")>>

-----------------------------------------------------------------------------
(***************************************************************************)
(* Creation and settings.                                                  *)
(***************************************************************************)
\* createFungibleToken, createNonFungibleToken and the token constructors.
CreateToken(c) ==
    /\ token.kind = "none"
    /\ \E r \in Creations :
          /\ c = r.treasury /\ r.keys["ADMIN"] \in {c, Nobody}
          /\ token' = [kind |-> r.kind, treasury |-> r.treasury, keys |-> r.keys,
                       freezeDefault |-> r.freezeDefault,
                       kycDefault |-> r.kycDefault,
                       deleted |-> FALSE, paused |-> FALSE]
          /\ association' = {r.treasury} /\ treasuries' = {r.treasury}
          /\ supply' = IF r.kind = "fungible" THEN r.initial ELSE 0
          /\ balance' = [balance EXCEPT ![r.treasury] = supply']
    /\ UNCHANGED <<marks, allowance, erc721, book>>

DeleteToken(c) ==
    /\ Passes(<<ValidToken, Signed(c, "ADMIN")>>)
    /\ token' = [token EXCEPT !.deleted = TRUE]
    /\ UNCHANGED <<treasuries, association, marks, erc20, erc721, book>>

\* pauseToken and unpauseToken.
SetPaused(c, flag) ==
    /\ Passes(<<ValidToken, Signed(c, "PAUSE")>>)
    /\ token' = [token EXCEPT !.paused = flag]
    /\ UNCHANGED <<treasuries, association, marks, erc20, erc721, book>>

\* Neither the old nor the new treasury is checked or associated.
UpdateTokenInfo(c, treasury, freezeDefault) ==
    /\ Passes(<<ValidToken, Signed(c, "ADMIN")>>)
    /\ token' = [token EXCEPT !.treasury = treasury,
                              !.freezeDefault = freezeDefault]
    /\ treasuries' = treasuries \cup {treasury}
    /\ UNCHANGED <<association, marks, erc20, erc721, book>>

\* Mutant: the keys that are not listed are lost.
ReplaceTokenKeys(c, keys) ==
    /\ Passes(<<ValidToken, Signed(c, "ADMIN")>>)
    /\ token' = [token EXCEPT !.keys = keys]
    /\ UNCHANGED <<treasuries, association, marks, erc20, erc721, book>>

UpdateTokenKeys(c, keys) ==
    /\ Passes(<<ValidToken, Signed(c, "ADMIN")>>)
    /\ token' = [token EXCEPT !.keys = [r \in Roles |->
                    IF r \in DOMAIN keys THEN keys[r] ELSE token.keys[r]]]
    /\ UNCHANGED <<treasuries, association, marks, erc20, erc721, book>>

\* grantTokenKyc and revokeTokenKyc.
SetKyc(c, a, mark) ==
    /\ Passes(<<ValidToken, Signed(c, "KYC")>>)
    /\ kyc' = [kyc EXCEPT ![a] = mark]
    /\ UNCHANGED <<settings, association, unfrozen, erc20, erc721, book>>

\* freezeToken and unfreezeToken.
SetUnfrozen(c, a, mark) ==
    /\ Passes(<<ValidToken, Signed(c, "FREEZE")>>)
    /\ unfrozen' = [unfrozen EXCEPT ![a] = mark]
    /\ UNCHANGED <<settings, association, kyc, erc20, erc721, book>>

\* Anyone may associate or dissociate any account through the mock.
Associate(a) ==
    /\ Passes(<<ValidToken>>) /\ a \notin association
    /\ association' = association \cup {a}
    /\ UNCHANGED <<settings, marks, erc20, erc721, book>>

Dissociate(a) ==
    /\ Passes(DissociateChecks(a))
    /\ association' = association \ {a}
    /\ UNCHANGED <<settings, marks, erc20, erc721, book>>

-----------------------------------------------------------------------------
(***************************************************************************)
(* Supply.                                                                 *)
(***************************************************************************)
MintFungible(c, n) ==
    /\ IsFungible /\ supply + n <= MaxSupply
    /\ Passes(<<ValidToken, Signed(c, "SUPPLY")>>)
    /\ supply' = supply + n
    /\ balance' = [balance EXCEPT ![token.treasury] = @ + n]
    /\ UNCHANGED <<settings, association, marks, allowance, erc721, book>>

MintNft(c) ==
    /\ IsNonFungible /\ minted < MaxSerial
    /\ Passes(<<ValidToken, Signed(c, "SUPPLY")>>)
    /\ minted' = minted + 1
    /\ owner' = [owner EXCEPT ![minted'] = token.treasury]
    /\ ownerId' = [ownerId EXCEPT ![minted'] = token.treasury]
    /\ spenderId' = [spenderId EXCEPT ![minted'] = Nobody]
    /\ UNCHANGED <<settings, association, marks, erc20, approved, operators,
                   burned>>

BurnFungible(c, n) ==
    /\ IsFungible
    /\ Passes(BurnChecks(c, n, 1))
    /\ balance[token.treasury] >= n /\ supply' = supply - n
    /\ balance' = [balance EXCEPT ![token.treasury] = @ - n]
    /\ UNCHANGED <<settings, association, marks, allowance, erc721, book>>

\* Mutant: a list of serials counts as one.
BurnCountsOne(c, serials) ==
    LET all == {serials[i] : i \in DOMAIN serials} IN
    /\ IsNonFungible
    /\ Passes(BurnChecks(c, 0, serials[1]))
    /\ \A s \in all : owner[s] # Nobody
    /\ \A i, j \in DOMAIN serials : serials[i] = serials[j] => i = j
    /\ burned' = burned + 1
    /\ owner' = [s \in Serials |-> IF s \in all THEN Nobody ELSE owner[s]]
    /\ approved' = [s \in Serials |-> IF s \in all THEN Nobody ELSE approved[s]]
    /\ ownerId' = [ownerId EXCEPT ![serials[1]] = Nobody]
    /\ spenderId' = [spenderId EXCEPT ![serials[1]] = Nobody]
    /\ UNCHANGED <<settings, association, marks, erc20, operators, minted>>

\* The precheck and the mock's book look at the first serial only, the token
\* contract burns them all; ERC721 _burn reverts on a serial nobody owns, so
\* also on the second of two equal ones.
BurnNft(c, serials) ==
    LET all == {serials[i] : i \in DOMAIN serials} IN
    /\ IsNonFungible
    /\ Passes(BurnChecks(c, 0, serials[1]))
    /\ \A s \in all : owner[s] # Nobody
    /\ \A i, j \in DOMAIN serials : serials[i] = serials[j] => i = j
    /\ burned' = burned + Len(serials)
    /\ owner' = [s \in Serials |-> IF s \in all THEN Nobody ELSE owner[s]]
    /\ approved' = [s \in Serials |-> IF s \in all THEN Nobody ELSE approved[s]]
    /\ ownerId' = [ownerId EXCEPT ![serials[1]] = Nobody]
    /\ spenderId' = [spenderId EXCEPT ![serials[1]] = Nobody]
    /\ UNCHANGED <<settings, association, marks, erc20, operators, minted>>

\* wipeTokenAccountNFT strikes the serials from the mock's book; the token
\* contract is not told.  (wipeTokenAccount reads serialNumbers[0] of an empty
\* array as soon as its other checks pass, so it changes nothing, ever.)
WipeNft(c, a, serials) ==
    LET all == {serials[i] : i \in DOMAIN serials} IN
    /\ IsNonFungible
    /\ Passes(WipeChecks(c, a, serials[1]))
    /\ ownerId' = [s \in Serials |-> IF s \in all THEN Nobody ELSE ownerId[s]]
    /\ spenderId' = [s \in Serials |-> IF s \in all THEN Nobody ELSE spenderId[s]]
    /\ UNCHANGED <<settings, association, marks, erc20, erc721>>

-----------------------------------------------------------------------------
(***************************************************************************)
(* Transfers and approvals of a fungible token.                            *)
(***************************************************************************)
Moved(from, to, n) ==
    [[balance EXCEPT ![from] = @ - n] EXCEPT ![to] = @ + n]

\* OpenZeppelin ERC20 _spendAllowance: nothing is taken off the largest uint256.
SpendAllowance(from, s, n) ==
    \/ allowance[from][s] = Unlimited /\ UNCHANGED allowance
    \/ /\ allowance[from][s] # Unlimited /\ Covers(from, s, n)
       /\ allowance' = [allowance EXCEPT ![from][s] = @ - n]

\* Mutant: every request passes for one of the owner's.
MockTransferUnspent(c, from, to, n) ==
    /\ IsFungible
    /\ Passes(TransferChecks(c, c, from, to, n))
    /\ balance[from] >= n /\ balance' = Moved(from, to, n)
    /\ UNCHANGED <<settings, association, marks, allowance, supply, erc721, book>>

\* transferFrom, transferToken of the mock.
MockTransfer(c, from, to, n) ==
    /\ IsFungible
    /\ Passes(TransferChecks(c, c, from, to, n))
    /\ \/ c = from /\ UNCHANGED allowance
       \/ c # from /\ SpendAllowance(from, c, n)
    /\ balance[from] >= n /\ balance' = Moved(from, to, n)
    /\ UNCHANGED <<settings, association, marks, supply, erc721, book>>

\* transfer of the token contract: no spender.
Transfer(c, to, n) ==
    /\ IsFungible
    /\ Passes(TransferChecks(Token, Nobody, c, to, n))
    /\ balance[c] >= n /\ balance' = Moved(c, to, n)
    /\ UNCHANGED <<settings, association, marks, allowance, supply, erc721, book>>

\* transferFrom of the token contract.
TransferFrom(c, from, to, n) ==
    /\ IsFungible
    /\ Passes(TransferChecks(Token, c, from, to, n))
    /\ SpendAllowance(from, c, n)
    /\ balance[from] >= n /\ balance' = Moved(from, to, n)
    /\ UNCHANGED <<settings, association, marks, supply, erc721, book>>

\* approve of the mock (m = c) and of the token contract (m = Token).
Approve(c, m, s, n) ==
    /\ IsFungible
    /\ Passes(ApproveChecks(m, c, s, n))
    /\ allowance' = [allowance EXCEPT ![c][s] = n]
    /\ UNCHANGED <<settings, association, marks, balance, supply, erc721, book>>

-----------------------------------------------------------------------------
(***************************************************************************)
(* Transfers and approvals of NFTs.  The mock's book is written before the *)
(* token contract is called, or decides.                                   *)
(***************************************************************************)
\* Mutant: the spender outlives the transfer.
RecordedOwner(to, s) ==
    /\ ownerId' = [ownerId EXCEPT ![s] = to]
    /\ spenderId' = spenderId

Recorded(to, s) ==
    /\ ownerId' = [ownerId EXCEPT ![s] = to]
    /\ spenderId' = [spenderId EXCEPT ![s] = Nobody]

\* OpenZeppelin ERC721 _transfer.
NftMoved(from, to, s) ==
    /\ owner[s] = from
    /\ owner' = [owner EXCEPT ![s] = to]
    /\ approved' = [approved EXCEPT ![s] = Nobody]

\* transferNFT, transferFromNFT and transferFrom of the mock.  Where the token
\* contract does not find the spender authorised it answers an error, which
\* does not undo what the mock has recorded.
MockTransferNft(c, from, to, s) ==
    /\ IsNonFungible
    /\ Passes(TransferChecks(c, c, from, to, s))
    /\ Recorded(to, s)
    /\ IF IsAuthorized(from, c, s) THEN NftMoved(from, to, s)
                                   ELSE UNCHANGED <<owner, approved>>
    /\ UNCHANGED <<settings, association, marks, erc20, operators, minted, burned>>

\* transferFrom of the token contract.
TransferNft(c, from, to, s) ==
    /\ IsNonFungible
    /\ Passes(TransferChecks(Token, c, from, to, s))
    /\ Recorded(to, s)
    /\ IsAuthorized(owner[s], c, s) /\ NftMoved(from, to, s)
    /\ UNCHANGED <<settings, association, marks, erc20, operators, minted, burned>>

\* safeTransferFrom of the token contract runs the precheck, which records the
\* new owner, and then ERC721's, which calls transferFrom: the precheck again.
SafeTransferNft(c, from, to, s) ==
    /\ IsNonFungible
    /\ Passes(TransferChecks(Token, c, from, to, s))
    /\ [ownerId EXCEPT ![s] = to][s] = from
    /\ TransferNft(c, from, to, s)

\* approveNFT of the mock (m = c) and approve of the token contract.
ApproveNft(c, m, to, s) ==
    /\ IsNonFungible
    /\ Passes(ApproveChecks(m, c, to, s))
    /\ spenderId' = [spenderId EXCEPT ![s] = to]
    /\ owner[s] # Nobody /\ (owner[s] = c \/ <<owner[s], c>> \in operators)
    /\ approved' = [approved EXCEPT ![s] = to]
    /\ UNCHANGED <<settings, association, marks, erc20, owner, operators, minted,
                   burned, ownerId>>

SetApprovalForAll(c, m, s, flag) ==
    /\ Passes(OperatorChecks(m, c, s))
    /\ operators' = IF flag THEN operators \cup {<<c, s>>}
                            ELSE operators \ {<<c, s>>}
    /\ UNCHANGED <<settings, association, marks, erc20, owner, approved, minted,
                   burned, book>>

-----------------------------------------------------------------------------
Friends(c) == {a \in Accounts : <<c, a>> \in Grants}

SerialLists == {<<s>> : s \in Serials} \cup (Serials \X Serials)

\* A transfer from anyone else is refused by the balance or by the owner.
Holders == {a \in Accounts : Holds(a)}

SettingsCall(c) ==
    \/ CreateToken(c)
    \/ DeleteToken(c)
    \/ \E flag \in BOOLEAN : SetPaused(c, flag)
    \/ \E a \in Heirs, flag \in BOOLEAN : UpdateTokenInfo(c, a, flag)
    \/ \E keys \in Keyrings : UpdateTokenKeys(c, keys)
    \/ \E a \in Screened, mark \in {"yes", "no"} :
          SetKyc(c, a, mark) \/ SetUnfrozen(c, a, mark)
    \/ \E a \in Accounts : Associate(a) \/ Dissociate(a)

FungibleCall(c) ==
    /\ IsFungible
    /\ \/ \E n \in Amounts :
          \/ MintFungible(c, n)
          \/ BurnFungible(c, n)
          \/ \E to \in Accounts :
                \/ Transfer(c, to, n)
                \/ \E from \in Holders :
                      MockTransfer(c, from, to, n) \/ TransferFrom(c, from, to, n)
       \/ \E s \in Friends(c), m \in {c, Token}, n \in Approvals : Approve(c, m, s, n)

NftCall(c) ==
    /\ IsNonFungible
    /\ \/ MintNft(c)
       \/ \E serials \in SerialLists :
             \/ BurnNft(c, serials)
             \/ \E a \in Accounts : WipeNft(c, a, serials)
       \/ \E s \in Serials, from \in Holders, to \in Accounts :
             \/ MockTransferNft(c, from, to, s)
             \/ TransferNft(c, from, to, s)
             \/ SafeTransferNft(c, from, to, s)
       \/ \E m \in {c, Token} :
             \/ \E s \in Serials, to \in Friends(c) \cup {Nobody} :
                   ApproveNft(c, m, to, s)
             \/ \E a \in Friends(c), flag \in BOOLEAN :
                   SetApprovalForAll(c, m, a, flag)

Next ==
    \E c \in Accounts :
       /\ SettingsCall(c) \/ FungibleCall(c) \/ NftCall(c)
       /\ sender' = c

Spec == Init /\ [][Next]_vars

-----------------------------------------------------------------------------
(***************************************************************************)
(* Properties.                                                             *)
(***************************************************************************)
\* Whoever holds a token is associated with it, or is or was its treasury:
\* minting credits a treasury that dissociated, or that updateTokenInfo
\* named, without asking; no other way around association exists.
HoldersAssociated ==
    \A a \in Accounts : Holds(a) => a \in association \cup treasuries

\* The two books never give an NFT to two different owners.  They name
\* different spenders, or an owner and none, only for an NFT that was wiped
\* (gone from the mock's book) or burnt in a list (gone from the token's).
BooksAgree ==
    \A s \in Serials :
       /\ ownerId[s] = owner[s] \/ Nobody \in {ownerId[s], owner[s]}
       /\ spenderId[s] = approved[s] \/ ownerId[s] # owner[s]

\* totalSupply counts what is held: the sum of the balances, the NFTs that
\* have an owner; however many serials a burn lists, and whatever is wiped.
SupplyIsHeld ==
    /\ supply = SumFunction(balance)
    /\ minted - burned = Cardinality({s \in Serials : owner[s] # Nobody})

\* What a loses in a step is allotted to s: the allowance covers it and shrinks
\* by as much, or is without limit and stays so.
Allotted(a, s) ==
    LET left == allowance[a][s]
        lost == balance[a] - balance'[a]
    IN  \/ left = Unlimited /\ allowance'[a][s] = Unlimited
        \/ left # Unlimited /\ lost <= left /\ allowance'[a][s] = left - lost

\* What an account holds leaves it only by its own call, by a spender whose
\* allowance covers it and shrinks by as much, or stays as it is when it is
\* without limit, by one whom the owner approved for the NFT, or by a burn of
\* the treasury's.
SpentByAuthority ==
    [][\A a \in Accounts :
          /\ balance'[a] < balance[a] =>
                sender' = a \/ Allotted(a, sender')
          /\ \A s \in Serials :
                owner[s] = a /\ owner'[s] # a =>
                   \/ IsAuthorized(a, sender', s)
                   \/ owner'[s] = Nobody /\ sender' = token.treasury]_vars

\* A fungible token of the mock is an ERC-20 token through both of its faces: the
\* mock's prechecks and the token contract together let nobody move, approve or
\* burn what is not his or not approved to him.
Fungible == INSTANCE Erc20 WITH totalSupply <- supply, caller <- sender
FungibleIsErc20 == Fungible!ESpec

\* Once a token is deleted nothing about it changes any more, whichever face
\* of it is called: prechecks and settings all look at the deletion.
DeletedStays == [][~token.deleted]_vars

\* The helper of the foundry tests: a transfer answered with SUCCESS has moved
\* the amount.  (It has not when the holder of the freeze key transfers from
\* or to a frozen account.)
SuccessMeansMoved ==
    IsFungible =>
       \A c, from, to \in Accounts, n \in Amounts :
          LET checks == TransferChecks(c, c, from, to, n)
          IN ReplyTo(checks) = "SUCCESS" => Passes(checks)

=============================================================================
