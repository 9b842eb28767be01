--------------------------- MODULE HtsMock_proofs ---------------------------
(***************************************************************************)
(* Proofs about the HTS mock, for any accounts, keys, amounts and bounds.  *)
(***************************************************************************)
EXTENDS HtsMock, DataLemmas

\* What a transfer that passes its prechecks has shown.
LEMMA TransferPassed ==
    ASSUME NEW m, NEW s, NEW from, NEW to, NEW x,
           Passes(TransferChecks(m, s, from, to, x))
    PROVE  /\ ~token.deleted /\ token.kind # "none"
           /\ from \in association /\ to \in association
           /\ Sufficient(from, x).pass /\ Allowed(m, s, from, x).pass
<1> DEFINE checks == TransferChecks(m, s, from, to, x)
<1>1. checks[1].pass /\ checks[2].pass /\ checks[3].pass
  BY DEF Passes, TransferChecks
<1>2. checks[10].pass /\ checks[11].pass
  BY DEF Passes, TransferChecks
<1> QED
  BY <1>1, <1>2 DEF TransferChecks, ValidToken, IsToken, Associated, Check


-----------------------------------------------------------------------------
(***************************************************************************)
(* Types.                                                                  *)
(***************************************************************************)
\* The serials of a list are serials.
LEMMA TypeOfLists ==
    ASSUME NEW serials \in SerialLists
    PROVE  /\ serials[1] \in Serials /\ Len(serials) \in Nat
           /\ \A i \in DOMAIN serials : serials[i] \in Serials
BY DEF SerialLists

\* What a call leaves alone keeps its type.
LEMMA TypesKept ==
    /\ SettingsOK /\ UNCHANGED settings => SettingsOK'
    /\ MarksOK /\ UNCHANGED marks => MarksOK'
    /\ Erc20OK /\ UNCHANGED erc20 => Erc20OK'
    /\ Erc721OK /\ UNCHANGED erc721 => Erc721OK'
    /\ BookOK /\ UNCHANGED book => BookOK'
BY DEF SettingsOK, MarksOK, Erc20OK, Erc721OK, BookOK,
       settings, marks, erc20, erc721, book

\* A transfer that the balance covers and the allowance it spends stay naturals.
LEMMA MovedType ==
    ASSUME Erc20OK, NEW from \in Accounts, NEW to \in Accounts, NEW n \in Amounts,
           balance[from] >= n
    PROVE  Moved(from, to, n) \in [Accounts -> Nat]
<1> DEFINE less == [balance EXCEPT ![from] = @ - n]
<1>1. n \in Nat /\ balance \in [Accounts -> Nat]
  BY BoundsAssumption DEF Erc20OK
<1>2. balance[from] - n \in Nat
  BY <1>1
<1>3. less \in [Accounts -> Nat]
  BY <1>1, <1>2
<1>4. less[to] + n \in Nat
  <2>1. less[to] \in Nat
    BY <1>3
  <2> HIDE DEF less
  <2> QED
    BY <1>1, <2>1
<1> HIDE DEF less
<1>5. [less EXCEPT ![to] = @ + n] \in [Accounts -> Nat]
  BY <1>3, <1>4
<1> QED
  BY <1>5 DEF less, Moved

\* A finite allowance that is spent covers it and shrinks by as much.
LEMMA SpentFinite ==
    ASSUME Erc20OK, NEW from \in Accounts, NEW s \in Accounts, NEW n \in Amounts,
           SpendAllowance(from, s, n), allowance[from][s] # Unlimited
    PROVE  /\ allowance[from][s] \in Nat /\ n \in Nat /\ n <= allowance[from][s]
           /\ allowance' = [allowance EXCEPT ![from][s] = allowance[from][s] - n]
<1>1. allowance[from][s] \in Nat /\ n \in Nat
  BY BoundsAssumption DEF Erc20OK
<1>2. /\ allowance[from][s] >= n
      /\ allowance' = [allowance EXCEPT ![from][s] = allowance[from][s] - n]
  BY DEF SpendAllowance, Covers
<1> QED
  BY <1>1, <1>2

\* An allowance keeps its type when it is given or spent.
LEMMA SpentType ==
    ASSUME Erc20OK, NEW from \in Accounts, NEW s \in Accounts, NEW n \in Amounts,
           SpendAllowance(from, s, n)
    PROVE  allowance' \in [Accounts -> [Accounts -> Nat \cup {Unlimited}]]
<1> DEFINE Allowances == Nat \cup {Unlimited}
<1>1. allowance \in [Accounts -> [Accounts -> Allowances]]
  BY DEF Erc20OK
<1>2. CASE allowance[from][s] = Unlimited
  <2>1. allowance' = allowance
    BY <1>2 DEF SpendAllowance
  <2> QED
    BY <1>1, <2>1
<1>3. CASE allowance[from][s] # Unlimited
  <2>1. allowance[from][s] - n \in Allowances
    BY <1>3, SpentFinite
  <2>2. allowance' = [allowance EXCEPT ![from][s] = allowance[from][s] - n]
    BY <1>3, SpentFinite
  <2> HIDE DEF Allowances
  <2>3. allowance' \in [Accounts -> [Accounts -> Allowances]]
    BY <1>1, <2>1, <2>2
  <2> QED
    BY <2>3 DEF Allowances
<1> QED
  BY <1>2, <1>3

\* The state stays well typed: every call of the mock or of the token contract
\* writes a value of the type of what it writes.
THEOREM TypeCorrect == Spec => []TypeOK
<1>1. Init => TypeOK
  BY BoundsAssumption
  DEF Init, TypeOK, SettingsOK, MarksOK, Erc20OK, Erc721OK, BookOK, TokenInfo,
      Roles, Mark
<1>2. TypeOK /\ [Next]_vars => TypeOK'
  <2> SUFFICES ASSUME TypeOK, [Next]_vars PROVE TypeOK'
    OBVIOUS
  <2> USE DEF TypeOK
  <2>1. ASSUME NEW c \in Accounts, sender' = c,
             CreateToken(c)
        PROVE TypeOK'
    <3>1. SettingsOK'
      BY <2>1, CreationsAssumption, AddressesAssumption, BoundsAssumption
      DEF CreateToken, SettingsOK, TokenInfo, settings, Kinds, Erc721OK
    <3>2. Erc20OK'
      BY <2>1, CreationsAssumption, AddressesAssumption, BoundsAssumption
      DEF CreateToken, Erc20OK, SettingsOK, TokenInfo, Erc721OK, Kinds
    <3> QED
      BY <2>1, <3>1, <3>2, TypesKept DEF CreateToken
  <2>2. ASSUME NEW c \in Accounts, sender' = c,
             DeleteToken(c)
        PROVE TypeOK'
    <3>1. SettingsOK'
      BY <2>2, AddressesAssumption, BoundsAssumption
      DEF DeleteToken, SettingsOK, TokenInfo, settings
    <3> QED
      BY <2>2, <3>1, TypesKept DEF DeleteToken
  <2>3. ASSUME NEW c \in Accounts, NEW flag \in BOOLEAN, sender' = c,
             SetPaused(c, flag)
        PROVE TypeOK'
    <3>1. SettingsOK'
      BY <2>3, AddressesAssumption, BoundsAssumption
      DEF SetPaused, SettingsOK, TokenInfo, settings
    <3> QED
      BY <2>3, <3>1, TypesKept DEF SetPaused
  <2>4. ASSUME NEW c \in Accounts, NEW a \in Heirs, NEW flag \in BOOLEAN, sender' = c,
             UpdateTokenInfo(c, a, flag)
        PROVE TypeOK'
    <3>1. SettingsOK'
      BY <2>4, AddressesAssumption, BoundsAssumption
      DEF UpdateTokenInfo, SettingsOK, TokenInfo, settings
    <3> QED
      BY <2>4, <3>1, TypesKept DEF UpdateTokenInfo
  <2>5. ASSUME NEW c \in Accounts, NEW keys \in Keyrings, sender' = c,
             UpdateTokenKeys(c, keys)
        PROVE TypeOK'
    <3>1. SettingsOK'
      BY <2>5, KeysAssumption, AddressesAssumption, BoundsAssumption
      DEF UpdateTokenKeys, SettingsOK, TokenInfo, settings, KeyLists
    <3> QED
      BY <2>5, <3>1, TypesKept DEF UpdateTokenKeys
  <2>6. ASSUME NEW c \in Accounts, NEW a \in Screened, NEW mark \in {"yes", "no"}, sender' = c,
             SetKyc(c, a, mark)
        PROVE TypeOK'
    <3>1. MarksOK'
      BY <2>6, AddressesAssumption, BoundsAssumption
      DEF SetKyc, MarksOK, Mark
    <3> QED
      BY <2>6, <3>1, TypesKept DEF SetKyc
  <2>7. ASSUME NEW c \in Accounts, NEW a \in Screened, NEW mark \in {"yes", "no"}, sender' = c,
             SetUnfrozen(c, a, mark)
        PROVE TypeOK'
    <3>1. MarksOK'
      BY <2>7, AddressesAssumption, BoundsAssumption
      DEF SetUnfrozen, MarksOK, Mark
    <3> QED
      BY <2>7, <3>1, TypesKept DEF SetUnfrozen
  <2>8. ASSUME NEW c \in Accounts, NEW a \in Accounts, sender' = c,
             Associate(a)
        PROVE TypeOK'
    BY <2>8, TypesKept DEF Associate
  <2>9. ASSUME NEW c \in Accounts, NEW a \in Accounts, sender' = c,
             Dissociate(a)
        PROVE TypeOK'
    BY <2>9, TypesKept DEF Dissociate
  <2>10. ASSUME NEW c \in Accounts, NEW n \in Amounts, sender' = c,
             MintFungible(c, n)
        PROVE TypeOK'
    <3>1. Erc20OK'
      BY <2>10, AddressesAssumption, BoundsAssumption
      DEF MintFungible, Erc20OK, SettingsOK, TokenInfo, IsFungible, IsNonFungible
    <3> QED
      BY <2>10, <3>1, TypesKept DEF MintFungible
  <2>11. ASSUME NEW c \in Accounts, NEW n \in Amounts, sender' = c,
             BurnFungible(c, n)
        PROVE TypeOK'
    <3>1. Erc20OK'
      BY <2>11, AddressesAssumption, BoundsAssumption
      DEF BurnFungible, Erc20OK, SettingsOK, TokenInfo, IsFungible, IsNonFungible
    <3> QED
      BY <2>11, <3>1, TypesKept DEF BurnFungible
  <2>12. ASSUME NEW c \in Accounts, NEW to \in Accounts, NEW n \in Amounts, sender' = c,
             Transfer(c, to, n)
        PROVE TypeOK'
    <3>1. balance' \in [Accounts -> Nat]
      BY <2>12, MovedType DEF Transfer
    <3>2. allowance' \in [Accounts -> [Accounts -> Nat \cup {Unlimited}]]
      BY <2>12 DEF Transfer, Erc20OK
    <3>3. Erc20OK'
      BY <2>12, <3>1, <3>2 DEF Transfer, Erc20OK
    <3> QED
      BY <2>12, <3>3, TypesKept DEF Transfer
  <2>13. ASSUME NEW c \in Accounts, NEW from \in Accounts, NEW to \in Accounts, NEW n \in Amounts, sender' = c,
             MockTransfer(c, from, to, n)
        PROVE TypeOK'
    <3>1. balance' \in [Accounts -> Nat]
      BY <2>13, MovedType DEF MockTransfer
    <3>2. allowance' \in [Accounts -> [Accounts -> Nat \cup {Unlimited}]]
      BY <2>13, SpentType DEF MockTransfer, Erc20OK
    <3>3. Erc20OK'
      BY <2>13, <3>1, <3>2 DEF MockTransfer, Erc20OK
    <3> QED
      BY <2>13, <3>3, TypesKept DEF MockTransfer
  <2>14. ASSUME NEW c \in Accounts, NEW from \in Accounts, NEW to \in Accounts, NEW n \in Amounts, sender' = c,
             TransferFrom(c, from, to, n)
        PROVE TypeOK'
    <3>1. balance' \in [Accounts -> Nat]
      BY <2>14, MovedType DEF TransferFrom
    <3>2. allowance' \in [Accounts -> [Accounts -> Nat \cup {Unlimited}]]
      BY <2>14, SpentType DEF TransferFrom, Erc20OK
    <3>3. Erc20OK'
      BY <2>14, <3>1, <3>2 DEF TransferFrom, Erc20OK
    <3> QED
      BY <2>14, <3>3, TypesKept DEF TransferFrom
  <2>15. ASSUME NEW c \in Accounts, NEW m, NEW to \in Accounts, NEW n \in Approvals, sender' = c,
             Approve(c, m, to, n)
        PROVE TypeOK'
    <3>1. Erc20OK'
      BY <2>15, ApprovalsAssumption DEF Approve, Erc20OK
    <3> QED
      BY <2>15, <3>1, TypesKept DEF Approve
  <2>16. ASSUME NEW c \in Accounts, sender' = c,
             MintNft(c)
        PROVE TypeOK'
    <3>1. Erc721OK'
      BY <2>16, AddressesAssumption, BoundsAssumption
      DEF MintNft, Erc721OK, Serials, SettingsOK, TokenInfo, IsFungible, IsNonFungible
    <3>2. BookOK'
      BY <2>16, AddressesAssumption, BoundsAssumption
      DEF MintNft, BookOK, Serials, SettingsOK, TokenInfo, Erc721OK, IsFungible, IsNonFungible
    <3> QED
      BY <2>16, <3>1, <3>2, TypesKept DEF MintNft
  <2>17. ASSUME NEW c \in Accounts, NEW serials \in SerialLists, sender' = c,
             BurnNft(c, serials)
        PROVE TypeOK'
    <3>1. Erc721OK'
      BY <2>17, TypeOfLists, AddressesAssumption, BoundsAssumption
      DEF BurnNft, Erc721OK, Serials, IsFungible, IsNonFungible
    <3>2. BookOK'
      BY <2>17, TypeOfLists, AddressesAssumption, BoundsAssumption
      DEF BurnNft, BookOK, Serials, IsFungible, IsNonFungible
    <3> QED
      BY <2>17, <3>1, <3>2, TypesKept DEF BurnNft
  <2>18. ASSUME NEW c \in Accounts, NEW a \in Accounts, NEW serials \in SerialLists, sender' = c,
             WipeNft(c, a, serials)
        PROVE TypeOK'
    <3>1. BookOK'
      BY <2>18, TypeOfLists, AddressesAssumption, BoundsAssumption
      DEF WipeNft, BookOK, Serials
    <3> QED
      BY <2>18, <3>1, TypesKept DEF WipeNft
  <2>19. ASSUME NEW c \in Accounts, NEW from \in Accounts, NEW to \in Accounts, NEW s \in Serials, sender' = c,
             MockTransferNft(c, from, to, s)
        PROVE TypeOK'
    <3>1. Erc721OK'
      BY <2>19, AddressesAssumption, BoundsAssumption
      DEF MockTransferNft, Recorded, NftMoved, Erc721OK, Serials
    <3>2. BookOK'
      BY <2>19, AddressesAssumption, BoundsAssumption
      DEF MockTransferNft, Recorded, NftMoved, BookOK, Serials
    <3> QED
      BY <2>19, <3>1, <3>2, TypesKept DEF MockTransferNft
  <2>20. ASSUME NEW c \in Accounts, NEW from \in Accounts, NEW to \in Accounts, NEW s \in Serials, sender' = c,
             TransferNft(c, from, to, s)
        PROVE TypeOK'
    <3>1. Erc721OK'
      BY <2>20, AddressesAssumption, BoundsAssumption
      DEF TransferNft, Recorded, NftMoved, Erc721OK, Serials
    <3>2. BookOK'
      BY <2>20, AddressesAssumption, BoundsAssumption
      DEF TransferNft, Recorded, NftMoved, BookOK, Serials
    <3> QED
      BY <2>20, <3>1, <3>2, TypesKept DEF TransferNft
  <2>21. ASSUME NEW c \in Accounts, NEW m, NEW to \in Accounts \cup {Nobody}, NEW s \in Serials, sender' = c,
             ApproveNft(c, m, to, s)
        PROVE TypeOK'
    <3>1. Erc721OK'
      BY <2>21, AddressesAssumption, BoundsAssumption
      DEF ApproveNft, Erc721OK, Serials
    <3>2. BookOK'
      BY <2>21, AddressesAssumption, BoundsAssumption
      DEF ApproveNft, BookOK, Serials
    <3> QED
      BY <2>21, <3>1, <3>2, TypesKept DEF ApproveNft
  <2>22. ASSUME NEW c \in Accounts, NEW m, NEW a \in Accounts, NEW flag \in BOOLEAN, sender' = c,
             SetApprovalForAll(c, m, a, flag)
        PROVE TypeOK'
    <3>1. Erc721OK'
      BY <2>22, AddressesAssumption, BoundsAssumption
      DEF SetApprovalForAll, Erc721OK, Serials
    <3> QED
      BY <2>22, <3>1, TypesKept DEF SetApprovalForAll
  <2>23. CASE UNCHANGED vars
    BY <2>23, TypesKept DEF vars
  <2> QED
    BY <2>1, <2>2, <2>3, <2>4, <2>5, <2>6, <2>7, <2>8, <2>9, <2>10, <2>11, <2>12, <2>13, <2>14, <2>15, <2>16, <2>17, <2>18, <2>19, <2>20, <2>21, <2>22, <2>23, ZenonT(60)
       DEF Next, SettingsCall, FungibleCall, NftCall, SafeTransferNft, Friends, Holders
<1> QED
  BY <1>1, <1>2, PTL DEF Spec


-----------------------------------------------------------------------------
(***************************************************************************)
(* Frames: what each family of calls leaves alone.                         *)
(***************************************************************************)
\* Settings are indifferent to NFTs and allowances.
LEMMA SettingsFrame ==
    ASSUME NEW c, SettingsCall(c)
    PROVE  UNCHANGED <<erc721, book, allowance>>
BY DEF SettingsCall, CreateToken, DeleteToken, SetPaused, UpdateTokenInfo,
       UpdateTokenKeys, SetKyc, SetUnfrozen, Associate, Dissociate, erc20

\* So are calls on a fungible token to NFTs and settings.
LEMMA FungibleFrame ==
    ASSUME NEW c, FungibleCall(c)
    PROVE  UNCHANGED <<settings, association, marks, erc721, book>>
BY DEF FungibleCall, MintFungible, BurnFungible, Transfer, MockTransfer,
       TransferFrom, Approve

\* And calls on an NFT to balances and settings.
LEMMA NftFrame ==
    ASSUME NEW c, NftCall(c)
    PROVE  UNCHANGED <<settings, association, marks, erc20>>
BY ZenonT(60) DEF NftCall, MintNft, BurnNft, WipeNft, MockTransferNft, TransferNft,
       SafeTransferNft, ApproveNft, SetApprovalForAll

-----------------------------------------------------------------------------
(***************************************************************************)
(* The two books.                                                          *)
(***************************************************************************)
\* BooksAgree is not inductive: an NFT that is struck from one book may still
\* have a spender in the other, and an approval may wait on a serial that is
\* yet to be minted.  Neither happens.
BookInv ==
    /\ BooksAgree
    /\ \A s \in Serials :
          /\ owner[s] = Nobody => approved[s] = Nobody
          /\ ownerId[s] = Nobody => spenderId[s] = Nobody
          /\ s > minted => owner[s] = Nobody /\ ownerId[s] = Nobody

\* In a transfer that passes, the mock's book names the sender as the owner.
LEMMA TransferOwns ==
    ASSUME IsNonFungible, NEW m, NEW s, NEW from, NEW to, NEW x,
           Passes(TransferChecks(m, s, from, to, x))
    PROVE  /\ ownerId[x] = from
           /\ m = from \/ s = Nobody \/ IsAuthorized(from, s, x)
<1>1. ~IsFungible
  BY DEF IsFungible, IsNonFungible
<1>2. Sufficient(from, x).pass /\ Allowed(m, s, from, x).pass
  BY TransferPassed
<1>3. ownerId[x] = from
  BY <1>1, <1>2 DEF Sufficient, OwnsNft, Check
<1>4. m = from \/ s = Nobody \/ IsAuthorized(from, s, x)
  BY <1>1, <1>2 DEF Allowed, Check
<1> QED
  BY <1>3, <1>4

\* A transfer through the mock never meets the error of the token contract:
\* what it has recorded is what the token contract then does.
LEMMA MockTransferMoves ==
    ASSUME NEW c \in Accounts, NEW from \in Accounts, NEW to, NEW s,
           MockTransferNft(c, from, to, s)
    PROVE  Recorded(to, s) /\ NftMoved(from, to, s) /\ IsAuthorized(from, c, s)
<1>1. c = from \/ c = Nobody \/ IsAuthorized(from, c, s)
  BY TransferOwns DEF MockTransferNft
<1>2. IsAuthorized(from, c, s)
  BY <1>1, AddressesAssumption DEF IsAuthorized
<1> QED
  BY <1>2 DEF MockTransferNft

\* A transfer that both books carry out.
LEMMA RecordedTransfer ==
    ASSUME TypeOK, BookInv, NEW from \in Accounts, NEW to \in Accounts,
           NEW s \in Serials, Recorded(to, s), NftMoved(from, to, s),
           UNCHANGED minted
    PROVE  BookInv'
BY AddressesAssumption
DEF TypeOK, Erc721OK, BookOK, BookInv, BooksAgree, Recorded, NftMoved, Serials

\* Every call that writes the books keeps them in agreement.
LEMMA NftCallsAgree ==
    ASSUME TypeOK, BookInv, NEW c \in Accounts, NftCall(c)
    PROVE  BookInv'
<1> USE DEF TypeOK, Erc721OK, BookOK
<1>1. CASE MintNft(c)
  BY <1>1, BoundsAssumption DEF MintNft, BookInv, BooksAgree, Serials
<1>2. ASSUME NEW serials \in SerialLists, BurnNft(c, serials) PROVE BookInv'
  <2>1. serials[1] \in Serials /\ serials[1] \in {serials[i] : i \in DOMAIN serials}
    BY DEF SerialLists
  <2> QED
    BY <1>2, <2>1 DEF BurnNft, BookInv, BooksAgree, Serials
<1>3. ASSUME NEW a \in Accounts, NEW serials \in SerialLists,
             WipeNft(c, a, serials)
      PROVE  BookInv'
  BY <1>3 DEF WipeNft, BookInv, BooksAgree, Serials, erc721
<1>4. ASSUME NEW s \in Serials, NEW from \in Accounts, NEW to \in Accounts,
             MockTransferNft(c, from, to, s) \/ TransferNft(c, from, to, s)
      PROVE  BookInv'
  BY <1>4, MockTransferMoves, RecordedTransfer DEF MockTransferNft, TransferNft
<1>5. ASSUME NEW m, NEW s \in Serials, NEW to, ApproveNft(c, m, to, s)
      PROVE  BookInv'
  <2>1. ownerId[s] = c
    <3>1. ApproveChecks(m, c, to, s)[6].pass
      BY <1>5 DEF ApproveNft, Passes, ApproveChecks
    <3> QED
      BY <1>5, <3>1 DEF ApproveNft, ApproveChecks, OwnsNft, Check
  <2> QED
    BY <1>5, <2>1, AddressesAssumption DEF ApproveNft, BookInv, BooksAgree, Serials
<1>6. ASSUME NEW m, NEW a, NEW flag, SetApprovalForAll(c, m, a, flag)
      PROVE  BookInv'
  BY <1>6 DEF SetApprovalForAll, BookInv, BooksAgree, book
<1> QED
  BY <1>1, <1>2, <1>3, <1>4, <1>5, <1>6 DEF NftCall, SafeTransferNft, Holders

\* The strengthened agreement holds throughout.
LEMMA BookInvariant == Spec => []BookInv
<1>1. Init => BookInv
  BY BoundsAssumption DEF Init, BookInv, BooksAgree, Serials
<1>2. TypeOK /\ BookInv /\ [Next]_vars => BookInv'
  <2> SUFFICES ASSUME TypeOK, BookInv, [Next]_vars PROVE BookInv'
    OBVIOUS
  <2>1. ASSUME UNCHANGED <<erc721, book>> PROVE BookInv'
    BY <2>1 DEF BookInv, BooksAgree, erc721, book
  <2>2. CASE UNCHANGED vars
    BY <2>1, <2>2 DEF vars
  <2>3. ASSUME NEW c \in Accounts, SettingsCall(c) \/ FungibleCall(c)
        PROVE  BookInv'
    BY <2>1, <2>3, SettingsFrame, FungibleFrame
  <2> QED
    BY <2>2, <2>3, NftCallsAgree DEF Next
<1> QED
  BY <1>1, <1>2, TypeCorrect, PTL DEF Spec

\* The two books of an NFT never name two owners, and their spenders differ
\* only where an owner is missing from one of them.
THEOREM AgreementOfBooks == Spec => []BooksAgree
<1>1. BookInv => BooksAgree
  BY DEF BookInv
<1> QED
  BY <1>1, BookInvariant, PTL

-----------------------------------------------------------------------------
(***************************************************************************)
(* Deletion.                                                               *)
(***************************************************************************)
\* Before its creation a token has nobody associated and is not deleted.
Fresh ==
    token.kind = "none" =>
       association = {} /\ treasuries = {} /\ ~token.deleted

Alive == ~token.deleted /\ token.kind # "none"

\* A list of checks that passes and has the validation of the token first.
LEMMA ValidFirst ==
    /\ Passes(<<ValidToken>>) => Alive
    /\ \A x : Passes(<<ValidToken, x>>) => Alive
    /\ \A x, y : Passes(<<ValidToken, x, y>>) => Alive
<1>1. ValidToken.pass => Alive
  BY DEF ValidToken, IsToken, Check, Alive
<1>2. Passes(<<ValidToken>>) => ValidToken.pass
  BY DEF Passes
<1>3. ASSUME NEW x, Passes(<<ValidToken, x>>) PROVE ValidToken.pass
  BY <1>3 DEF Passes
<1>4. ASSUME NEW x, NEW y, Passes(<<ValidToken, x, y>>) PROVE ValidToken.pass
  BY <1>4 DEF Passes
<1> QED
  BY <1>1, <1>2, <1>3, <1>4

\* So for the prechecks of approvals, which validate the token later.
LEMMA ApprovalsNeedToken ==
    ASSUME NEW m, NEW o, NEW s, NEW x,
           Passes(ApproveChecks(m, o, s, x)) \/ Passes(OperatorChecks(m, o, s))
    PROVE  Alive
<1>1. ApproveChecks(m, o, s, x)[5] = ValidToken /\ OperatorChecks(m, o, s)[1] = ValidToken
  BY DEF ApproveChecks, OperatorChecks
<1>2. ApproveChecks(m, o, s, x)[5].pass \/ OperatorChecks(m, o, s)[1].pass
  BY DEF Passes, ApproveChecks, OperatorChecks
<1>3. ValidToken.pass
  BY <1>1, <1>2
<1> QED
  BY <1>3 DEF ValidToken, IsToken, Check, Alive

\* Every call but the creation is refused unless the token is there and alive.
LEMMA CallsNeedToken ==
    ASSUME NEW c \in Accounts, SettingsCall(c) \/ FungibleCall(c) \/ NftCall(c)
    PROVE  CreateToken(c) \/ Alive
<1>1. ASSUME SettingsCall(c) PROVE CreateToken(c) \/ Alive
  BY <1>1, ValidFirst
  DEF SettingsCall, DeleteToken, SetPaused, UpdateTokenInfo, UpdateTokenKeys,
      SetKyc, SetUnfrozen, Associate, Dissociate, DissociateChecks
<1>2. ASSUME NEW m, NEW s, NEW from, NEW to, NEW x,
             Passes(TransferChecks(m, s, from, to, x))
      PROVE  Alive
  BY <1>2, TransferPassed DEF Alive
<1>3. ASSUME FungibleCall(c) PROVE Alive
  BY <1>2, <1>3, ValidFirst, ApprovalsNeedToken, ZenonT(60)
  DEF FungibleCall, MintFungible, BurnFungible, BurnChecks, Transfer,
      MockTransfer, TransferFrom, Approve
<1>4. ASSUME NftCall(c) PROVE Alive
  BY <1>2, <1>4, ValidFirst, ApprovalsNeedToken, ZenonT(60)
  DEF NftCall, MintNft, BurnNft, BurnChecks, WipeNft, WipeChecks,
      MockTransferNft, TransferNft, SafeTransferNft, ApproveNft, SetApprovalForAll
<1> QED
  BY <1>1, <1>3, <1>4

\* Only the settings touch what Fresh is about, and a created token stays so.
LEMMA FreshKept ==
    ASSUME Fresh, TypeOK, [Next]_vars
    PROVE  Fresh'
<1>1. CASE UNCHANGED vars
  BY <1>1 DEF vars, settings, Fresh
<1>2. ASSUME NEW c \in Accounts, FungibleCall(c) \/ NftCall(c) PROVE Fresh'
  BY <1>2, FungibleFrame, NftFrame DEF settings, Fresh
<1>3. ASSUME NEW c \in Accounts, CreateToken(c) PROVE Fresh'
  BY <1>3, CreationsAssumption DEF CreateToken, Fresh, Kinds
<1>4. ASSUME NEW c \in Accounts, SettingsCall(c), ~CreateToken(c) PROVE Fresh'
  <2>1. token.kind # "none"
    BY <1>4, CallsNeedToken DEF Alive
  <2>2. token'.kind = token.kind
    BY <1>4
    DEF SettingsCall, DeleteToken, SetPaused, UpdateTokenInfo, UpdateTokenKeys,
        SetKyc, SetUnfrozen, Associate, Dissociate, settings, TypeOK, SettingsOK,
        TokenInfo
  <2> QED
    BY <2>1, <2>2 DEF Fresh
<1> QED
  BY <1>1, <1>2, <1>3, <1>4 DEF Next

\* Nothing changes once the token is deleted.
THEOREM DeletionIsFinal == Spec => DeletedStays
<1>1. Init => Fresh
  BY DEF Init, Fresh
<1>2. TypeOK /\ Fresh /\ [Next]_vars => Fresh' /\ [~token.deleted]_vars
  <2> SUFFICES ASSUME TypeOK, Fresh, [Next]_vars
               PROVE  Fresh' /\ [~token.deleted]_vars
    OBVIOUS
  <2>1. ASSUME NEW c \in Accounts, CreateToken(c) PROVE ~token.deleted
    BY <2>1 DEF CreateToken, Fresh
  <2>2. ~token.deleted \/ UNCHANGED vars
    BY <2>1, CallsNeedToken DEF Next, Alive
  <2> QED
    BY <2>2, FreshKept
<1> QED
  BY <1>1, <1>2, TypeCorrect, PTL DEF Spec, DeletedStays

-----------------------------------------------------------------------------
(***************************************************************************)
(* Holders.                                                                *)
(***************************************************************************)
\* A step is harmless when it forgets no holder and whoever comes to hold the
\* token is known.
LEMMA HarmlessStep ==
    ASSUME HoldersAssociated,
           \A a \in Accounts :
              Holds(a)' =>
                 \/ Holds(a) /\ (a \in association => a \in association')
                             /\ treasuries \subseteq treasuries'
                 \/ a \in association' \cup treasuries'
    PROVE  HoldersAssociated'
BY DEF HoldersAssociated

\* The settings move nothing; who dissociates holds nothing.
LEMMA SettingsKeepHolders ==
    ASSUME TypeOK, Fresh, HoldersAssociated, NEW c \in Accounts, SettingsCall(c)
    PROVE  HoldersAssociated'
<1>1. CASE CreateToken(c)
  <2>1. PICK r \in Creations :
           /\ association' = {r.treasury}
           /\ balance' = [balance EXCEPT ![r.treasury] = supply']
           /\ UNCHANGED owner
    BY <1>1 DEF CreateToken, erc721
  <2>2. \A a \in Accounts : ~Holds(a)
    BY <1>1 DEF HoldersAssociated, Fresh, CreateToken
  <2>3. \A a \in Accounts : Holds(a)' => a = r.treasury
    BY <2>1, <2>2 DEF Holds, TypeOK, Erc20OK
  <2> QED
    BY <2>1, <2>3, HarmlessStep
<1>2. ASSUME NEW a \in Accounts, Dissociate(a) PROVE HoldersAssociated'
  <2>1. ~Holds(a) /\ association' = association \ {a} /\ UNCHANGED treasuries
    <3>1. DissociateChecks(a)[3].pass
      BY <1>2 DEF Dissociate, Passes, DissociateChecks
    <3> QED
      BY <1>2, <3>1 DEF Dissociate, DissociateChecks, Check, settings
  <2>2. \A b \in Accounts : Holds(b)' = Holds(b)
    BY <1>2 DEF Dissociate, Holds, erc20, erc721
  <2> QED
    BY <2>1, <2>2, HarmlessStep
<1>3. ASSUME ~CreateToken(c), \A a \in Accounts : ~Dissociate(a)
      PROVE  HoldersAssociated'
  <2>1. /\ association \subseteq association' /\ treasuries \subseteq treasuries'
        /\ UNCHANGED <<erc20, erc721>>
    BY <1>3
    DEF SettingsCall, DeleteToken, SetPaused, UpdateTokenInfo, UpdateTokenKeys,
        SetKyc, SetUnfrozen, Associate, settings
  <2>2. \A b \in Accounts : Holds(b)' = Holds(b)
    BY <2>1 DEF Holds, erc20, erc721
  <2> QED
    BY <2>1, <2>2, HarmlessStep
<1> QED
  BY <1>1, <1>2, <1>3

\* Amounts go to the treasury or to the associated receiver of a transfer.
LEMMA FungibleKeepsHolders ==
    ASSUME TypeOK, HoldersAssociated, NEW c \in Accounts, FungibleCall(c)
    PROVE  HoldersAssociated'
<1> USE DEF TypeOK, Erc20OK
<1>1. UNCHANGED <<association, treasuries, owner>>
  BY FungibleFrame DEF settings, erc721
<1>2. SUFFICES \A a \in Accounts : balance'[a] > 0 =>
                  Holds(a) \/ a \in association \cup treasuries
  BY <1>1, <1>2, HarmlessStep DEF Holds
<1>3. ASSUME NEW n \in Amounts, MintFungible(c, n) \/ BurnFungible(c, n),
             NEW a \in Accounts, balance'[a] > 0
      PROVE  Holds(a) \/ a \in association \cup treasuries
  <2>1. token.treasury \in treasuries
    BY <1>3 DEF SettingsOK, MintFungible, BurnFungible, IsFungible
  <2> QED
    BY <1>3, <2>1 DEF MintFungible, BurnFungible, Holds
<1>4. ASSUME NEW from \in Accounts, NEW to \in Accounts, NEW n \in Amounts,
             balance' = Moved(from, to, n), to \in association,
             NEW a \in Accounts, balance'[a] > 0
      PROVE  Holds(a) \/ a \in association \cup treasuries
  <2>1. n \in Nat
    BY BoundsAssumption
  <2> QED
    BY <1>4, <2>1 DEF Moved, Holds
<1>5. ASSUME NEW from \in Accounts, NEW to \in Accounts, NEW n \in Amounts,
             \/ Transfer(c, to, n) /\ from = c
             \/ MockTransfer(c, from, to, n) \/ TransferFrom(c, from, to, n)
      PROVE  balance' = Moved(from, to, n) /\ to \in association
  BY <1>5, TransferPassed DEF Transfer, MockTransfer, TransferFrom
<1>6. ASSUME NEW m, NEW to, NEW n, Approve(c, m, to, n), NEW a \in Accounts,
             balance'[a] > 0
      PROVE  Holds(a)
  BY <1>6 DEF Approve, Holds
<1>7. ASSUME NEW from \in Accounts, NEW to \in Accounts, NEW n \in Amounts,
             \/ Transfer(c, to, n) /\ from = c
             \/ MockTransfer(c, from, to, n) \/ TransferFrom(c, from, to, n),
             NEW a \in Accounts, balance'[a] > 0
      PROVE  Holds(a) \/ a \in association \cup treasuries
  <2>1. balance' = Moved(from, to, n) /\ to \in association
    BY <1>5, <1>7
  <2> QED
    BY <1>4, <1>7, <2>1
<1>8. SUFFICES ASSUME NEW a \in Accounts, balance'[a] > 0
               PROVE  Holds(a) \/ a \in association \cup treasuries
  OBVIOUS
<1>9. \/ \E n \in Amounts :
            \/ MintFungible(c, n) \/ BurnFungible(c, n)
            \/ \E to \in Accounts :
                  \/ Transfer(c, to, n)
                  \/ \E from \in Accounts :
                        MockTransfer(c, from, to, n) \/ TransferFrom(c, from, to, n)
      \/ \E m, s, n : Approve(c, m, s, n)
  BY DEF FungibleCall, Holders
<1> QED
  BY <1>3, <1>6, <1>7, <1>8, <1>9

\* So do NFTs.
LEMMA NftKeepsHolders ==
    ASSUME TypeOK, HoldersAssociated, NEW c \in Accounts, NftCall(c)
    PROVE  HoldersAssociated'
<1> USE DEF TypeOK, Erc721OK
<1>1. UNCHANGED <<association, treasuries, balance>>
  BY NftFrame DEF settings, erc20
<1>2. SUFFICES \A a \in Accounts, s \in Serials : owner'[s] = a =>
                  owner[s] = a \/ a \in association \cup treasuries
  BY <1>1, <1>2, HarmlessStep DEF Holds
<1>3. CASE MintNft(c)
  BY <1>3 DEF MintNft, SettingsOK, IsNonFungible
<1>4. ASSUME NEW serials, BurnNft(c, serials), NEW a \in Accounts, NEW s \in Serials,
             owner'[s] = a
      PROVE  owner[s] = a
  BY <1>4, AddressesAssumption DEF BurnNft
<1>5. ASSUME NEW b, NEW serials, WipeNft(c, b, serials) PROVE owner' = owner
  BY <1>5 DEF WipeNft, erc721
<1>6. ASSUME NEW s \in Serials, NEW from \in Accounts, NEW to \in Accounts,
             MockTransferNft(c, from, to, s) \/ TransferNft(c, from, to, s)
      PROVE  owner' = [owner EXCEPT ![s] = to] /\ to \in association
  BY <1>6, TransferPassed, MockTransferMoves
  DEF MockTransferNft, TransferNft, NftMoved
<1>7. ASSUME NEW m, NEW s, NEW to,
             ApproveNft(c, m, to, s) \/ SetApprovalForAll(c, m, to, s)
      PROVE  owner' = owner
  BY <1>7 DEF ApproveNft, SetApprovalForAll
<1> QED
  BY <1>3, <1>4, <1>5, <1>6, <1>7 DEF NftCall, SafeTransferNft, Holders

\* Only associated accounts and treasuries ever hold the token.
THEOREM HoldersAreAssociated == Spec => []HoldersAssociated
<1>1. Init => Fresh /\ HoldersAssociated
  BY AddressesAssumption DEF Init, Fresh, HoldersAssociated, Holds
<1>2. TypeOK /\ Fresh /\ HoldersAssociated /\ [Next]_vars => HoldersAssociated'
  <2> SUFFICES ASSUME TypeOK, Fresh, HoldersAssociated, [Next]_vars
               PROVE  HoldersAssociated'
    OBVIOUS
  <2>1. CASE UNCHANGED vars
    BY <2>1 DEF vars, settings, erc20, erc721, HoldersAssociated, Holds
  <2> QED
    BY <2>1, SettingsKeepHolders, FungibleKeepsHolders, NftKeepsHolders DEF Next
<1>3. TypeOK /\ Fresh /\ [Next]_vars => Fresh'
  BY FreshKept
<1> QED
  BY <1>1, <1>2, <1>3, TypeCorrect, PTL DEF Spec

-----------------------------------------------------------------------------
(***************************************************************************)
(* Authority.                                                              *)
(***************************************************************************)
\* SpentByAuthority, of one account and a step whose caller is c.
Justified(c, a) ==
    /\ balance'[a] < balance[a] =>
          c = a \/ Allotted(a, c)
    /\ \A s \in Serials :
          owner[s] = a /\ owner'[s] # a =>
             \/ IsAuthorized(a, c, s)
             \/ owner'[s] = Nobody /\ c = token.treasury

\* A burn that passes its precheck is the treasury's.
LEMMA OnlyTreasuryBurns ==
    ASSUME NEW m, NEW n, NEW s, Passes(BurnChecks(m, n, s))
    PROVE  m = token.treasury
<1>1. BurnChecks(m, n, s)[2].pass
  BY DEF Passes, BurnChecks
<1> QED
  BY <1>1 DEF BurnChecks, IsTreasury, Check

\* A balance shrinks by the account's own call or with an allowance.
LEMMA FungibleJustified ==
    ASSUME TypeOK, NEW c \in Accounts, FungibleCall(c), NEW a \in Accounts
    PROVE  Justified(c, a)
<1> USE DEF TypeOK, Erc20OK
<1>1. UNCHANGED owner
  BY FungibleFrame DEF erc721
<1>2. SUFFICES ASSUME balance'[a] < balance[a], c # a
               PROVE  Allotted(a, c)
  BY <1>1, <1>2 DEF Justified
<1>3. ASSUME NEW n \in Amounts, MintFungible(c, n) \/ BurnFungible(c, n)
      PROVE  FALSE
  <2>1. n \in Nat
    BY BoundsAssumption
  <2>2. CASE BurnFungible(c, n)
    BY <1>2, <2>2, OnlyTreasuryBurns DEF BurnFungible
  <2>3. CASE MintFungible(c, n)
    BY <1>2, <2>1, <2>3 DEF MintFungible
  <2> QED
    BY <1>3, <2>2, <2>3
<1>4. ASSUME NEW from \in Accounts, NEW to \in Accounts, NEW n \in Amounts,
             balance' = Moved(from, to, n)
      PROVE  from = a /\ balance[a] - balance'[a] = n
  <2>1. n \in Nat
    BY BoundsAssumption
  <2> QED
    BY <1>2, <1>4, <2>1 DEF Moved
<1>5. ASSUME NEW n \in Amounts, SpendAllowance(a, c, n), balance[a] - balance'[a] = n
      PROVE  Allotted(a, c)
  <2>1. CASE allowance[a][c] = Unlimited
    BY <1>5, <2>1 DEF SpendAllowance, Allotted
  <2>2. CASE allowance[a][c] # Unlimited
    <3>1. /\ n <= allowance[a][c]
          /\ allowance' = [allowance EXCEPT ![a][c] = allowance[a][c] - n]
      BY <1>5, <2>2, SpentFinite
    <3>2. allowance'[a][c] = allowance[a][c] - n
      BY <3>1
    <3> QED
      BY <1>5, <2>2, <3>1, <3>2 DEF Allotted
  <2> QED
    BY <2>1, <2>2
<1>6. ASSUME NEW from \in Accounts, NEW to \in Accounts, NEW n \in Amounts,
             MockTransfer(c, from, to, n) \/ TransferFrom(c, from, to, n)
      PROVE  Allotted(a, c)
  <2>1. from = a /\ balance[a] - balance'[a] = n
    BY <1>4, <1>6 DEF MockTransfer, TransferFrom
  <2>2. SpendAllowance(a, c, n)
    BY <1>2, <1>6, <2>1 DEF MockTransfer, TransferFrom
  <2> QED
    BY <1>5, <2>1, <2>2
<1>7. ASSUME NEW to \in Accounts, NEW n \in Amounts, Transfer(c, to, n)
      PROVE  FALSE
  BY <1>2, <1>4, <1>7 DEF Transfer
<1>8. ASSUME NEW m, NEW to, NEW n, Approve(c, m, to, n) PROVE FALSE
  BY <1>2, <1>8 DEF Approve
<1>9. \/ \E n \in Amounts :
            \/ MintFungible(c, n) \/ BurnFungible(c, n)
            \/ \E to \in Accounts :
                  \/ Transfer(c, to, n)
                  \/ \E from \in Accounts :
                        MockTransfer(c, from, to, n) \/ TransferFrom(c, from, to, n)
      \/ \E m, s, n : Approve(c, m, s, n)
  BY DEF FungibleCall, Holders
<1> QED
  BY <1>3, <1>6, <1>7, <1>8, <1>9

\* An NFT leaves its owner by an authorised transfer or the treasury's burn.
LEMMA NftJustified ==
    ASSUME TypeOK, BookInv, NEW c \in Accounts, NftCall(c), NEW a \in Accounts
    PROVE  Justified(c, a)
<1> USE DEF TypeOK, Erc20OK, Erc721OK
<1>1. balance' = balance
  BY NftFrame DEF erc20
<1>2. SUFFICES ASSUME NEW t \in Serials, owner[t] = a, owner'[t] # a
               PROVE  \/ IsAuthorized(a, c, t)
                      \/ owner'[t] = Nobody /\ c = token.treasury
  BY <1>1, <1>2 DEF Justified
<1>3. ASSUME MintNft(c) PROVE FALSE
  <2>1. minted \in Nat /\ minted' = minted + 1 /\ minted + 1 \in Serials
    BY <1>3, BoundsAssumption DEF MintNft, Serials
  <2>2. t = minted + 1
    BY <1>2, <1>3, <2>1 DEF MintNft
  <2>3. owner[t] = Nobody
    BY <2>1, <2>2 DEF BookInv
  <2> QED
    BY <1>2, <2>3, AddressesAssumption
<1>4. ASSUME NEW serials, BurnNft(c, serials)
      PROVE  owner'[t] = Nobody /\ c = token.treasury
  BY <1>2, <1>4, OnlyTreasuryBurns DEF BurnNft
<1>5. ASSUME NEW b, NEW serials, WipeNft(c, b, serials) PROVE FALSE
  BY <1>2, <1>5 DEF WipeNft, erc721
<1>6. ASSUME NEW s \in Serials, NEW from \in Accounts, NEW to \in Accounts,
             MockTransferNft(c, from, to, s) \/ TransferNft(c, from, to, s)
      PROVE  IsAuthorized(a, c, t)
  <2>1. NftMoved(from, to, s) /\ IsAuthorized(from, c, s)
    BY <1>6, MockTransferMoves DEF TransferNft, NftMoved
  <2>2. s = t /\ from = a
    BY <1>2, <2>1 DEF NftMoved
  <2> QED
    BY <2>1, <2>2
<1>7. ASSUME NEW m, NEW s, NEW to,
             ApproveNft(c, m, to, s) \/ SetApprovalForAll(c, m, to, s)
      PROVE  FALSE
  BY <1>2, <1>7 DEF ApproveNft, SetApprovalForAll
<1> QED
  BY <1>3, <1>4, <1>5, <1>6, <1>7 DEF NftCall, SafeTransferNft, Holders

\* The settings take nothing; the creation writes the balance of its caller.
LEMMA SettingsJustified ==
    ASSUME TypeOK, NEW c \in Accounts, SettingsCall(c), NEW a \in Accounts
    PROVE  Justified(c, a)
<1>1. UNCHANGED owner
  BY SettingsFrame DEF erc721
<1>2. c = a \/ balance'[a] = balance[a]
  BY DEF SettingsCall, CreateToken, DeleteToken, SetPaused, UpdateTokenInfo,
         UpdateTokenKeys, SetKyc, SetUnfrozen, Associate, Dissociate, erc20,
         TypeOK, Erc20OK
<1> QED
  BY <1>1, <1>2 DEF Justified, TypeOK, Erc20OK

\* Nobody loses what he holds but by his own call, by a spender whose allowance
\* covers it and shrinks by as much (or is without limit, and stays so), by one
\* who was approved for the NFT, or by a burn of the treasury's.
THEOREM SpendingNeedsAuthority == Spec => SpentByAuthority
<1>1. TypeOK /\ BookInv /\ [Next]_vars =>
         [\A a \in Accounts :
             /\ balance'[a] < balance[a] =>
                   sender' = a \/ Allotted(a, sender')
             /\ \A s \in Serials :
                   owner[s] = a /\ owner'[s] # a =>
                      \/ IsAuthorized(a, sender', s)
                      \/ owner'[s] = Nobody /\ sender' = token.treasury]_vars
  <2> SUFFICES ASSUME TypeOK, BookInv, [Next]_vars, ~UNCHANGED vars
               PROVE  \A a \in Accounts : Justified(sender', a)
    BY DEF Justified
  <2>1. PICK c \in Accounts :
           (SettingsCall(c) \/ FungibleCall(c) \/ NftCall(c)) /\ sender' = c
    BY DEF Next
  <2> QED
    BY <2>1, SettingsJustified, FungibleJustified, NftJustified
<1> QED
  BY <1>1, TypeCorrect, BookInvariant, PTL DEF Spec, SpentByAuthority

-----------------------------------------------------------------------------
(***************************************************************************)
(* Supply.                                                                 *)
(***************************************************************************)
\* SupplyIsHeld is not inductive: a creation overwrites one balance, a mint
\* one owner.  There is nothing to overwrite: a token that is not created has
\* no balances, a serial that is not minted no owner.
SupplyInv ==
    /\ SupplyIsHeld
    /\ token.kind = "none" => balance = [a \in Accounts |-> 0]

Owned == {s \in Serials : owner[s] # Nobody}

LEMMA OwnedFinite == IsFiniteSet(Owned)
<1>1. IsFiniteSet(1..MaxSerial)
  BY BoundsAssumption, FS_Interval
<1> QED
  BY <1>1, FS_Subset DEF Owned, Serials

\* One balance changes, and the supply by as much.
LEMMA CreditedSum ==
    ASSUME Erc20OK, Erc20OK', NEW a \in Accounts, \A b \in Accounts \ {a} : balance'[b] = balance[b]
    PROVE  SumFunction(balance') = SumFunction(balance) + balance'[a] - balance[a]
<1>1. balance \in [Accounts -> Int] /\ balance' \in [Accounts -> Int]
  BY DEF Erc20OK
<1> QED
  BY <1>1, SumSplit, AddressesAssumption

\* A transfer takes from one as much as it gives to another.
LEMMA MovedSum ==
    ASSUME Erc20OK, NEW from \in Accounts, NEW to \in Accounts, NEW n \in Amounts
    PROVE  SumFunction(Moved(from, to, n)) = SumFunction(balance)
<1>1. n \in Int /\ balance \in [Accounts -> Int] /\ IsFiniteSet(Accounts)
  BY BoundsAssumption, AddressesAssumption DEF Erc20OK
<1> DEFINE h == Moved(from, to, n)
<1>2. /\ h \in [Accounts -> Int]
      /\ from = to => h[from] = balance[from]
      /\ from # to => h[from] + h[to] = balance[from] + balance[to]
      /\ \A a \in Accounts \ {from, to} : h[a] = balance[a]
  <2> DEFINE less == [balance EXCEPT ![from] = @ - n]
  <2>1. /\ less \in [Accounts -> Int] /\ less[from] = balance[from] - n
        /\ \A a \in Accounts \ {from} : less[a] = balance[a]
    BY <1>1
  <2>2. h = [less EXCEPT ![to] = @ + n]
    BY DEF Moved
  <2> HIDE DEF less, h
  <2>3. h \in [Accounts -> Int] /\ h[to] = less[to] + n /\ \A a \in Accounts \ {to} : h[a] = less[a]
    BY <1>1, <2>1, <2>2
  <2> QED
    BY <1>1, <2>1, <2>3
<1> HIDE DEF h
<1>3. SumFunction(h) = SumFunction(balance)
  BY <1>1, <1>2, SumMoves
<1> QED
  BY <1>3 DEF h

\* Mint and burn of a fungible token, and its transfers.
LEMMA FungibleKeepsSupply ==
    ASSUME TypeOK, TypeOK', SupplyInv, NEW c \in Accounts, FungibleCall(c)
    PROVE  SupplyInv'
<1>1. token.kind # "none" /\ token' = token /\ UNCHANGED <<minted, burned, owner>>
  BY FungibleFrame DEF FungibleCall, IsFungible, settings, erc721
<1>2. token.treasury \in Accounts /\ Erc20OK /\ Erc20OK' /\ Amounts \subseteq Int
  BY <1>1, BoundsAssumption DEF TypeOK, SettingsOK
<1>3. SumFunction(balance) \in Int
  BY <1>2, AddressesAssumption, SumType DEF Erc20OK
<1>4. supply' = SumFunction(balance')
  <2>1. ASSUME NEW n \in Amounts, MintFungible(c, n) PROVE supply' = SumFunction(balance')
    <3>1. /\ supply' = supply + n /\ balance'[token.treasury] = balance[token.treasury] + n
          /\ \A b \in Accounts \ {token.treasury} : balance'[b] = balance[b]
      BY <1>2, <2>1 DEF MintFungible, Erc20OK
    <3>2. n \in Int /\ balance[token.treasury] \in Int
      BY <1>2 DEF Erc20OK
    <3>3. SumFunction(balance') = SumFunction(balance) + n
      BY <1>2, <1>3, <3>1, <3>2, CreditedSum
    <3> QED
      BY <3>1, <3>3 DEF SupplyInv, SupplyIsHeld
  <2>2. ASSUME NEW n \in Amounts, BurnFungible(c, n) PROVE supply' = SumFunction(balance')
    <3>1. /\ supply' = supply - n /\ balance'[token.treasury] = balance[token.treasury] - n
          /\ \A b \in Accounts \ {token.treasury} : balance'[b] = balance[b]
      BY <1>2, <2>2 DEF BurnFungible, Erc20OK
    <3>2. n \in Int /\ balance[token.treasury] \in Int
      BY <1>2 DEF Erc20OK
    <3>3. SumFunction(balance') = SumFunction(balance) - n
      BY <1>2, <1>3, <3>1, <3>2, CreditedSum
    <3> QED
      BY <3>1, <3>3 DEF SupplyInv, SupplyIsHeld
  <2>3. ASSUME NEW n \in Amounts, NEW from \in Accounts, NEW to \in Accounts,
               Transfer(c, to, n) \/ MockTransfer(c, from, to, n) \/ TransferFrom(c, from, to, n)
        PROVE  supply' = SumFunction(balance')
    <3>1. supply' = supply /\ (balance' = Moved(c, to, n) \/ balance' = Moved(from, to, n))
      BY <2>3 DEF Transfer, MockTransfer, TransferFrom
    <3> QED
      BY <1>2, <3>1, MovedSum DEF SupplyInv, SupplyIsHeld
  <2>4. ASSUME NEW n, NEW m, NEW s, Approve(c, m, s, n) PROVE supply' = SumFunction(balance')
    BY <2>4 DEF Approve, SupplyInv, SupplyIsHeld
  <2> QED
    BY <2>1, <2>2, <2>3, <2>4 DEF FungibleCall, Holders
<1> QED
  BY <1>1, <1>4 DEF SupplyInv, SupplyIsHeld

\* A creation writes the first balance.
LEMMA SettingsKeepSupply ==
    ASSUME TypeOK, TypeOK', SupplyInv, NEW c \in Accounts, SettingsCall(c)
    PROVE  SupplyInv'
<1>1. UNCHANGED <<minted, burned, owner>>
  BY SettingsFrame DEF erc721
<1>2. CASE CreateToken(c)
  <2>1. PICK r \in Creations :
          /\ token' = [kind |-> r.kind, treasury |-> r.treasury, keys |-> r.keys,
                       freezeDefault |-> r.freezeDefault,
                       kycDefault |-> r.kycDefault,
                       deleted |-> FALSE, paused |-> FALSE]
          /\ supply' = IF r.kind = "fungible" THEN r.initial ELSE 0
          /\ balance' = [balance EXCEPT ![r.treasury] = supply']
    BY <1>2 DEF CreateToken
  <2>2. r.treasury \in Accounts /\ r.kind # "none" /\ supply' \in Int /\ Erc20OK /\ Erc20OK'
    BY <2>1, CreationsAssumption DEF Kinds, TypeOK, Erc20OK
  <2>3. balance = [a \in Accounts |-> 0] /\ SumFunction(balance) = 0
    BY <1>2, SumOfZeros, AddressesAssumption DEF CreateToken, SupplyInv
  <2>4. /\ balance'[r.treasury] = supply' /\ balance[r.treasury] = 0
        /\ \A b \in Accounts \ {r.treasury} : balance'[b] = balance[b]
    BY <2>1, <2>2, <2>3
  <2>5. SumFunction(balance') = 0 + supply' - 0
    BY <2>2, <2>3, <2>4, CreditedSum
  <2> QED
    BY <1>1, <2>1, <2>2, <2>5 DEF SupplyInv, SupplyIsHeld
<1>3. CASE ~CreateToken(c)
  <2>1. token.kind # "none"
    BY <1>3, CallsNeedToken DEF Alive
  <2>2. token'.kind = token.kind /\ UNCHANGED <<balance, supply>>
    BY <1>3
    DEF SettingsCall, DeleteToken, SetPaused, UpdateTokenInfo, UpdateTokenKeys,
        SetKyc, SetUnfrozen, Associate, Dissociate, settings, erc20, TypeOK, SettingsOK,
        TokenInfo
  <2> QED
    BY <1>1, <2>1, <2>2 DEF SupplyInv, SupplyIsHeld
<1> QED
  BY <1>2, <1>3

\* The serials of a list that names none twice are as many as it is long.
LEMMA ListedOnce ==
    ASSUME NEW serials \in SerialLists,
           \A i, j \in DOMAIN serials : serials[i] = serials[j] => i = j
    PROVE  LET all == {serials[i] : i \in DOMAIN serials}
           IN IsFiniteSet(all) /\ Cardinality(all) = Len(serials)
<1> DEFINE all == {serials[i] : i \in DOMAIN serials}
<1>1. CASE \E s \in Serials : serials = <<s>>
  <2>1. PICK s \in Serials : serials = <<s>>
    BY <1>1
  <2>2. all = {s} /\ Len(serials) = 1
    BY <2>1
  <2> QED
    BY <2>2, FS_Singleton
<1>2. CASE \E s, t \in Serials : serials = <<s, t>>
  <2>1. PICK s \in Serials, t \in Serials : serials = <<s, t>>
    BY <1>2
  <2>2. all = {s} \cup {t} /\ Len(serials) = 2
    BY <2>1
  <2>3. s # t
    BY <2>1
  <2>4. t \notin {s} /\ IsFiniteSet({s}) /\ Cardinality({s}) = 1
    BY <2>3, FS_Singleton
  <2>5. IsFiniteSet({s} \cup {t}) /\ Cardinality({s} \cup {t}) = 1 + 1
    BY <2>4, FS_AddElement
  <2> QED
    BY <2>2, <2>5
<1> QED
  BY <1>1, <1>2 DEF SerialLists

\* Mint and burn of NFTs, and their transfers.
LEMMA NftKeepsSupply ==
    ASSUME TypeOK, BookInv, SupplyInv, NEW c \in Accounts, NftCall(c)
    PROVE  SupplyInv'
<1>1. token' = token /\ UNCHANGED <<balance, supply>> /\ token.kind # "none"
  BY NftFrame DEF NftCall, IsNonFungible, settings, erc20
<1>2. /\ minted \in Nat /\ burned \in Int /\ Nobody \notin Accounts
      /\ owner \in [Serials -> Accounts \cup {Nobody}] /\ token.treasury \in Accounts
  BY <1>1, AddressesAssumption DEF TypeOK, Erc721OK, SettingsOK
<1>3. IsFiniteSet(Owned) /\ Cardinality(Owned) \in Nat /\ minted - burned = Cardinality(Owned)
  BY OwnedFinite, FS_CardinalityType DEF Owned, SupplyInv, SupplyIsHeld
<1>4. minted' - burned' = Cardinality(Owned')
  <2>1. CASE MintNft(c)
    <3> DEFINE s == minted + 1
    <3>1. s \in Serials /\ s > minted /\ minted' = s /\ burned' = burned
      BY <1>2, <2>1, BoundsAssumption DEF MintNft, Serials
    <3>2. owner' = [owner EXCEPT ![s] = token.treasury] /\ owner[s] = Nobody
      BY <2>1, <3>1 DEF MintNft, BookInv
    <3>3. Owned' = Owned \cup {s} /\ s \notin Owned
      BY <1>2, <3>1, <3>2 DEF Owned
    <3>4. Cardinality(Owned') = Cardinality(Owned) + 1
      BY <1>3, <3>3, FS_AddElement
    <3> QED
      BY <1>2, <1>3, <3>1, <3>4
  <2>2. ASSUME NEW serials \in SerialLists, BurnNft(c, serials)
        PROVE  minted' - burned' = Cardinality(Owned')
    <3> DEFINE all == {serials[i] : i \in DOMAIN serials}
    <3>1. /\ \A s \in all : owner[s] # Nobody
          /\ \A i, j \in DOMAIN serials : serials[i] = serials[j] => i = j
          /\ burned' = burned + Len(serials) /\ minted' = minted
          /\ owner' = [s \in Serials |-> IF s \in all THEN Nobody ELSE owner[s]]
      BY <2>2 DEF BurnNft
    <3>2. IsFiniteSet(all) /\ Cardinality(all) = Len(serials)
      BY <3>1, ListedOnce
    <3>3. all \subseteq Serials
      BY TypeOfLists
    <3> HIDE DEF all
    <3>4. Owned' = Owned \ all /\ Owned \cap all = all
      BY <1>2, <3>1, <3>3 DEF Owned
    <3>5. Cardinality(Owned \ all) = Cardinality(Owned) - Cardinality(Owned \cap all)
      BY <1>3, FS_Difference
    <3>6. Len(serials) \in Nat
      BY TypeOfLists
    <3>7. Cardinality(Owned') = Cardinality(Owned) - Len(serials)
      BY <3>2, <3>4, <3>5
    <3> QED
      BY <1>2, <1>3, <3>1, <3>6, <3>7
  <2>3. ASSUME NEW from \in Accounts, NEW to \in Accounts, NEW s \in Serials,
               \/ MockTransferNft(c, from, to, s)
               \/ TransferNft(c, from, to, s)
               \/ SafeTransferNft(c, from, to, s)
        PROVE  minted' - burned' = Cardinality(Owned')
    <3>1. /\ minted' = minted /\ burned' = burned
          /\ \/ owner' = owner
             \/ owner[s] = from /\ owner' = [owner EXCEPT ![s] = to]
      BY <2>3 DEF MockTransferNft, TransferNft, SafeTransferNft, NftMoved
    <3>2. Owned' = Owned
      BY <1>2, <3>1 DEF Owned
    <3> QED
      BY <1>3, <3>1, <3>2
  <2>4. ASSUME \/ \E a, serials : WipeNft(c, a, serials)
               \/ \E m, to, s : ApproveNft(c, m, to, s)
               \/ \E m, a, flag : SetApprovalForAll(c, m, a, flag)
        PROVE  minted' - burned' = Cardinality(Owned')
    <3>1. minted' = minted /\ burned' = burned /\ owner' = owner
      BY <2>4 DEF WipeNft, ApproveNft, SetApprovalForAll, erc721
    <3> QED
      BY <1>3, <3>1 DEF Owned
  <2> QED
    BY <2>1, <2>2, <2>3, <2>4 DEF NftCall, Holders
<1> QED
  BY <1>1, <1>4 DEF SupplyInv, SupplyIsHeld, Owned

LEMMA SupplyInvariance == Spec => []SupplyInv
<1>1. Init => SupplyInv
  <2> SUFFICES ASSUME Init PROVE SupplyInv
    OBVIOUS
  <2>1. SumFunction(balance) = 0 /\ balance = [a \in Accounts |-> 0]
    BY SumOfZeros, AddressesAssumption DEF Init
  <2>2. {s \in Serials : owner[s] # Nobody} = {}
    BY DEF Init
  <2> QED
    BY <2>1, <2>2, FS_EmptySet DEF Init, SupplyInv, SupplyIsHeld
<1>2. TypeOK /\ TypeOK' /\ BookInv /\ SupplyInv /\ [Next]_vars => SupplyInv'
  <2> SUFFICES ASSUME TypeOK, TypeOK', BookInv, SupplyInv, [Next]_vars PROVE SupplyInv'
    OBVIOUS
  <2>1. CASE UNCHANGED vars
    BY <2>1 DEF vars, settings, erc20, erc721, SupplyInv, SupplyIsHeld
  <2> QED
    BY <2>1, SettingsKeepSupply, FungibleKeepsSupply, NftKeepsSupply DEF Next
<1> QED
  BY <1>1, <1>2, TypeCorrect, BookInvariant, PTL DEF Spec

\* The total supply is what the accounts hold, whatever is minted, burnt in
\* lists, wiped and transferred through either face of the token.
THEOREM SupplyHeld == Spec => []SupplyIsHeld
<1>1. SupplyInv => SupplyIsHeld
  BY DEF SupplyInv
<1> QED
  BY <1>1, SupplyInvariance, PTL

-----------------------------------------------------------------------------
(***************************************************************************)
(* The ERC-20 token behind the two faces.                                  *)
(***************************************************************************)
\* A creation mints the initial supply; other settings are not the token's.
LEMMA SettingsRefine ==
    ASSUME TypeOK, SupplyInv, NEW c \in Accounts, SettingsCall(c), sender' = c
    PROVE  Fungible!ENext \/ UNCHANGED erc20
<1>1. CASE CreateToken(c)
  <2>1. PICK r \in Creations :
          /\ supply' = IF r.kind = "fungible" THEN r.initial ELSE 0
          /\ balance' = [balance EXCEPT ![r.treasury] = supply']
    BY <1>1 DEF CreateToken
  <2>2. r.treasury \in Accounts /\ supply' \in Nat
    BY <2>1, CreationsAssumption, BoundsAssumption
  <2>3. balance = [a \in Accounts |-> 0] /\ supply = 0
    BY <1>1, SumOfZeros, AddressesAssumption DEF CreateToken, SupplyInv, SupplyIsHeld
  <2>4. supply' - supply >= 0 /\ supply' = balance[r.treasury] + (supply' - supply)
    <3>1. balance[r.treasury] = 0 /\ supply = 0
      BY <2>2, <2>3
    <3>2. \A m \in Nat : m - 0 >= 0 /\ m = 0 + (m - 0)
      OBVIOUS
    <3> QED
      BY <2>2, <3>1, <3>2, Zenon
  <2>5. UNCHANGED allowance
    BY SettingsFrame
  <2>6. Fungible!Mint(r.treasury)
    BY <2>1, <2>4, <2>5, Zenon DEF Fungible!Mint
  <2> QED
    BY <2>2, <2>6 DEF Fungible!ENext
<1>2. CASE ~CreateToken(c)
  BY <1>2
  DEF SettingsCall, DeleteToken, SetPaused, UpdateTokenInfo, UpdateTokenKeys,
      SetKyc, SetUnfrozen, Associate, Dissociate
<1> QED
  BY <1>1, <1>2

\* Tokens move by a call of their holder, through either face, or out of an
\* allowance.
LEMMA TransferRefines ==
    ASSUME Erc20OK, NEW c \in Accounts, sender' = c,
           NEW from \in Accounts, NEW to \in Accounts, NEW n \in Amounts,
           balance[from] >= n, balance' = Moved(from, to, n), UNCHANGED supply,
           (from = c /\ UNCHANGED allowance) \/ SpendAllowance(from, c, n)
    PROVE  Fungible!ENext
<1>1. n \in Nat /\ n \in 0..balance[from]
  BY BoundsAssumption DEF Erc20OK
<1>2. ASSUME SpendAllowance(from, c, n) PROVE Fungible!Spend(from, n)
  <2>1. CASE allowance[from][c] = Unlimited
    BY <1>2, <2>1 DEF SpendAllowance, Fungible!Spend
  <2>2. CASE allowance[from][c] # Unlimited
    BY <1>2, <2>2, SpentFinite DEF Fungible!Spend
  <2> QED
    BY <2>1, <2>2
<1>3. Fungible!Transfer(from, to)
  BY <1>1, <1>2 DEF Moved, Fungible!Transfer
<1> QED
  BY <1>3 DEF Fungible!ENext

LEMMA FungibleRefines ==
    ASSUME TypeOK, NEW c \in Accounts, FungibleCall(c), sender' = c
    PROVE  Fungible!ENext
<1>1. Erc20OK /\ token.treasury \in Accounts
  BY DEF FungibleCall, IsFungible, TypeOK, SettingsOK
<1>2. ASSUME NEW n \in Amounts, MintFungible(c, n) PROVE Fungible!ENext
  <2>1. supply' - supply = n /\ supply' - supply >= 0
    BY <1>1, <1>2, BoundsAssumption DEF MintFungible, Erc20OK
  <2>2. balance' = [balance EXCEPT ![token.treasury] = @ + n] /\ UNCHANGED allowance
    BY <1>2 DEF MintFungible
  <2>3. Fungible!Mint(token.treasury)
    BY <2>1, <2>2, Zenon DEF Fungible!Mint
  <2> QED
    BY <1>1, <2>3 DEF Fungible!ENext
<1>3. ASSUME NEW n \in Amounts, BurnFungible(c, n) PROVE Fungible!ENext
  <2>1. c = token.treasury
    BY <1>3, OnlyTreasuryBurns DEF BurnFungible
  <2>2. n \in 0..balance[c]
    BY <1>1, <1>3, <2>1, BoundsAssumption DEF BurnFungible, Erc20OK
  <2>3. Fungible!Burn
    BY <1>3, <2>1, <2>2 DEF BurnFungible, Fungible!Burn
  <2> QED
    BY <2>3 DEF Fungible!ENext
<1>4. ASSUME NEW from \in Accounts, NEW to \in Accounts, NEW n \in Amounts,
             \/ from = c /\ Transfer(c, to, n)
             \/ MockTransfer(c, from, to, n) \/ TransferFrom(c, from, to, n)
      PROVE  Fungible!ENext
  BY <1>1, <1>4, TransferRefines DEF Transfer, MockTransfer, TransferFrom
<1>5. ASSUME NEW m, NEW s \in Accounts, NEW n \in Approvals, Approve(c, m, s, n)
      PROVE  Fungible!ENext
  <2>1. allowance' = [allowance EXCEPT ![c][s] = n] /\ UNCHANGED <<balance, supply>>
        /\ n \in Nat \cup {Unlimited}
    BY <1>5, ApprovalsAssumption DEF Approve
  <2>2. allowance'[c][s] = n
    BY <1>1, <2>1 DEF Erc20OK
  <2>3. Fungible!Approve(s)
    BY <2>1, <2>2 DEF Fungible!Approve
  <2> QED
    BY <2>3 DEF Fungible!ENext
<1> QED
  BY <1>2, <1>3, <1>4, <1>5 DEF FungibleCall, Holders, Friends

\* Whichever face of a fungible token is called, and whatever the prechecks let
\* pass, the token behind them is an ERC-20 token: nobody moves, approves or burns
\* but what is his or approved to him, and a transfer keeps the supply.
THEOREM MockImplementsErc20 == Spec => FungibleIsErc20
<1>1. Init => Fungible!EInit
  BY DEF Init, Fungible!EInit
<1>2. TypeOK /\ SupplyInv /\ [Next]_vars => [Fungible!ENext]_(Fungible!tokens)
  <2> SUFFICES ASSUME TypeOK, SupplyInv, [Next]_vars, ~UNCHANGED erc20
               PROVE  Fungible!ENext
    BY DEF Fungible!tokens, erc20
  <2>1. PICK c \in Accounts :
           (SettingsCall(c) \/ FungibleCall(c) \/ NftCall(c)) /\ sender' = c
    BY DEF Next, vars
  <2>2. ~NftCall(c)
    BY NftFrame
  <2> QED
    BY <2>1, <2>2, SettingsRefine, FungibleRefines
<1> QED
  BY <1>1, <1>2, TypeCorrect, SupplyInvariance, PTL
  DEF Spec, FungibleIsErc20, Fungible!ESpec
=============================================================================
