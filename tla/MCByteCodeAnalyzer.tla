------------------------- MODULE MCByteCodeAnalyzer -------------------------
(* An instance of ByteCodeAnalyzer for TLC: a token, a contract that follows two
   standards, one that follows the standard without calls, and one whose object
   may lack its bytecode. *)
EXTENDS ByteCodeAnalyzer

FourPage == <<11, 12, 13, 14>>

ThreeStandards == <<"erc20", "erc721", "erc1155">>

TwoFields ==
    [s \in ToSet(ThreeStandards) |->
        CASE s = "erc20" -> {"name", "totalSupply"}
          [] s = "erc721" -> {"name"}
          [] OTHER -> {}]

FourMatches ==
    [c \in ToSet(FourPage) |->
        CASE c = 11 -> {"erc20"}
          [] c = 12 -> {"erc20", "erc721"}
          [] c = 13 -> {"erc1155", "erc721"}
          [] OTHER -> {"erc20"}]

OneUndecodable == {<<13, "erc721">>}
=============================================================================
