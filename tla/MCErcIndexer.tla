---------------------------- MODULE MCErcIndexer ----------------------------
(* Instances of ErcIndexer for TLC: two standards, contracts of either, both
   or none of them. *)
EXTENDS ErcIndexer

BothStd == {"erc20", "erc721"}

\* One and the same width: string order is numeric order.
SameWidthIds == 11..14

SameWidthKinds ==
    [i \in SameWidthIds |->
        CASE i = 11 -> {"erc20"}
          [] i = 12 -> {"erc20", "erc721"}
          [] i = 13 -> {}
          [] OTHER  -> {"erc20"}]

OldIds == {11, 12}

\* The numerals get one digit longer in the middle.
CrossingIds == {9, 10}

CrossingKinds == [i \in CrossingIds |-> {"erc20"}]
=============================================================================
