----------------------------- MODULE MCHtsMock -----------------------------
(* Instances of HtsMock for TLC.  alice creates the token; each creation has
   some of the keys, so that the runs take the features apart. *)
EXTENDS HtsMock

Keys(held) == [r \in Roles |-> IF r \in DOMAIN held THEN held[r] ELSE Nobody]

Created(kind, held, freezeDefault, kycDefault) ==
    [kind |-> kind, treasury |-> "alice", keys |-> Keys(held),
     freezeDefault |-> freezeDefault, kycDefault |-> kycDefault,
     initial |-> IF kind = "fungible" THEN 1 ELSE 0]

ManyCreations ==
    {Created("fungible", [ADMIN |-> "alice", SUPPLY |-> "alice"], FALSE, FALSE),
     Created("fungible", [SUPPLY |-> "alice", FREEZE |-> "bob"], TRUE, FALSE),
     Created("fungible", [KYC |-> "bob", PAUSE |-> "alice"], FALSE, TRUE),
     Created("nft", [ADMIN |-> "alice", SUPPLY |-> "bob"], FALSE, FALSE),
     Created("nft", [SUPPLY |-> "alice", WIPE |-> "bob", FREEZE |-> "bob"],
             TRUE, FALSE)}

SomeGrants == {<<"alice", "carol">>, <<"bob", "alice">>}

Handovers == {[SUPPLY |-> "bob"]}
=============================================================================
