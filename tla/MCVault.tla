------------------------------ MODULE MCVault ------------------------------
(* Three root records: one of vault v1, the one after its epochs have     *)
(* been rotated, and one of vault v2.                                      *)
EXTENDS Vault

CONSTANTS h1, before, after, other, v1, v2, e1, e2, locked,
          catalog, own, codec, unregistered, native, l1, d1

MCVaultOf  == [r \in {before, after, other} |-> IF r = other THEN v2 ELSE v1]
MCEpochsOf == [r \in {before, after, other} |-> IF r = after THEN {e1, e2} ELSE {e1}]
MCActiveOf == [r \in {before, after, other} |-> IF r = after THEN e2 ELSE e1]
MCCatalogSlot == [u \in {v1, v2} |-> catalog]
=============================================================================
