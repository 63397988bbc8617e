--------------------------- MODULE MCDeliveryLedger ---------------------------
(* An instance of DeliveryLedger for TLC: one open plan and a blocked one,   *)
(* whose attempts compete, and remote identifiers that conflict.             *)
EXTENDS DeliveryLedger, TLC

CONSTANTS k1, kBlocked, a1, a2, a3, r1, r2, odd

MCLogicalKey == {k1, kBlocked}
MCBlockedKey == {kBlocked}
MCAttempt == {a1, a2, a3}
MCRemoteId == {r1, r2, odd}
MCOddId == {odd}

Symmetry == Permutations(MCAttempt)
=============================================================================
