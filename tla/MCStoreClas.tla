---------------------------- MODULE MCStoreClas ----------------------------
(* StoreClas for TLC: bundles of one and of two octets. *)
EXTENDS StoreClas

CONSTANTS b1, b2

Bodies == [b \in Bundles |-> IF b = b1 THEN <<251>> ELSE <<7, 160>>]
Modes == {<<TRUE, "b64">>, <<FALSE, "attach">>, <<TRUE, "raw">>}

\* The proofs need it of mail.
ASSUME FaithfulAssumption == MailFaithful
=============================================================================
