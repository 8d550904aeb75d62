-------------------------- MODULE MCSignerService --------------------------
(* A small instance of SignerService: one deposit, one governance action    *)
(* with two rival proposals, the operator's tool and one other peer.        *)
EXTENDS SignerService

CONSTANTS d1, raise, a, b, admin, peer
=============================================================================
