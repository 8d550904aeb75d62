--------------------------- MODULE MCBridgeProgram ---------------------------
(* Small instances of BridgeProgram with TokenMetadata. *)
EXTENDS TokenMetadata, TLC

CONSTANTS k1, k2, k3, alice, bob, o1, o2, d1, t1, t2,
          wGLC, other, here, there, long

\* Governance: a 2-of-2 federation that may rotate to an overlapping set and
\* onwards, and lists, thresholds, caps and timelocks that must be refused.
GovernanceLists == {<<k1, k2>>, <<k2, k3>>, <<k2, k2>>}
GovernanceCoalitions == {{k1, k2}, {k2, k3}}

\* Value: two outputs, one of them signed for with two different amounts.
ValueDeposits ==
    {[outpoint |-> o1, amount |-> 2, recipient |-> alice],
     [outpoint |-> o1, amount |-> 1, recipient |-> bob],
     [outpoint |-> o2, amount |-> 2, recipient |-> bob]}

\* A behaviour is explored about metadata, about governance or about value, not
\* about a product of them: metadata has the whole deployment before it, and once
\* value moves (or is signed for) the federation was set up one way and time and
\* the admin stay put but for one rotation.
ValueTouched ==
    \/ atas # {}
    \/ \E m \in SignedMessages : m.type \in {"deposit", "completion"}
MetadataTouched == metadata.exists \/ writes # {}
OneSubject ==
    IF MetadataTouched
    THEN /\ signatures = {} /\ atas = {} /\ now = 0 /\ ~config.paused
         /\ config.max_wrapped_supply = 3 /\ validatorSet.validators = <<k1, k2>>
    ELSE IF ValueTouched
    THEN /\ config.max_wrapped_supply = 3 /\ config.timelock = 1
         /\ config.admin = alice /\ config.pending_admin = None
         /\ now <= 1
         /\ validatorSet.validators = IF validatorSet.epoch = 0 THEN <<k1, k2>> ELSE <<k2, k3>>
         /\ pending.action # "raise"
         /\ \A m \in SignedMessages : m.type \notin {"raise", "cancel"}
         /\ \A m \in SignedMessages : m.type = "rotation" => m.threshold = 2 /\ m.validators = <<k2, k3>>
         /\ Cardinality(SignedMessages) <= 3
    ELSE Cardinality(SignedMessages) <= 2 /\ ~config.paused
=============================================================================
