---- MODULE MCVaultSweep ----
(* Two peers, who guard the vault; amounts around the fees of 3 to 8 that  *)
(* a rate of 15 per kB gives, and around a byte's 256.                     *)
EXTENDS VaultSweep

CONSTANTS k0, k1, k2

MCPeers == <<k1, k2>>
MCFirstSets == [validators : {<<k1, k2>>}, threshold : {1, 2}]
MCRotations == {[validators |-> <<k2, k1>>, threshold |-> 2]}
MCVaultKeys == <<k1, k2>>
Swept == <<9, 12>>
MCVaults == {Swept, <<13, 9>>, <<14, 6>>, <<9, 9>>, <<7, 8>>, <<255, 256>>, <<5, 6, 8>>}

(* Governance and the vault are explored apart, but for a rotation that    *)
(* precedes whatever the vault does; and one of the vaults is swept, the   *)
(* others only pay.                                                        *)
Governed == tool # Resting \/ \E v \in Asked : consents[v] # {}
Sweeping == sweep # NoSweep \/ \E o \in Operators : history.staged[o] # {}
Touched == Sweeping \/ payout # NoPayout \/ amount # Swept
Rotated ==
    /\ set.epoch = 1 /\ tool = Resting /\ sent = {} /\ pending = None /\ cap = FirstCap
    /\ \A v \in Asked : \A m \in consents[v] : m.type = "rotation"
OneSubject ==
    /\ Governed /\ Touched => Rotated
    /\ Touched /\ set.epoch = 0 => set.threshold = 2
    /\ Sweeping => SubSeq(amount, 1, 2) = Swept
====
