-------------------------- MODULE MCDepositPipeline --------------------------
(* Small instances of DepositPipeline. *)
EXTENDS DepositPipeline, TLC

CONSTANTS g, a1, a2, a3, b1, b2, b3, b4, d1, d2, d3, d4, d5, d6

\* Two branches from the genesis block: b can overtake a at every height, and
\* from a3 only by a reorg of depth three.
DeepBlocks == {g, a1, a2, a3, b1, b2, b3, b4}
DeepPath ==
    g :> <<g>> @@ a1 :> <<g, a1>> @@ a2 :> <<g, a1, a2>> @@ a3 :> <<g, a1, a2, a3>>
    @@ b1 :> <<g, b1>> @@ b2 :> <<g, b1, b2>> @@ b3 :> <<g, b1, b2, b3>>
    @@ b4 :> <<g, b1, b2, b3, b4>>

\* The same, one block shorter on each branch.
ForkBlocks == {g, a1, a2, b1, b2, b3}
ForkPath ==
    g :> <<g>> @@ a1 :> <<g, a1>> @@ a2 :> <<g, a1, a2>>
    @@ b1 :> <<g, b1>> @@ b2 :> <<g, b1, b2>> @@ b3 :> <<g, b1, b2, b3>>

Empty == [b \in Blocks |-> <<>>]
NoSpends == [b \in Blocks |-> {}]
UnitAmounts == [d \in Deposits |-> 1]

\* d1 is in the first block of branch a and again in the second of branch b.
ForkVault == [Empty EXCEPT ![a1] = <<d1>>, ![b2] = <<d1>>]
\* d1 is in the first block of branch a and again in the last of branch b.
LateVault == [Empty EXCEPT ![a1] = <<d1>>, ![b3] = <<d1>>]
\* Branch a carries both deposits; branch b carries d1 again and drops d2.
TwoVault == [Empty EXCEPT ![a1] = <<d1, d2>>, ![b2] = <<d1>>]
\* The same, and payments that are set aside in the second block of branch a.
MixedVault == [TwoVault EXCEPT ![a2] = <<d3, d4, d5, d6>>]
\* Branch b's last block spends d1.
LastSpends == [NoSpends EXCEPT ![b4] = {d1}]

\* Branch a overtakes branch b again.
ReturnBlocks == {g, a1, a2, a3, b1, b2}
ReturnPath ==
    g :> <<g>> @@ a1 :> <<g, a1>> @@ a2 :> <<g, a1, a2>> @@ a3 :> <<g, a1, a2, a3>>
    @@ b1 :> <<g, b1>> @@ b2 :> <<g, b1, b2>>
ReturnVault == [Empty EXCEPT ![a1] = <<d1>>]

\* d3 has two bindings, d4 a short one, d5 is below the minimum, d6 above the
\* flat cap.  Once d1 is released the window has no room for d2, but for d1 in
\* another block.
OnePush == [d \in Deposits |-> <<32>>]
MixedPushes == [OnePush EXCEPT ![d3] = <<32, 32>>, ![d4] = <<20>>]
MixedAmounts == d1 :> 1 @@ d2 :> 2 @@ d3 :> 1 @@ d4 :> 1 @@ d5 :> 0 @@ d6 :> 3

\* What may befall the relayer beside reorgs between ticks.  A behaviour is
\* explored with any two of them, not with all.
Damage == corrupt # {} \/ \E r \in Rows : row[r] = "IntegrityHalted"
Troubles ==
    [damage |-> Damage, fault |-> faults > 0 /\ ~Damage, reorg_in_tick |-> shaken,
     deep_reorg |-> node \in {a3, b4}, rotation |-> chainEpoch > 0, time |-> clock > 0,
     competitor |-> \E d \in claims : \A r \in Rows : r.deposit = d => artifact[r] = None]
TwoTroubles == Cardinality({t \in DOMAIN Troubles : Troubles[t]}) <= 2

\* Branch a does not overtake again once the indexer has left it: that is the
\* subject of MCDepositReturned.
NoReturn == node = a3 => \A r \in Rows : r.block \in {a1, a2} => row[r] # "Orphaned"
=============================================================================
