------------------------ MODULE MCWithdrawalPipeline ------------------------
(* Small instances of WithdrawalPipeline. *)
EXTENDS WithdrawalPipeline, TLC

CONSTANTS u1, u2

\* Either output alone pays for any withdrawal.
OneInput == [w \in Withdrawals |-> {{u1}, {u2}}]
\* The first withdrawal leaves change, the second takes an output whole.
SecondExact == [w \in Withdrawals |-> IF w = 1 THEN {{u1}, {u2}} ELSE {}]
\* Both leave change.
NoExact == [w \in Withdrawals |-> {}]

\* Where the instance does not tell the two outputs apart.
UtxoSymmetry == Permutations({u1, u2})

\* Two withdrawals compete for the outputs, or one withdrawal meets every
\* fault: the product of the two is not explored.
OneSubject ==
    1 \in burned =>
        /\ 0 \in burned /\ faults = 0 /\ \A t \in DOMAIN net : net[t] <= 0
        /\ completing = {} /\ onchain = {}
        /\ \A o \in Operators, w \in Withdrawals : payout[o][w].attempt = 0
=============================================================================
