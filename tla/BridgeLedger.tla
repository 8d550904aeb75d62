----------------------------- MODULE BridgeLedger -----------------------------
(***************************************************************************)
(* What the bridge's program promises about value, without federations,    *)
(* proofs, epochs, timelocks and keys.  An output of the Goldcoin vault is *)
(* credited at most once, and only within the limit; what is held passes   *)
(* between holders, is destroyed, or is redeemed; what is redeemed is owed *)
(* to one address and is settled once.  Nothing of the sort happens while  *)
(* the bridge is paused, but holders go on with what they hold.            *)
(***************************************************************************)
EXTENDS Integers, FiniteSetsExt

CONSTANTS
    Wallets,    \* who may hold wrapped GLC
    Outpoints,  \* outputs of the vault
    Dests,      \* addresses that may be owed
    Indices,    \* numbers of obligations
    Amounts,    \* what one step may move
    Payouts,    \* what may settle an obligation
    Unpaid

VARIABLES
    credited,   \* set of [outpoint, amount, recipient]
    held,       \* per wallet
    owed,       \* obligations, by index
    limits      \* [paused, cap], which others set

ledgerVars == <<credited, held, owed, limits>>

Held(h) == MapThenSumSet(LAMBDA w : h[w], Wallets)

Init ==
    /\ credited = {}
    /\ held = [w \in Wallets |-> 0]
    /\ DOMAIN owed = {}

Credit(o, a, r) ==
    /\ ~limits.paused
    /\ Held(held) + a <= limits.cap
    /\ \A c \in credited : c.outpoint # o
    /\ credited' = credited \cup {[outpoint |-> o, amount |-> a, recipient |-> r]}
    /\ held' = [held EXCEPT ![r] = @ + a]
    /\ UNCHANGED <<owed, limits>>

Redeem(i, w, a, d) ==
    /\ ~limits.paused
    /\ a <= held[w]
    /\ held' = [held EXCEPT ![w] = @ - a]
    /\ owed' = [j \in DOMAIN owed \cup {i} |->
                  IF j = i THEN [amount |-> a, owner |-> w, dest |-> d, payout |-> Unpaid]
                  ELSE owed[j]]
    /\ UNCHANGED <<credited, limits>>

Settle(i, p) ==
    /\ ~limits.paused
    /\ owed[i].payout = Unpaid
    /\ owed' = [owed EXCEPT ![i].payout = p]
    /\ UNCHANGED <<credited, held, limits>>

Transfer(f, t, a) ==
    /\ a <= held[f]
    /\ held' = [held EXCEPT ![f] = @ - a, ![t] = @ + a]
    /\ UNCHANGED <<credited, owed, limits>>

Destroy(w, a) ==
    /\ a <= held[w]
    /\ held' = [held EXCEPT ![w] = @ - a]
    /\ UNCHANGED <<credited, owed, limits>>

LimitsChange == UNCHANGED <<credited, held, owed>>

Next ==
    \/ \E o \in Outpoints, a \in Amounts, r \in Wallets : Credit(o, a, r)
    \/ \E i \in Indices \ DOMAIN owed : \E w \in Wallets, a \in Amounts, d \in Dests :
          Redeem(i, w, a, d)
    \/ \E i \in DOMAIN owed : \E p \in Payouts \ {Unpaid} : Settle(i, p)
    \/ \E f, t \in Wallets, a \in Amounts : f # t /\ Transfer(f, t, a)
    \/ \E w \in Wallets, a \in Amounts : Destroy(w, a)
    \/ LimitsChange

Spec == Init /\ [][Next]_ledgerVars
=============================================================================
