--------------------------- MODULE SignerPromise ---------------------------
(***************************************************************************)
(* What a validator's signer promises the federation, without the service  *)
(* that keeps the promise: it signs a mint or a payout only if its own     *)
(* record of the chain held that very message, and a governance proposal   *)
(* only if its operator's approval of that very proposal was on file,      *)
(* unexpired and of the epoch it signs under; and while the process runs,  *)
(* no second proposal for an action it has signed one for.  The check and  *)
(* the signature are two moments (a pledge and a signature): the file and  *)
(* the record may change in between.                                       *)
(***************************************************************************)
CONSTANTS Nothing, Subjects, Values, Actions, Epochs

VARIABLES
    record,     \* [Subjects -> the message the validator's own database holds]
    consent,    \* [Actions -> the proposal the operator approves, if any]
    pledged,    \* what a request in progress has been found worthy of
    given       \* the proposals signed since the process started

promiseVars == <<record, consent, pledged, given>>

Mints == [kind : {"mint"}, subject : Subjects, value : Values, epoch : Epochs]
Proposals == [kind : {"governance"}, subject : Actions, value : Values, epoch : Epochs]

Init ==
    /\ record \in [Subjects -> Values \cup {Nothing}]
    /\ consent \in [Actions -> [value : Values, epoch : Epochs, expired : BOOLEAN] \cup {Nothing}]
    /\ pledged = {} /\ given = {}

(* The chain observations and the operator's mind change on their own. *)
Environment == UNCHANGED <<pledged, given>>

Worthy(m) ==
    \/ m \in Mints /\ record[m.subject] = m.value
    \/ /\ m \in Proposals
       /\ consent[m.subject] = [value |-> m.value, epoch |-> m.epoch, expired |-> FALSE]

Pledge ==
    /\ \E m \in Mints \cup Proposals : Worthy(m) /\ pledged' = pledged \cup {m}
    /\ UNCHANGED <<record, consent, given>>

Drop == pledged' \subseteq pledged /\ UNCHANGED <<record, consent, given>>

Equivocates(m) ==
    \E g \in given : g.subject = m.subject /\ g.value # m.value

Give ==
    /\ \E m \in pledged \cap Proposals :
          /\ ~Equivocates(m)
          /\ given' = given \cup {m}
          /\ pledged' \in {pledged, pledged \ {m}}
    /\ UNCHANGED <<record, consent>>

Restart == pledged' = {} /\ given' = {} /\ UNCHANGED <<record, consent>>

Next == Environment \/ Pledge \/ Drop \/ Give \/ Restart

Spec == Init /\ [][Next]_promiseVars
=============================================================================
