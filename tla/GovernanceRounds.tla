-------------------------- MODULE GovernanceRounds --------------------------
(***************************************************************************)
(* How the federation decides: each operator stages an approval for its    *)
(* own signer with glc-admin, one of them runs a round that asks every     *)
(* configured peer for its signature (p2p/collector.rs), and what enough   *)
(* of them signed is sent to the program (bin/glc-admin.rs), which         *)
(* verifies it again (FederationProof).                                    *)
(*                                                                         *)
(* A round is cut at its awaits: the look at the pending action, the look  *)
(* at the validator set, every question to a peer.  A transaction that was *)
(* sent lands later, in any order, or never.  A signer decides as          *)
(* SignerPromise says; SignerService shows the service that keeps it.      *)
(*                                                                         *)
(* A proposal is the message the validators sign, of epoch 0 while the     *)
(* epoch is not known.  Etas are numbered: two actions queued at different *)
(* times have different etas.                                              *)
(***************************************************************************)
EXTENDS FederationProof, SequencesExt

CONSTANTS
    Peers,          \* GLC_FEDERATION_PEERS of the one who runs the rounds, a sequence
    Seeds,          \* where a round may begin to ask
    FirstSets,      \* validator sets there may be at the start
    Rotations,      \* sets the operators may want to rotate to
    Raises,         \* caps they may want
    FirstCap,
    Ahead,          \* how many epochs ahead an operator may approve
    None,
    MaxQueued,      \* bound: actions queued
    MaxSent,        \* bound: transactions sent and not yet decided
    MaxChanges      \* bound: what operators, restarts and failures change

Asked == ToSet(Peers)
Actions == {"rotation", "raise", "cancel"}

Messages ==
    [type : {"rotation"}, epoch : Nat, threshold : Nat, validators : Seq(Keys)]
    \cup [type : {"raise"}, epoch : Nat, newMax : Nat]
    \cup [type : {"cancel"}, epoch : Nat, action : {"rotation", "raise"}, eta : 1..MaxQueued]
Approvals == [message : Messages, expired : BOOLEAN]
PendingActions == [message : Messages, eta : 1..MaxQueued, ripe : BOOLEAN]

ASSUME RoundAssumption ==
    /\ Peers \in Seq(Keys \ {DefaultKey})
    /\ IsInjective(Peers)
    /\ Seeds \subseteq Nat
    /\ FirstCap \in Nat /\ Raises \subseteq Nat /\ Ahead \subseteq Nat
    /\ MaxQueued \in Nat /\ MaxSent \in Nat /\ MaxChanges \in Nat
    /\ FirstSets \cup Rotations \subseteq [validators : Seq(Keys), threshold : Nat]
    /\ \A s \in FirstSets : validate_validator_set(s.validators, s.threshold)
    /\ None \notin Approvals \cup PendingActions

VARIABLES
    set,        \* ValidatorSet on Solana
    cap,        \* max_wrapped_supply
    pending,    \* PendingGovernanceAction, or None
    queued,     \* how many actions were queued
    approvals,  \* each operator's approvals file
    signed,     \* each signer's GovernanceView.signed
    tool,       \* the round in progress
    sent,       \* transactions sent and not yet decided
    consents,   \* history: what each operator has ever staged
    changes

program == <<set, cap, pending, queued>>
governanceVars == <<set, cap, pending, queued, approvals, signed, tool, sent, consents, changes>>

-----------------------------------------------------------------------------
At(m, e) == [m EXCEPT !.epoch = e]
commitment_of(m) == At(m, 0)

RotationProposals == {rotation_message(0, r.threshold, r.validators) : r \in Rotations}
RaiseProposals == {raise_message(0, c) : c \in Raises}
CancelProposals == {cancel_message(0, a, n) : a \in {"rotation", "raise"}, n \in 1..MaxQueued}
Proposals == RotationProposals \cup RaiseProposals \cup CancelProposals

NoApproval == [a \in Actions |-> None]
Resting == [pc |-> "rest", m |-> None, threshold |-> 0, todo |-> <<>>, signatures |-> <<>>]
Change == changes < MaxChanges /\ changes' = changes + 1

GovernanceInit ==
    /\ \E s \in FirstSets :
          set = [validators |-> s.validators, threshold |-> s.threshold, epoch |-> 0]
    /\ cap = FirstCap
    /\ pending = None
    /\ queued = 0
    /\ approvals = [v \in Asked |-> NoApproval]
    /\ signed = [v \in Asked |-> NoApproval]
    /\ tool = Resting
    /\ sent = {}
    /\ consents = [v \in Asked |-> {}]
    /\ changes = 0

-----------------------------------------------------------------------------
(* The operators' own decisions.                                           *)

stage(v, m) ==
    /\ approvals' = [approvals EXCEPT ![v][m.type] = [message |-> m, expired |-> FALSE]]
    /\ consents' = [consents EXCEPT ![v] = @ \cup {m}]
    /\ Change
    /\ UNCHANGED <<program, signed, tool, sent>>

(* approve-rotation, approve-tvl-raise and approve-cancel check what they  *)
(* can without the chain, and the operator types the epoch.                *)
approve_rotation(v, e) ==
    \E m \in RotationProposals : 1 <= m.threshold /\ m.threshold <= Len(m.validators) /\ stage(v, At(m, e))
approve_tvl_raise(v, e) == \E m \in RaiseProposals : m.newMax # 0 /\ stage(v, At(m, e))
approve_cancel(v, e) ==
    /\ pending # None
    /\ stage(v, cancel_message(e, pending.message.type, pending.eta))

revoke_approval(v, a) ==
    /\ approvals[v][a] # None
    /\ approvals' = [approvals EXCEPT ![v][a] = None]
    /\ Change
    /\ UNCHANGED <<program, signed, tool, sent, consents>>

ApprovalExpires(v, a) ==
    /\ approvals[v][a] # None /\ ~approvals[v][a].expired
    /\ approvals' = [approvals EXCEPT ![v][a].expired = TRUE]
    /\ Change
    /\ UNCHANGED <<program, signed, tool, sent, consents>>

SignerRestarts(v) ==
    /\ signed[v] # NoApproval
    /\ signed' = [signed EXCEPT ![v] = NoApproval]
    /\ Change
    /\ UNCHANGED <<program, approvals, tool, sent, consents>>

(* The admin key alone lowers the cap. *)
lower_tvl_cap(c) ==
    /\ c # 0 /\ c < cap
    /\ cap' = c
    /\ Change
    /\ UNCHANGED <<set, pending, queued, approvals, signed, tool, sent, consents>>

-----------------------------------------------------------------------------
(* A round.                                                                *)

(* The queued action as the tool decodes it: none if there is no account.  *)
PendingActionSnapshot ==
    IF pending = None THEN None
    ELSE [action |-> pending.message.type, eta |-> pending.eta,
          proposed_under_epoch |-> pending.message.epoch, ripe |-> pending.ripe]

can_propose == PendingActionSnapshot = None

Begin(m) ==
    /\ tool.pc = "rest"
    /\ tool' = [Resting EXCEPT !.pc = "begun", !.m = m]
    /\ UNCHANGED <<program, approvals, signed, sent, consents, changes>>

submit_rotation(m) ==
    /\ m \in RotationProposals /\ can_propose
    /\ 1 <= m.threshold /\ m.threshold <= Len(m.validators)
    /\ Begin(m)

submit_tvl_raise(m) == m \in RaiseProposals /\ m.newMax # 0 /\ can_propose /\ Begin(m)

(* What is cancelled is read from the chain, never typed. *)
cancel_target == cancel_message(0, PendingActionSnapshot.action, PendingActionSnapshot.eta)
submit_cancel(m) == PendingActionSnapshot # None /\ m = cancel_target /\ Begin(m)

(* Every peer, from the one the seed points at. *)
ask_order(peers, seed) ==
    [i \in 1..Len(peers) |-> peers[((seed + i - 1) % Len(peers)) + 1]]

(* The validator set is read, and fixes the epoch and how many are needed. *)
collect_governance ==
    /\ tool.pc = "begun"
    /\ \E s \in Seeds :
          tool' = [pc |-> "asking", m |-> At(tool.m, set.epoch), threshold |-> set.threshold,
                   todo |-> ask_order(Peers, s), signatures |-> <<>>]
    /\ UNCHANGED <<program, approvals, signed, sent, consents, changes>>

(* GovernanceView::approve. *)
Approved_of_any_epoch(v, m) ==
    /\ approvals[v][m.type] # None /\ ~approvals[v][m.type].expired
    /\ commitment_of(approvals[v][m.type].message) = commitment_of(m)
Approved(v, m) == approvals[v][m.type] = [message |-> m, expired |-> FALSE]
Willing(v, m) == Approved(v, m) /\ signed[v][m.type] \in {None, commitment_of(m)}

Head1 == Head(tool.todo)
Asking == tool.pc = "asking" /\ tool.todo # <<>>
Asked1(signatures) == tool' = [tool EXCEPT !.todo = Tail(@), !.signatures = signatures]

Sign(v, m) == signed' = [signed EXCEPT ![v][m.type] = commitment_of(m)]

(* The peer signs and the answer arrives.  A peer that has not seen a      *)
(* rotation yet may sign under the epoch it ended.                         *)
ask_governance ==
    /\ Asking /\ Willing(Head1, tool.m)
    /\ Sign(Head1, tool.m)
    /\ Asked1(Append(tool.signatures, Head1))
    /\ UNCHANGED <<program, approvals, sent, consents, changes>>

(* It refuses. *)
ask_refused ==
    /\ Asking /\ (~Willing(Head1, tool.m) \/ tool.m.epoch # set.epoch)
    /\ Asked1(tool.signatures)
    /\ UNCHANGED <<program, approvals, signed, sent, consents, changes>>

(* It is not reached, answers too late or as somebody else: the signature  *)
(* may have been given nevertheless.                                       *)
ask_unavailable ==
    /\ Asking
    /\ \/ UNCHANGED signed
       \/ Willing(Head1, tool.m) /\ Sign(Head1, tool.m)
    /\ Asked1(tool.signatures)
    /\ Change
    /\ UNCHANGED <<program, approvals, sent, consents>>

(* Every configured peer is asked, even once there are enough. *)
unique_signers == Cardinality(ToSet(tool.signatures))
more_than_enough == unique_signers > tool.threshold
enough_approvals == unique_signers >= tool.threshold

round_falls_short ==
    /\ tool.pc = "asking" /\ tool.todo = <<>> /\ ~enough_approvals
    /\ tool' = Resting
    /\ UNCHANGED <<program, approvals, signed, sent, consents, changes>>

(* The transaction: what is asked of the program, and the proof. *)
Instructions(m, signatures) == [m |-> m, signatures |-> signatures]

submit ==
    /\ tool.pc = "asking" /\ tool.todo = <<>> /\ enough_approvals
    /\ Cardinality(sent) < MaxSent
    /\ sent' = sent \cup {Instructions(tool.m, tool.signatures)}
    /\ tool' = Resting
    /\ UNCHANGED <<program, approvals, signed, consents, changes>>

(* execute-rotation and execute-tvl-raise need no signatures. *)
can_execute(a) ==
    /\ PendingActionSnapshot # None
    /\ PendingActionSnapshot.action = a
    /\ PendingActionSnapshot.proposed_under_epoch = set.epoch
    /\ PendingActionSnapshot.ripe

Execution(a) == Instructions([type |-> "execute", action |-> a], <<>>)

execute_queued(a) ==
    /\ can_execute(a)
    /\ Cardinality(sent) < MaxSent
    /\ sent' = sent \cup {Execution(a)}
    /\ UNCHANGED <<program, approvals, signed, tool, consents, changes>>

-----------------------------------------------------------------------------
(* The program.                                                            *)

build_ed25519_instruction(t) ==
    [i \in DOMAIN t.signatures |-> [key |-> t.signatures[i], message |-> t.m]]

Proved(t, m) == require_federation_approval(build_ed25519_instruction(t), m, set)

Acceptable(m) ==
    \/ m.type = "rotation" /\ validate_validator_set(m.validators, m.threshold)
    \/ m.type = "raise" /\ m.newMax > cap

Decided(t) ==
    /\ sent' = sent \ {t}
    /\ UNCHANGED <<approvals, signed, tool, consents>>

ProposeAllowed(t) ==
    /\ t.m.type \in {"rotation", "raise"}
    /\ pending = None /\ Acceptable(t.m) /\ Proved(t, At(t.m, set.epoch))

CancelAllowed_of_any_eta(t) ==
    /\ t.m.type = "cancel" /\ pending # None
    /\ \E n \in 1..queued : Proved(t, cancel_message(set.epoch, pending.message.type, n))

CancelAllowed(t) ==
    /\ t.m.type = "cancel" /\ pending # None
    /\ Proved(t, cancel_message(set.epoch, pending.message.type, pending.eta))

ExecuteAllowed(t) ==
    /\ t.m.type = "execute" /\ pending # None /\ pending.message.type = t.m.action
    /\ pending.message.epoch = set.epoch /\ pending.ripe
    /\ Acceptable(pending.message)

propose_lands(t) ==
    /\ ProposeAllowed(t)
    /\ queued < MaxQueued
    /\ pending' = [message |-> t.m, eta |-> queued + 1, ripe |-> FALSE]
    /\ queued' = queued + 1
    /\ Decided(t)
    /\ UNCHANGED <<set, cap, changes>>

cancel_lands(t) ==
    /\ CancelAllowed(t)
    /\ pending' = None
    /\ Decided(t)
    /\ UNCHANGED <<set, cap, queued, changes>>

execute_lands(t) ==
    /\ ExecuteAllowed(t)
    /\ IF t.m.action = "rotation"
       THEN /\ set' = [validators |-> pending.message.validators,
                       threshold |-> pending.message.threshold, epoch |-> set.epoch + 1]
            /\ UNCHANGED cap
       ELSE cap' = pending.message.newMax /\ UNCHANGED set
    /\ pending' = None
    /\ Decided(t)
    /\ UNCHANGED <<queued, changes>>

Lands(t) == propose_lands(t) \/ cancel_lands(t) \/ execute_lands(t)

(* The program refuses it, or its blockhash expires first. *)
Refused(t) ==
    /\ ~(ProposeAllowed(t) \/ CancelAllowed(t) \/ ExecuteAllowed(t))
    /\ Decided(t)
    /\ UNCHANGED <<program, changes>>

Dropped(t) ==
    /\ Decided(t)
    /\ Change
    /\ UNCHANGED program

TimelockElapses ==
    /\ pending # None /\ ~pending.ripe
    /\ pending' = [pending EXCEPT !.ripe = TRUE]
    /\ UNCHANGED <<set, cap, queued, approvals, signed, tool, sent, consents, changes>>

-----------------------------------------------------------------------------
Submission(m) == submit_rotation(m) \/ submit_tvl_raise(m) \/ submit_cancel(m)
RoundStep ==
    collect_governance \/ ask_governance \/ ask_refused \/ round_falls_short \/ submit

GovernanceNext ==
    \/ \E v \in Asked, e \in {set.epoch + n : n \in Ahead} :
          approve_rotation(v, e) \/ approve_tvl_raise(v, e) \/ approve_cancel(v, e)
    \/ \E v \in Asked, a \in Actions : revoke_approval(v, a) \/ ApprovalExpires(v, a)
    \/ \E v \in Asked : SignerRestarts(v)
    \/ \E c \in Raises \cup {FirstCap} : lower_tvl_cap(c)
    \/ \E m \in Proposals : Submission(m)
    \/ RoundStep \/ ask_unavailable
    \/ \E a \in {"rotation", "raise"} : execute_queued(a)
    \/ \E t \in sent : Lands(t) \/ Refused(t) \/ Dropped(t)
    \/ TimelockElapses

(* A round that has begun goes on, what was sent is decided, and a round   *)
(* is run again for what some operator has staged.                         *)
Wanted(m) ==
    \E v \in Asked : approvals[v][m.type] # None /\ commitment_of(approvals[v][m.type].message) = m
GovernanceFairness ==
    /\ WF_governanceVars(RoundStep)
    /\ \A y \in Actions \cup {"execute"} :
          WF_governanceVars(\E t \in sent : t.m.type = y /\ (Lands(t) \/ Refused(t)))
    /\ \A m \in RotationProposals \cup RaiseProposals : SF_governanceVars(Wanted(m) /\ Submission(m))

-----------------------------------------------------------------------------
Transactions ==
    [m : Messages \cup {Execution(a).m : a \in {"rotation", "raise"}}, signatures : Seq(Asked)]

GovernanceTypeOK ==
    /\ set \in [validators : Seq(Keys), threshold : Nat, epoch : 0..queued]
    /\ validate_validator_set(set.validators, set.threshold)
    /\ cap \in Nat /\ queued \in 0..MaxQueued
    /\ pending \in PendingActions \cup {None}
    /\ pending # None => pending.eta <= queued /\ set.epoch < queued
    /\ approvals \in [Asked -> [Actions -> Approvals \cup {None}]]
    /\ signed \in [Asked -> [Actions -> Messages \cup {None}]]
    /\ tool \in [pc : {"rest", "begun", "asking"}, m : Messages \cup {None}, threshold : Nat,
                 todo : Seq(Asked), signatures : Seq(Asked)]
    /\ sent \subseteq Transactions
    /\ consents \in [Asked -> SUBSET Messages]
    /\ changes \in Nat

Consenting(m) == {v \in Members(set.validators) \cap Asked : m \in consents[v]}

(* Whatever waits for its timelock was staged, exactly so and for this     *)
(* epoch, by a threshold of the current validators' operators, although    *)
(* approvals are replaced and revoked, rounds overlap rotations and what   *)
(* they sent lands late.                                                   *)
QueuedIsConsented ==
    pending # None => Cardinality(Consenting(pending.message)) >= set.threshold

(* A cancellation removes the very action its approvers named: one that    *)
(* lands late spares an action queued after the one it was meant for.      *)
CancelHitsItsTarget ==
    [][pending # None /\ pending' = None /\ set' = set /\ cap' = cap =>
          Cardinality(Consenting(cancel_message(set.epoch, pending.message.type, pending.eta)))
              >= set.threshold]_governanceVars

(* A proposal that enough validators stand ready to sign, and nobody else, *)
(* is queued in the end, or something about it changes: peers that answer  *)
(* late, transactions that are dropped and rival rounds do not keep it out.*)
Agreed(m) ==
    /\ can_propose /\ Acceptable(m) /\ queued < MaxQueued
    /\ LET W == {v \in Asked : Willing(v, m)} IN
       W \subseteq Members(set.validators) /\ Cardinality(W) >= set.threshold
AgreedIsQueued ==
    \A p \in RotationProposals \cup RaiseProposals :
        Agreed(At(p, set.epoch)) ~> ~Agreed(At(p, set.epoch))
=============================================================================
