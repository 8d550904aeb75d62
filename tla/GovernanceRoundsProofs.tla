----------------------- MODULE GovernanceRoundsProofs -----------------------
(* What governance guarantees for every federation, any number of peers,   *)
(* rounds and queued actions, whatever else the same federation does.      *)
EXTENDS GovernanceRounds, FiniteSetTheorems, TLAPS

-----------------------------------------------------------------------------
(* Messages and peers.                                                     *)

(* What is true of every message. *)
LEMMA MessageFacts ==
    ASSUME NEW m \in Messages
    PROVE  /\ m.type \in Actions /\ m.epoch \in Nat
           /\ m.type = "rotation" => m.threshold \in Nat /\ m.validators \in Seq(Keys)
           /\ m.type = "raise" => m.newMax \in Nat
  BY DEF Messages, Actions

(* The same message for another epoch. *)
LEMMA AtFacts ==
    ASSUME NEW m \in Messages, NEW e \in Nat
    PROVE  At(m, e) \in Messages /\ At(m, e).type = m.type
  BY DEF At, Messages

(* What the operators may propose are messages, of epoch 0. *)
LEMMA ProposalFacts ==
    /\ RotationProposals \subseteq Messages /\ RaiseProposals \subseteq Messages
    /\ Proposals \subseteq Messages
<1>1. ASSUME NEW m \in RotationProposals PROVE m \in Messages
  <2>1. PICK r \in Rotations : m = rotation_message(0, r.threshold, r.validators)
    BY DEF RotationProposals
  <2>2. r.threshold \in Nat /\ r.validators \in Seq(Keys)
    BY RoundAssumption
  <2> QED BY <2>1, <2>2 DEF rotation_message, Messages
<1>2. ASSUME NEW m \in RaiseProposals PROVE m \in Messages
  <2>1. PICK c \in Raises : m = raise_message(0, c)
    BY DEF RaiseProposals
  <2>2. c \in Nat
    BY RoundAssumption
  <2> QED BY <2>1, <2>2 DEF raise_message, Messages
<1>3. ASSUME NEW m \in CancelProposals PROVE m \in Messages
  BY DEF CancelProposals, cancel_message, Messages
<1> QED
  BY <1>1, <1>2, <1>3 DEF Proposals

(* The peers are finitely many. *)
LEMMA AskedFacts == IsFiniteSet(Asked) /\ Peers \in Seq(Asked) /\ Asked \subseteq Keys
<1>1. Peers \in Seq(Keys \ {DefaultKey}) /\ IsFiniteSet(Keys)
  BY KeysAssumption, RoundAssumption
<1>2. Asked \subseteq Keys /\ \A i \in 1..Len(Peers) : Peers[i] \in Asked
  BY <1>1 DEF Asked, ToSet
<1>3. Peers = [i \in 1..Len(Peers) |-> Peers[i]] /\ Len(Peers) \in Nat
  BY <1>1
<1>4. Peers \in Seq(Asked)
  BY <1>2, <1>3
<1> QED
  BY <1>1, <1>2, <1>4, FS_Subset

(* A round asks only peers. *)
LEMMA AskOrder ==
    ASSUME NEW s \in Nat PROVE ask_order(Peers, s) \in Seq(Asked)
<1> DEFINE n == Len(Peers)  p == ask_order(Peers, s)
<1>1. Peers \in Seq(Asked) /\ n \in Nat
  BY AskedFacts
<1>2. ASSUME NEW i \in 1..n PROVE Peers[((s + i - 1) % n) + 1] \in Asked
  <2>1. n \in Nat \ {0} /\ s + i - 1 \in Int
    BY <1>1
  <2>2. (s + i - 1) % n \in 0..(n - 1)
    <3> HIDE DEF n
    <3> QED BY <2>1
  <2>3. ((s + i - 1) % n) + 1 \in 1..n
    BY <2>1, <2>2
  <2> QED BY <1>1, <2>3
<1>3. p = [i \in 1..n |-> Peers[((s + i - 1) % n) + 1]]
  BY DEF ask_order
<1> HIDE DEF n, p
<1>4. p \in [1..n -> Asked]
  BY <1>2, <1>3
<1>5. p \in Seq(Asked)
  BY <1>1, <1>4
<1> QED
  BY <1>5 DEF p

-----------------------------------------------------------------------------
(* Types.  A round that has begun has a message, and what waits is a       *)
(* rotation or a raise.                                                    *)
GovernanceTypes ==
    /\ GovernanceTypeOK
    /\ tool.pc # "rest" => tool.m \in Messages
    /\ pending # None => pending.message.type \in {"rotation", "raise"}

ToolType ==
    [pc : {"rest", "begun", "asking"}, m : Messages \cup {None}, threshold : Nat,
     todo : Seq(Asked), signatures : Seq(Asked)]

(* At the start everything is well typed. *)
LEMMA GovernanceTypeInit == GovernanceInit => GovernanceTypes
<1> SUFFICES ASSUME GovernanceInit PROVE GovernanceTypes
  OBVIOUS
<1>1. PICK s \in FirstSets :
         set = [validators |-> s.validators, threshold |-> s.threshold, epoch |-> 0]
  BY DEF GovernanceInit
<1>2. /\ s.validators \in Seq(Keys) /\ s.threshold \in Nat
      /\ validate_validator_set(s.validators, s.threshold)
  BY RoundAssumption
<1>3. Resting \in ToolType /\ Resting.pc = "rest"
  BY DEF Resting, ToolType
<1>4. NoApproval \in [Actions -> Approvals \cup {None}]
      /\ NoApproval \in [Actions -> Messages \cup {None}]
  BY DEF NoApproval
<1> QED
  BY <1>1, <1>2, <1>3, <1>4, RoundAssumption
     DEF GovernanceInit, GovernanceTypes, GovernanceTypeOK, ToolType, Transactions

(* What the operators and their signers do. *)
LEMMA OperatorTypes ==
    ASSUME GovernanceTypes,
           \/ \E v \in Asked, e \in {set.epoch + n : n \in Ahead} :
                 approve_rotation(v, e) \/ approve_tvl_raise(v, e) \/ approve_cancel(v, e)
           \/ \E v \in Asked, a \in Actions : revoke_approval(v, a) \/ ApprovalExpires(v, a)
           \/ \E v \in Asked : SignerRestarts(v)
           \/ \E c \in Raises \cup {FirstCap} : lower_tvl_cap(c)
    PROVE  GovernanceTypes'
<1>0. /\ set.epoch \in Nat /\ changes \in Nat
      /\ approvals \in [Asked -> [Actions -> Approvals \cup {None}]]
      /\ signed \in [Asked -> [Actions -> Messages \cup {None}]]
      /\ consents \in [Asked -> SUBSET Messages]
  BY DEF GovernanceTypes, GovernanceTypeOK
<1>1. ASSUME NEW v \in Asked, NEW m \in Messages, stage(v, m) PROVE GovernanceTypes'
  <2>1. /\ approvals' = [approvals EXCEPT ![v] = [approvals[v] EXCEPT ![m.type] =
                                              [message |-> m, expired |-> FALSE]]]
        /\ consents' = [consents EXCEPT ![v] = consents[v] \cup {m}]
        /\ changes' = changes + 1 /\ UNCHANGED <<set, cap, pending, queued, signed, tool, sent>>
    BY <1>1 DEF stage, Change, program
  <2>2. approvals' \in [Asked -> [Actions -> Approvals \cup {None}]]
    BY <1>0, <2>1, MessageFacts DEF Approvals
  <2>3. consents' \in [Asked -> SUBSET Messages]
    BY <1>0, <2>1
  <2> QED BY <1>0, <2>1, <2>2, <2>3 DEF GovernanceTypes, GovernanceTypeOK
<1>2. ASSUME NEW v \in Asked, NEW e \in {set.epoch + n : n \in Ahead},
             approve_rotation(v, e) \/ approve_tvl_raise(v, e) \/ approve_cancel(v, e)
      PROVE  GovernanceTypes'
  <2>0. e \in Nat
    <3>1. PICK n \in Ahead : e = set.epoch + n
      OBVIOUS
    <3>2. n \in Nat
      BY RoundAssumption
    <3> QED BY <1>0, <3>1, <3>2
  <2>1. CASE approve_rotation(v, e)
    <3>1. PICK m \in RotationProposals : stage(v, At(m, e))
      BY <2>1 DEF approve_rotation
    <3> QED BY <1>1, <2>0, <3>1, ProposalFacts, AtFacts
  <2>2. CASE approve_tvl_raise(v, e)
    <3>1. PICK m \in RaiseProposals : stage(v, At(m, e))
      BY <2>2 DEF approve_tvl_raise
    <3> QED BY <1>1, <2>0, <3>1, ProposalFacts, AtFacts
  <2>3. CASE approve_cancel(v, e)
    <3>1. /\ pending.message.type \in {"rotation", "raise"} /\ pending.eta \in 1..MaxQueued
          /\ stage(v, cancel_message(e, pending.message.type, pending.eta))
      BY <2>3 DEF approve_cancel, GovernanceTypes, GovernanceTypeOK, PendingActions
    <3>2. cancel_message(e, pending.message.type, pending.eta) \in Messages
      BY <2>0, <3>1 DEF cancel_message, Messages
    <3> QED BY <1>1, <3>1, <3>2
  <2> QED BY <1>2, <2>1, <2>2, <2>3
<1>3. ASSUME NEW v \in Asked, NEW a \in Actions, revoke_approval(v, a) \/ ApprovalExpires(v, a)
      PROVE  GovernanceTypes'
  <2>1. /\ \/ approvals' = [approvals EXCEPT ![v] = [approvals[v] EXCEPT ![a] = None]]
           \/ /\ approvals[v][a] # None
              /\ approvals' = [approvals EXCEPT ![v] = [approvals[v] EXCEPT ![a] =
                                 [approvals[v][a] EXCEPT !.expired = TRUE]]]
        /\ changes' = changes + 1
        /\ UNCHANGED <<set, cap, pending, queued, signed, tool, sent, consents>>
    BY <1>3 DEF revoke_approval, ApprovalExpires, Change, program
  <2>2. approvals' \in [Asked -> [Actions -> Approvals \cup {None}]]
    <3>1. CASE approvals' = [approvals EXCEPT ![v] = [approvals[v] EXCEPT ![a] = None]]
      BY <1>0, <3>1
    <3>2. CASE /\ approvals[v][a] # None
               /\ approvals' = [approvals EXCEPT ![v] = [approvals[v] EXCEPT ![a] =
                                 [approvals[v][a] EXCEPT !.expired = TRUE]]]
      <4> DEFINE x == approvals[v][a]
      <4>0. x \in Approvals
        BY <1>0, <3>2
      <4>1. [x EXCEPT !.expired = TRUE] \in Approvals
        <5> HIDE DEF x
        <5> QED BY <4>0 DEF Approvals
      <4> QED BY <1>0, <3>2, <4>1
    <3> QED BY <2>1, <3>1, <3>2
  <2> QED BY <1>0, <2>1, <2>2 DEF GovernanceTypes, GovernanceTypeOK
<1>4. ASSUME NEW v \in Asked, SignerRestarts(v) PROVE GovernanceTypes'
  <2>1. /\ signed' = [signed EXCEPT ![v] = NoApproval] /\ changes' = changes + 1
        /\ UNCHANGED <<set, cap, pending, queued, approvals, tool, sent, consents>>
    BY <1>4 DEF SignerRestarts, Change, program
  <2>2. signed' \in [Asked -> [Actions -> Messages \cup {None}]]
    BY <1>0, <2>1 DEF NoApproval
  <2> QED BY <1>0, <2>1, <2>2 DEF GovernanceTypes, GovernanceTypeOK
<1>5. ASSUME NEW c \in Raises \cup {FirstCap}, lower_tvl_cap(c) PROVE GovernanceTypes'
  <2>1. /\ cap' = c /\ changes' = changes + 1 /\ c \in Nat
        /\ UNCHANGED <<set, pending, queued, approvals, signed, tool, sent, consents>>
    BY <1>5, RoundAssumption DEF lower_tvl_cap, Change
  <2> QED BY <1>0, <2>1 DEF GovernanceTypes, GovernanceTypeOK
<1> QED
  BY <1>2, <1>3, <1>4, <1>5

(* What the tool and the signers it asks do. *)
LEMMA RoundTypes ==
    ASSUME GovernanceTypes,
           \/ \E m \in Proposals : Submission(m)
           \/ RoundStep \/ ask_unavailable
           \/ \E a \in {"rotation", "raise"} : execute_queued(a)
    PROVE  GovernanceTypes'
<1>0. /\ set.epoch \in Nat /\ set.threshold \in Nat /\ changes \in Nat /\ tool \in ToolType
      /\ signed \in [Asked -> [Actions -> Messages \cup {None}]]
      /\ sent \subseteq Transactions
      /\ tool.pc # "rest" => tool.m \in Messages
  BY DEF GovernanceTypes, GovernanceTypeOK, ToolType
<1>r. Resting \in ToolType /\ Resting.pc = "rest"
  BY DEF Resting, ToolType
<1>t. ASSUME tool' \in ToolType, tool'.pc # "rest" => tool'.m \in Messages,
             signed' \in [Asked -> [Actions -> Messages \cup {None}]],
             sent' \subseteq Transactions, changes' \in Nat,
             UNCHANGED <<set, cap, pending, queued, approvals, consents>>
      PROVE  GovernanceTypes'
  BY <1>t DEF GovernanceTypes, GovernanceTypeOK, ToolType
<1>1. ASSUME NEW m \in Proposals, Submission(m) PROVE GovernanceTypes'
  <2>1. Begin(m)
    BY <1>1 DEF Submission, submit_rotation, submit_tvl_raise, submit_cancel
  <2>2. m \in Messages
    BY ProposalFacts
  <2>3. /\ tool' = [Resting EXCEPT !.pc = "begun", !.m = m]
        /\ UNCHANGED <<set, cap, pending, queued, approvals, signed, sent, consents, changes>>
    BY <2>1 DEF Begin, program
  <2>4. tool' \in ToolType /\ tool'.m \in Messages
    <3>1. <<>> \in Seq(Asked)
      OBVIOUS
    <3>2. tool' = [pc |-> "begun", m |-> m, threshold |-> 0, todo |-> <<>>, signatures |-> <<>>]
      BY <2>3 DEF Resting
    <3> QED BY <2>2, <3>1, <3>2 DEF ToolType
  <2> QED BY <1>0, <1>t, <2>3, <2>4
<1>2. CASE collect_governance
  <2>1. PICK s \in Seeds :
           tool' = [pc |-> "asking", m |-> At(tool.m, set.epoch), threshold |-> set.threshold,
                    todo |-> ask_order(Peers, s), signatures |-> <<>>]
    BY <1>2 DEF collect_governance
  <2>2. ask_order(Peers, s) \in Seq(Asked)
    BY AskOrder, RoundAssumption
  <2>3. At(tool.m, set.epoch) \in Messages
    BY <1>0, <1>2, AtFacts DEF collect_governance
  <2>4. tool' \in ToolType /\ tool'.m \in Messages
    BY <1>0, <2>1, <2>2, <2>3 DEF ToolType
  <2>5. UNCHANGED <<set, cap, pending, queued, approvals, signed, sent, consents, changes>>
    BY <1>2 DEF collect_governance, program
  <2> QED BY <1>0, <1>t, <2>4, <2>5
<1>3. ASSUME Asking,
             Asked1(tool.signatures) \/ Asked1(Append(tool.signatures, Head1)),
             signed' = signed \/ Sign(Head1, tool.m), changes' \in Nat,
             UNCHANGED <<set, cap, pending, queued, approvals, sent, consents>>
      PROVE  GovernanceTypes'
  <2> DEFINE t == tool.todo  g == tool.signatures
  <2>1. /\ tool.pc = "asking" /\ t # <<>> /\ tool.m \in Messages
        /\ t \in Seq(Asked) /\ g \in Seq(Asked)
    BY <1>0, <1>3 DEF Asking, ToolType
  <2>2. Head1 = Head(t)
    BY DEF Head1
  <2>3. \/ tool' = [tool EXCEPT !.todo = Tail(t), !.signatures = g]
        \/ tool' = [tool EXCEPT !.todo = Tail(t), !.signatures = Append(g, Head(t))]
    BY <1>3, <2>2 DEF Asked1
  <2>x. tool' \in ToolType /\ tool'.pc = "asking" /\ tool'.m = tool.m
    <3> HIDE DEF t, g
    <3>1. Tail(t) \in Seq(Asked) /\ Head(t) \in Asked /\ Append(g, Head(t)) \in Seq(Asked)
      BY <2>1
    <3> QED BY <1>0, <2>1, <2>3, <3>1 DEF ToolType
  <2>4. Head1 \in Asked
    <3> HIDE DEF t, g
    <3> QED BY <2>1, <2>2
  <2>5. signed' \in [Asked -> [Actions -> Messages \cup {None}]]
    <3>1. commitment_of(tool.m) \in Messages /\ tool.m.type \in Actions
      BY <2>1, AtFacts, MessageFacts DEF commitment_of
    <3>2. CASE Sign(Head1, tool.m)
      <4>1. signed' = [signed EXCEPT ![Head1] = [signed[Head1] EXCEPT ![tool.m.type] =
                                                      commitment_of(tool.m)]]
        BY <3>2 DEF Sign
      <4> QED BY <1>0, <2>4, <3>1, <4>1
    <3> QED BY <1>0, <1>3, <3>2
  <2> QED BY <1>0, <1>3, <1>t, <2>1, <2>x, <2>5
<1>4. CASE ask_governance
  BY <1>0, <1>3, <1>4 DEF ask_governance, program
<1>5. CASE ask_refused
  BY <1>0, <1>3, <1>5 DEF ask_refused, program
<1>6. CASE ask_unavailable
  BY <1>0, <1>3, <1>6 DEF ask_unavailable, program, Change
<1>7. CASE round_falls_short
  <2>1. /\ tool' = Resting
        /\ UNCHANGED <<set, cap, pending, queued, approvals, signed, sent, consents, changes>>
    BY <1>7 DEF round_falls_short, program
  <2> QED BY <1>0, <1>r, <1>t, <2>1
<1>8. CASE submit
  <2>1. /\ tool' = Resting /\ sent' = sent \cup {Instructions(tool.m, tool.signatures)}
        /\ UNCHANGED <<set, cap, pending, queued, approvals, signed, consents, changes>>
        /\ tool.pc = "asking"
    BY <1>8 DEF submit, program
  <2>2. Instructions(tool.m, tool.signatures) \in Transactions
    BY <1>0, <2>1 DEF Instructions, Transactions, ToolType
  <2> QED BY <1>0, <1>r, <1>t, <2>1, <2>2
<1>9. ASSUME NEW a \in {"rotation", "raise"}, execute_queued(a) PROVE GovernanceTypes'
  <2>1. /\ sent' = sent \cup {Execution(a)}
        /\ UNCHANGED <<set, cap, pending, queued, approvals, signed, tool, consents, changes>>
    BY <1>9 DEF execute_queued, program
  <2>2. Execution(a) \in Transactions
    <3> DEFINE x == [type |-> "execute", action |-> a]
    <3>1. Execution(a) = [m |-> x, signatures |-> <<>>] /\ Execution(a).m = x
      BY DEF Execution, Instructions
    <3>2. <<>> \in Seq(Asked)
      OBVIOUS
    <3>3. x \in {Execution(b).m : b \in {"rotation", "raise"}}
      BY <3>1
    <3> HIDE DEF x
    <3> QED BY <3>1, <3>2, <3>3 DEF Transactions
  <2> QED BY <1>0, <1>t, <2>1, <2>2
<1> QED
  BY <1>1, <1>2, <1>4, <1>5, <1>6, <1>7, <1>8, <1>9 DEF RoundStep

(* What the program does with what was sent. *)
LEMMA ProgramTypes ==
    ASSUME GovernanceTypes,
           \/ \E t \in sent : Lands(t) \/ Refused(t) \/ Dropped(t)
           \/ TimelockElapses
    PROVE  GovernanceTypes'
<1>0. /\ set \in [validators : Seq(Keys), threshold : Nat, epoch : 0..queued]
      /\ queued \in 0..MaxQueued /\ MaxQueued \in Nat /\ queued \in Nat
      /\ validate_validator_set(set.validators, set.threshold) /\ set.epoch \in 0..queued
      /\ cap \in Nat /\ changes \in Nat /\ sent \subseteq Transactions
      /\ pending \in PendingActions \cup {None}
      /\ pending # None => /\ pending.eta <= queued /\ set.epoch < queued
                           /\ pending.message.type \in {"rotation", "raise"}
                           /\ pending \in PendingActions /\ pending.message \in Messages
                           /\ pending.eta \in 1..MaxQueued
  BY RoundAssumption DEF GovernanceTypes, GovernanceTypeOK, PendingActions
<1>k. ASSUME sent' \subseteq Transactions, UNCHANGED <<approvals, signed, tool, consents>>,
             changes' \in Nat, queued' \in 0..MaxQueued,
             set' \in [validators : Seq(Keys), threshold : Nat, epoch : 0..queued'],
             validate_validator_set(set'.validators, set'.threshold), cap' \in Nat,
             pending' \in PendingActions \cup {None},
             pending' # None => /\ pending'.eta <= queued' /\ set'.epoch < queued'
                                /\ pending'.message.type \in {"rotation", "raise"}
      PROVE  GovernanceTypes'
  BY <1>k DEF GovernanceTypes, GovernanceTypeOK
<1>1. ASSUME NEW t \in sent, propose_lands(t) PROVE GovernanceTypes'
  <2>1. /\ t.m.type \in {"rotation", "raise"} /\ queued < MaxQueued
        /\ pending' = [message |-> t.m, eta |-> queued + 1, ripe |-> FALSE]
        /\ queued' = queued + 1 /\ sent' = sent \ {t}
        /\ UNCHANGED <<approvals, signed, tool, consents, set, cap, changes>>
    BY <1>1 DEF propose_lands, ProposeAllowed, Decided
  <2>2. t.m \in Messages
    BY <1>0, <2>1 DEF Transactions, Execution, Instructions
  <2>3. pending' \in PendingActions /\ pending'.eta = queued' /\ pending'.message = t.m
    BY <1>0, <2>1, <2>2 DEF PendingActions
  <2>4. /\ queued' \in 0..MaxQueued /\ set.epoch < queued'
        /\ set' \in [validators : Seq(Keys), threshold : Nat, epoch : 0..queued']
    BY <1>0, <2>1
  <2> QED BY <1>0, <1>k, <2>1, <2>3, <2>4
<1>2. ASSUME NEW t \in sent, cancel_lands(t) PROVE GovernanceTypes'
  <2>1. /\ pending' = None /\ sent' = sent \ {t}
        /\ UNCHANGED <<approvals, signed, tool, consents, set, cap, queued, changes>>
    BY <1>2 DEF cancel_lands, Decided
  <2> QED BY <1>0, <1>k, <2>1
<1>3. ASSUME NEW t \in sent, execute_lands(t) PROVE GovernanceTypes'
  <2>1. /\ pending # None /\ Acceptable(pending.message) /\ pending' = None
        /\ pending.message.type = t.m.action
        /\ sent' = sent \ {t} /\ UNCHANGED <<approvals, signed, tool, consents, queued, changes>>
        /\ \/ /\ t.m.action = "rotation" /\ cap' = cap
              /\ set' = [validators |-> pending.message.validators,
                         threshold |-> pending.message.threshold, epoch |-> set.epoch + 1]
           \/ t.m.action # "rotation" /\ cap' = pending.message.newMax /\ set' = set
    BY <1>3 DEF execute_lands, ExecuteAllowed, Decided
  <2>2. CASE t.m.action = "rotation"
    <3>1. /\ pending.message.validators \in Seq(Keys) /\ pending.message.threshold \in Nat
          /\ validate_validator_set(pending.message.validators, pending.message.threshold)
      BY <1>0, <2>1, <2>2, MessageFacts DEF Acceptable
    <3>2. set.epoch + 1 \in 0..queued
      BY <1>0, <2>1
    <3>3. /\ set' \in [validators : Seq(Keys), threshold : Nat, epoch : 0..queued]
          /\ set'.validators = pending.message.validators
          /\ set'.threshold = pending.message.threshold
      BY <2>1, <2>2, <3>1, <3>2
    <3> QED BY <1>0, <1>k, <2>1, <2>2, <3>1, <3>3
  <2>3. CASE t.m.action # "rotation"
    <3>1. pending.message.newMax \in Nat
      BY <1>0, <2>1, <2>3, MessageFacts
    <3> QED BY <1>0, <1>k, <2>1, <2>3, <3>1
  <2> QED BY <2>2, <2>3
<1>4. ASSUME NEW t \in sent, Refused(t) \/ Dropped(t) PROVE GovernanceTypes'
  <2>1. /\ sent' = sent \ {t} /\ changes' \in Nat
        /\ UNCHANGED <<approvals, signed, tool, consents, set, cap, pending, queued>>
    BY <1>0, <1>4 DEF Refused, Dropped, Decided, Change, program
  <2> QED BY <1>0, <1>k, <2>1
<1>5. CASE TimelockElapses
  <2>1. /\ pending # None /\ pending' = [pending EXCEPT !.ripe = TRUE]
        /\ UNCHANGED <<set, cap, queued, approvals, signed, tool, sent, consents, changes>>
    BY <1>5 DEF TimelockElapses
  <2>2. /\ pending' \in PendingActions /\ pending'.eta = pending.eta
        /\ pending'.message = pending.message
    BY <1>0, <2>1 DEF PendingActions
  <2> QED BY <1>0, <1>k, <2>1, <2>2
<1> QED
  BY <1>1, <1>2, <1>3, <1>4, <1>5 DEF Lands

(* Every step of governance is typed. *)
LEMMA GovernanceTypeStep ==
    ASSUME GovernanceTypes, GovernanceNext PROVE GovernanceTypes'
  BY OperatorTypes, RoundTypes, ProgramTypes DEF GovernanceNext

-----------------------------------------------------------------------------
(* Consent.  An approval on file was staged by its operator; what a round  *)
(* has collected and what was sent is signed only by peers whose operators *)
(* staged exactly that message.  Approvals come and go, what was staged    *)
(* once stays in the history.                                              *)
Consents ==
    /\ \A v \in Asked, a \in Actions :
          approvals[v][a] # None => approvals[v][a].message \in consents[v]
    /\ \A v \in ToSet(tool.signatures) : tool.m \in consents[v]
    /\ \A t \in sent : \A v \in ToSet(t.signatures) : t.m \in consents[v]

GovernanceInv == GovernanceTypes /\ Consents /\ QueuedIsConsented

(* Among finitely many, more is not less. *)
LEMMA MoreConsent ==
    ASSUME NEW S, NEW T, S \subseteq T, T \subseteq Asked, NEW n \in Nat, Cardinality(S) >= n
    PROVE  Cardinality(T) >= n
<1>1. IsFiniteSet(T) /\ IsFiniteSet(S)
  BY AskedFacts, FS_Subset
<1>2. Cardinality(S) <= Cardinality(T) /\ Cardinality(S) \in Nat /\ Cardinality(T) \in Nat
  BY <1>1, FS_Subset, FS_CardinalityType
<1> QED
  BY <1>2

(* A proof the program accepts carries the consent of a threshold of its   *)
(* validators to that very message: entries are distinct members, and each *)
(* was given by a peer whose operator staged it.                           *)
LEMMA ProofIsConsent ==
    ASSUME GovernanceTypes, Consents, NEW t \in sent, NEW m, Proved(t, m)
    PROVE  t.m = m /\ Cardinality(Consenting(m)) >= set.threshold
<1> DEFINE g == t.signatures
           n == Len(g)
           E == build_ed25519_instruction(t)
           S == Consenting(m)
<1>1. g \in Seq(Asked) /\ n \in Nat /\ DOMAIN g = 1..n
  BY DEF GovernanceTypes, GovernanceTypeOK, Transactions
<1>2. E = [i \in 1..n |-> [key |-> g[i], message |-> t.m]]
  BY <1>1 DEF build_ed25519_instruction
<1>3. EntriesAccepted(E, m, set.validators) /\ Len(E) >= set.threshold
  BY DEF Proved, require_federation_approval
<1> HIDE DEF E
<1>4. Len(E) = n /\ DOMAIN E = 1..n
  BY <1>1, <1>2
<1>5. /\ n >= 1 /\ n >= set.threshold
      /\ \A i \in 1..n : E[i].message = m /\ E[i].key \in Members(set.validators)
      /\ \A i, j \in 1..n : i # j => E[i].key # E[j].key
  BY <1>3, <1>4 DEF EntriesAccepted
<1>6. \A i \in 1..n : E[i].key = g[i] /\ E[i].message = t.m
  BY <1>2
<1>7. t.m = m
  <2>1. 1 \in 1..n
    BY <1>1, <1>5
  <2> QED BY <1>5, <1>6, <2>1
<1>8. \A i \in 1..n : g[i] \in S
  <2>1. \A i \in 1..n : g[i] \in Asked /\ g[i] \in Members(set.validators)
    BY <1>1, <1>5, <1>6
  <2>2. \A i \in 1..n : g[i] \in ToSet(g)
    BY <1>1 DEF ToSet
  <2> QED BY <1>7, <2>1, <2>2 DEF Consenting, Consents
<1>9. S \subseteq Asked
  BY DEF Consenting
<1> HIDE DEF S
<1>10. IsFiniteSet(S) /\ Cardinality(S) \in Nat
  BY <1>9, AskedFacts, FS_Subset, FS_CardinalityType
<1>11. IsFiniteSet(1..n) /\ Cardinality(1..n) = n
  <2>1. 1 \in Int /\ n \in Int /\ ~(1 > n) /\ n - 1 + 1 = n
    BY <1>1, <1>5
  <2>2. /\ IsFiniteSet(1..n)
        /\ Cardinality(1..n) = IF 1 > n THEN 0 ELSE n - 1 + 1
    BY <2>1, FS_Interval, Zenon
  <2> QED BY <2>1, <2>2, Zenon
<1>12. ~(Cardinality(S) < Cardinality(1..n))
  <2> SUFFICES ASSUME Cardinality(S) < Cardinality(1..n) PROVE FALSE
    OBVIOUS
  <2> DEFINE f == [i \in 1..n |-> g[i]]
  <2>1. f \in [1..n -> S]
    BY <1>8
  <2>2. \E i, j \in 1..n : i # j /\ f[i] = f[j]
    <3> HIDE DEF f
    <3> QED BY <1>10, <1>11, <2>1, FS_PigeonHole, Zenon
  <2> QED BY <1>5, <1>6, <2>2
<1>13. set.threshold \in Nat
  BY DEF GovernanceTypes, GovernanceTypeOK
<1> QED
  BY <1>1, <1>5, <1>7, <1>10, <1>11, <1>12, <1>13 DEF S

(* What was staged stays staged. *)
LEMMA ConsentsGrow ==
    ASSUME GovernanceTypes, GovernanceNext, NEW v \in Asked PROVE consents[v] \subseteq consents'[v]
<1>0. consents \in [Asked -> SUBSET Messages]
  BY DEF GovernanceTypes, GovernanceTypeOK
<1>1. consents' = consents \/ \E w \in Asked : \E m : stage(w, m)
  BY DEF GovernanceNext, approve_rotation, approve_tvl_raise, approve_cancel, revoke_approval,
     ApprovalExpires, SignerRestarts, lower_tvl_cap, Submission, submit_rotation,
     submit_tvl_raise, submit_cancel, Begin, RoundStep, collect_governance, ask_governance,
     ask_refused, ask_unavailable, round_falls_short, submit, execute_queued, Lands,
     propose_lands, cancel_lands, execute_lands, Refused, Dropped, Decided, TimelockElapses
<1>2. ASSUME NEW w \in Asked, NEW m, stage(w, m) PROVE consents[v] \subseteq consents'[v]
  BY <1>0, <1>2 DEF stage
<1> QED
  BY <1>1, <1>2

(* Approvals on file were staged. *)
LEMMA ApprovalsStep ==
    ASSUME GovernanceTypes, Consents, GovernanceNext, NEW v \in Asked, NEW a \in Actions,
           approvals'[v][a] # None
    PROVE  approvals'[v][a].message \in consents'[v]
<1>0. /\ approvals \in [Asked -> [Actions -> Approvals \cup {None}]]
      /\ consents \in [Asked -> SUBSET Messages] /\ consents[v] \subseteq consents'[v]
      /\ approvals[v][a] # None => approvals[v][a].message \in consents[v]
  BY ConsentsGrow DEF GovernanceTypes, GovernanceTypeOK, Consents
<1>1. \/ approvals' = approvals
      \/ \E w \in Asked : \E m : stage(w, m)
      \/ \E w \in Asked, b \in Actions : revoke_approval(w, b) \/ ApprovalExpires(w, b)
  BY DEF GovernanceNext, approve_rotation, approve_tvl_raise, approve_cancel,
     SignerRestarts, lower_tvl_cap, Submission, submit_rotation,
     submit_tvl_raise, submit_cancel, Begin, RoundStep, collect_governance, ask_governance,
     ask_refused, ask_unavailable, round_falls_short, submit, execute_queued, Lands,
     propose_lands, cancel_lands, execute_lands, Refused, Dropped, Decided, TimelockElapses
<1>2. CASE approvals' = approvals
  BY <1>0, <1>2
<1>3. ASSUME NEW w \in Asked, NEW m, stage(w, m)
      PROVE  approvals'[v][a].message \in consents'[v]
  <2>1. /\ approvals' = [approvals EXCEPT ![w] = [approvals[w] EXCEPT ![m.type] =
                                                [message |-> m, expired |-> FALSE]]]
        /\ consents' = [consents EXCEPT ![w] = consents[w] \cup {m}]
    BY <1>3 DEF stage
  <2>2. CASE v = w /\ a = m.type
    BY <1>0, <2>1, <2>2
  <2>3. CASE ~(v = w /\ a = m.type)
    <3>1. approvals'[v][a] = approvals[v][a]
      BY <1>0, <2>1, <2>3
    <3> QED BY <1>0, <3>1
  <2> QED BY <2>2, <2>3
<1>4. ASSUME NEW w \in Asked, NEW b \in Actions, revoke_approval(w, b) \/ ApprovalExpires(w, b)
      PROVE  approvals'[v][a].message \in consents'[v]
  <2>1. \/ approvals' = [approvals EXCEPT ![w] = [approvals[w] EXCEPT ![b] = None]]
        \/ /\ approvals[w][b] # None
           /\ approvals' = [approvals EXCEPT ![w] = [approvals[w] EXCEPT ![b] =
                              [approvals[w][b] EXCEPT !.expired = TRUE]]]
    BY <1>4 DEF revoke_approval, ApprovalExpires
  <2>2. CASE ~(v = w /\ a = b)
    <3>1. approvals'[v][a] = approvals[v][a]
      BY <1>0, <2>1, <2>2
    <3> QED BY <1>0, <3>1
  <2>3. CASE v = w /\ a = b
    <3> DEFINE x == approvals[v][a]
    <3>1. x # None /\ approvals'[v][a] = [x EXCEPT !.expired = TRUE]
      BY <1>0, <2>1, <2>3
    <3>2. x \in Approvals
      BY <1>0, <3>1
    <3>3. [x EXCEPT !.expired = TRUE].message = x.message
      <4> HIDE DEF x
      <4> QED BY <3>2 DEF Approvals
    <3> QED BY <1>0, <3>1, <3>3
  <2> QED BY <2>2, <2>3
<1> QED
  BY <1>1, <1>2, <1>3, <1>4

(* What a round has collected are signatures over what was staged. *)
LEMMA SignaturesStep ==
    ASSUME GovernanceTypes, Consents, GovernanceNext, NEW v \in ToSet(tool'.signatures)
    PROVE  tool'.m \in consents'[v]
<1>0. tool \in ToolType
  BY DEF GovernanceTypes, GovernanceTypeOK, ToolType
<1>1. \/ tool' = tool
      \/ tool'.signatures = <<>>
      \/ tool'.m = tool.m /\ tool'.signatures = tool.signatures
      \/ ask_governance
  <2>1. \/ tool' = tool \/ \E m \in Proposals : Begin(m)
        \/ collect_governance \/ ask_governance \/ ask_refused \/ ask_unavailable
        \/ tool' = Resting
    BY DEF GovernanceNext, approve_rotation, approve_tvl_raise, approve_cancel, stage,
       revoke_approval, ApprovalExpires, SignerRestarts, lower_tvl_cap, Submission,
       submit_rotation, submit_tvl_raise, submit_cancel, RoundStep, round_falls_short, submit,
       execute_queued, Lands, propose_lands, cancel_lands, execute_lands, Refused, Dropped,
       Decided, TimelockElapses
  <2>2. ASSUME NEW m \in Proposals, Begin(m) PROVE tool'.signatures = <<>>
    BY <2>2 DEF Begin, Resting
  <2>3. CASE collect_governance
    BY <2>3 DEF collect_governance
  <2>4. CASE ask_refused \/ ask_unavailable
    BY <1>0, <2>4 DEF ask_refused, ask_unavailable, Asked1, ToolType
  <2>5. CASE tool' = Resting
    BY <2>5 DEF Resting
  <2> QED BY <2>1, <2>2, <2>3, <2>4, <2>5
<1>2. \A w \in ToSet(tool.signatures) : w \in Asked /\ tool.m \in consents[w]
  BY <1>0 DEF Consents, ToSet, ToolType
<1>3. CASE tool'.signatures = <<>>
  <2>1. ToSet(<<>>) = {}
    BY DEF ToSet
  <2> QED BY <1>3, <2>1
<1>4. CASE tool'.m = tool.m /\ tool'.signatures = tool.signatures
  BY <1>2, <1>4, ConsentsGrow
<1>5. CASE ask_governance
  <2> DEFINE t == tool.todo  g == tool.signatures  h == Head(t)
  <2>1. /\ t # <<>> /\ tool.pc = "asking" /\ Willing(h, tool.m) /\ consents' = consents
        /\ tool' = [tool EXCEPT !.todo = Tail(t), !.signatures = Append(g, h)]
    BY <1>5 DEF ask_governance, Asking, Head1, Asked1
  <2>2. tool'.m = tool.m /\ tool'.signatures = Append(g, h) /\ g \in Seq(Asked) /\ t \in Seq(Asked)
    BY <1>0, <2>1 DEF ToolType
  <2>3. tool.m \in Messages
    BY <2>1 DEF GovernanceTypes
  <2> HIDE DEF t, g
  <2>4. h \in Asked
    BY <2>1, <2>2
  <2> HIDE DEF h
  <2>5. \A w \in ToSet(Append(g, h)) : w \in ToSet(g) \/ w = h
    <3>1. /\ Len(g) \in Nat /\ DOMAIN g = 1..Len(g)
          /\ DOMAIN Append(g, h) = 1..(Len(g) + 1)
          /\ \A i \in 1..Len(g) : Append(g, h)[i] = g[i]
          /\ Append(g, h)[Len(g) + 1] = h
      BY <2>2, <2>4
    <3>2. \A i \in 1..(Len(g) + 1) : i \in 1..Len(g) \/ i = Len(g) + 1
      BY <3>1
    <3> QED BY <3>1, <3>2 DEF ToSet
  <2>6. tool.m \in consents[h]
    <3> DEFINE x == [message |-> tool.m, expired |-> FALSE]  a == tool.m.type
    <3>1. approvals[h][a] = x /\ a \in Actions
      BY <2>1, <2>3, MessageFacts DEF Willing, Approved
    <3>2. x # None
      <4>1. x \in Approvals
        BY <2>3 DEF Approvals
      <4> QED BY <4>1, RoundAssumption
    <3>3. x.message = tool.m
      OBVIOUS
    <3> HIDE DEF x, a
    <3> QED BY <2>4, <3>1, <3>2, <3>3 DEF Consents
  <2>7. \A w \in ToSet(g) : tool.m \in consents[w]
    BY <1>2 DEF g
  <2> QED BY <2>1, <2>2, <2>5, <2>6, <2>7
<1> QED
  BY <1>1, <1>2, <1>3, <1>4, <1>5, ConsentsGrow

(* And so is what was sent. *)
LEMMA SentStep ==
    ASSUME GovernanceTypes, Consents, GovernanceNext, NEW t \in sent',
           NEW v \in ToSet(t.signatures)
    PROVE  t.m \in consents'[v]
<1>0. tool \in ToolType /\ sent \subseteq Transactions
  BY DEF GovernanceTypes, GovernanceTypeOK, ToolType
<1>1. \/ sent' \subseteq sent
      \/ sent' = sent \cup {Instructions(tool.m, tool.signatures)} /\ consents' = consents
      \/ \E a \in {"rotation", "raise"} : sent' = sent \cup {Execution(a)}
  BY DEF GovernanceNext, approve_rotation, approve_tvl_raise, approve_cancel, stage,
     revoke_approval, ApprovalExpires, SignerRestarts, lower_tvl_cap, Submission,
     submit_rotation, submit_tvl_raise, submit_cancel, Begin, RoundStep, collect_governance,
     ask_governance, ask_refused, ask_unavailable, round_falls_short, submit,
     execute_queued, Lands, propose_lands, cancel_lands, execute_lands, Refused, Dropped,
     Decided, TimelockElapses
<1>2. CASE t \in sent
  <2>1. t.m \in consents[v]
    BY <1>2 DEF Consents
  <2>2. v \in Asked
    BY <1>0, <1>2 DEF Transactions, ToSet
  <2> QED BY <2>1, <2>2, ConsentsGrow
<1>3. CASE t = Instructions(tool.m, tool.signatures) /\ consents' = consents
  BY <1>3 DEF Consents, Instructions
<1>4. ASSUME NEW a \in {"rotation", "raise"}, t = Execution(a) PROVE FALSE
  <2>1. t.signatures = <<>>
    BY <1>4 DEF Execution, Instructions
  <2>2. ToSet(<<>>) = {}
    BY DEF ToSet
  <2> QED BY <2>1, <2>2
<1> QED
  BY <1>1, <1>2, <1>3, <1>4

(* What waits for its timelock was staged by a threshold. *)
LEMMA QueuedStep ==
    ASSUME GovernanceInv, GovernanceNext PROVE QueuedIsConsented'
<1> DEFINE After(m) == {v \in Members(set'.validators) \cap Asked : m \in consents'[v]}
<1>a. Cardinality(After(pending'.message)) >= set'.threshold \/ pending' = None
      => QueuedIsConsented'
  BY DEF QueuedIsConsented, Consenting
<1> SUFFICES ASSUME pending' # None
             PROVE  Cardinality(After(pending'.message)) >= set'.threshold
  BY <1>a
<1>0. /\ GovernanceTypes /\ Consents /\ set.threshold \in Nat
      /\ pending \in PendingActions \cup {None}
      /\ pending # None => Cardinality(Consenting(pending.message)) >= set.threshold
  BY DEF GovernanceInv, GovernanceTypes, GovernanceTypeOK, QueuedIsConsented
<1>1. \/ UNCHANGED <<set, pending>>
      \/ \E t \in sent : propose_lands(t) \/ cancel_lands(t) \/ execute_lands(t)
      \/ TimelockElapses
  BY DEF GovernanceNext, approve_rotation, approve_tvl_raise, approve_cancel, stage, program,
     revoke_approval, ApprovalExpires, SignerRestarts, lower_tvl_cap, Submission,
     submit_rotation, submit_tvl_raise, submit_cancel, Begin, RoundStep, collect_governance,
     ask_governance, ask_refused, ask_unavailable, round_falls_short, submit,
     execute_queued, Lands, Refused, Dropped
<1>2. ASSUME NEW m, Cardinality(Consenting(m)) >= set.threshold, set' = set
      PROVE  Cardinality(After(m)) >= set'.threshold
  <2>1. Consenting(m) \subseteq After(m) /\ After(m) \subseteq Asked
    BY <1>0, <1>2, ConsentsGrow DEF Consenting
  <2> HIDE DEF After
  <2>2. Cardinality(After(m)) >= set.threshold
    BY <1>0, <1>2, <2>1, MoreConsent
  <2> QED BY <1>2, <2>2
<1> HIDE DEF After
<1>3. CASE UNCHANGED <<set, pending>>
  BY <1>0, <1>2, <1>3
<1>4. ASSUME NEW t \in sent, propose_lands(t)
      PROVE  Cardinality(After(pending'.message)) >= set'.threshold
  <2>1. pending'.message = t.m /\ set' = set /\ Proved(t, At(t.m, set.epoch))
    BY <1>4 DEF propose_lands, ProposeAllowed
  <2>2. Cardinality(Consenting(t.m)) >= set.threshold
    BY <1>0, <2>1, ProofIsConsent
  <2> QED BY <1>2, <2>1, <2>2
<1>5. ASSUME NEW t \in sent, cancel_lands(t) \/ execute_lands(t) PROVE FALSE
  BY <1>5 DEF cancel_lands, execute_lands
<1>6. CASE TimelockElapses
  <2>1. pending # None /\ pending' = [pending EXCEPT !.ripe = TRUE] /\ set' = set
    BY <1>6 DEF TimelockElapses
  <2>2. pending'.message = pending.message
    BY <1>0, <2>1 DEF PendingActions
  <2> QED BY <1>0, <1>2, <2>1, <2>2
<1> QED
  BY <1>1, <1>3, <1>4, <1>5, <1>6

(* The start: nothing is staged, asked for or queued. *)
LEMMA GovernanceInvInit == GovernanceInit => GovernanceInv
<1> SUFFICES ASSUME GovernanceInit PROVE GovernanceInv
  OBVIOUS
<1>1. ToSet(<<>>) = {}
  BY DEF ToSet
<1>2. tool.signatures = <<>>
  BY DEF GovernanceInit, Resting
<1>3. Consents
  BY <1>1, <1>2 DEF GovernanceInit, Consents, NoApproval
<1> QED
  BY <1>3, GovernanceTypeInit DEF GovernanceInv, GovernanceInit, QueuedIsConsented

(* Every step of governance keeps it. *)
LEMMA GovernanceInvStep ==
    ASSUME GovernanceInv, GovernanceNext PROVE GovernanceInv'
<1>1. GovernanceTypes /\ Consents
  BY DEF GovernanceInv
<1>2. GovernanceTypes' /\ QueuedIsConsented'
  BY <1>1, GovernanceTypeStep, QueuedStep
<1>3. Consents'
  BY <1>1, ApprovalsStep, SignaturesStep, SentStep DEF Consents
<1> QED
  BY <1>2, <1>3 DEF GovernanceInv

(* Whatever leaves governance alone keeps it too. *)
LEMMA GovernanceInvStays ==
    ASSUME GovernanceInv, changes' \in Nat,
           UNCHANGED <<set, cap, pending, queued, approvals, signed, tool, sent, consents>>
    PROVE  GovernanceInv'
  BY DEF GovernanceInv, GovernanceTypes, GovernanceTypeOK, Consents, QueuedIsConsented, Consenting

(* A cancellation carries the consent to cancel this very action; an       *)
(* execution raises the epoch or the cap, so it is never taken for one.    *)
LEMMA CancelStep ==
    ASSUME GovernanceInv, GovernanceNext, pending # None, pending' = None,
           set' = set, cap' = cap
    PROVE  Cardinality(Consenting(cancel_message(set.epoch, pending.message.type, pending.eta)))
               >= set.threshold
<1>0. /\ GovernanceTypes /\ Consents /\ set.epoch \in Nat /\ cap \in Nat
      /\ pending \in PendingActions /\ None \notin PendingActions /\ pending.message \in Messages
      /\ pending.message.type \in {"rotation", "raise"}
  BY RoundAssumption
     DEF GovernanceInv, GovernanceTypes, GovernanceTypeOK, PendingActions
<1>1. \/ UNCHANGED pending
      \/ \E t \in sent : propose_lands(t) \/ cancel_lands(t) \/ execute_lands(t)
      \/ TimelockElapses
  BY DEF GovernanceNext, approve_rotation, approve_tvl_raise, approve_cancel, stage, program,
     revoke_approval, ApprovalExpires, SignerRestarts, lower_tvl_cap, Submission,
     submit_rotation, submit_tvl_raise, submit_cancel, Begin, RoundStep, collect_governance,
     ask_governance, ask_refused, ask_unavailable, round_falls_short, submit,
     execute_queued, Lands, Refused, Dropped
<1>2. ASSUME NEW t \in sent, propose_lands(t) PROVE FALSE
  BY <1>2 DEF propose_lands, ProposeAllowed
<1>3. ASSUME NEW t \in sent, cancel_lands(t)
      PROVE  Cardinality(Consenting(cancel_message(set.epoch, pending.message.type, pending.eta)))
                 >= set.threshold
  <2>1. Proved(t, cancel_message(set.epoch, pending.message.type, pending.eta))
    BY <1>3 DEF cancel_lands, CancelAllowed
  <2> QED BY <1>0, <2>1, ProofIsConsent
<1>4. ASSUME NEW t \in sent, execute_lands(t) PROVE FALSE
  <2>1. /\ pending.message.type = t.m.action /\ Acceptable(pending.message)
        /\ \/ t.m.action = "rotation" /\ set'.epoch = set.epoch + 1
           \/ t.m.action # "rotation" /\ cap' = pending.message.newMax
    BY <1>4 DEF execute_lands, ExecuteAllowed
  <2>2. CASE t.m.action = "rotation"
    BY <1>0, <2>1, <2>2
  <2>3. CASE t.m.action # "rotation"
    <3>1. pending.message.newMax > cap /\ cap = pending.message.newMax
      BY <2>1, <2>3 DEF Acceptable
    <3> QED BY <1>0, <3>1
  <2> QED BY <2>2, <2>3
<1>5. CASE TimelockElapses
  <2>1. pending' = [pending EXCEPT !.ripe = TRUE]
    BY <1>5 DEF TimelockElapses
  <2>2. pending' \in PendingActions
    BY <1>0, <2>1 DEF PendingActions
  <2> QED BY <1>0, <2>2
<1> QED
  BY <1>1, <1>2, <1>3, <1>4, <1>5

=============================================================================
