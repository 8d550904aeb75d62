--------------------------- MODULE SignerService ---------------------------
(***************************************************************************)
(* One validator's signer-server: the service its peers call               *)
(* (p2p/service.rs), the policy that decides (p2p/policy.rs), the epoch it *)
(* observes (solana/epoch.rs), the local view it derives messages from     *)
(* (p2p/view.rs), the approvals its operator stages                        *)
(* (p2p/governance_view.rs, glc-admin) and the allowance each peer has     *)
(* (p2p/ratelimit.rs).                                                     *)
(*                                                                         *)
(* Requests are served concurrently and are cut where two of them, the     *)
(* epoch refresher, the operator or the relayer that shares the database   *)
(* can come in between: at the two atomic loads of the observation, at the *)
(* two critical sections of the seen-set, between the read of the approval *)
(* file and the lock of what was signed, and at the awaits of the arms.    *)
(*                                                                         *)
(* Time is kept as ages, which stop growing once they are past every bound *)
(* they are compared with.  A message is named by what distinguishes it: a *)
(* claim by the epoch its artifact was stored under, a proposal by its     *)
(* commitment.                                                             *)
(***************************************************************************)
EXTENDS Integers, FiniteSets

CONSTANTS
    Subjects,       \* deposits (or payout attempts) a peer may ask about
    Actions,        \* the governance action bytes
    Commitments,    \* parameter commitments
    None,           \* no value
    Operator,       \* the peer that runs glc-admin
    Others,         \* the other peers
    Wanted,         \* the commitment the operators want signed
    Staleness,      \* MAX_VIEW_STALENESS
    PollInterval,   \* EPOCH_POLL_INTERVAL
    Latency,        \* the longest a read of the chain takes
    Burst, Refill,  \* of the rate limiter, in requests and requests per tick
    MaxEpoch,       \* bound: rotations
    MaxChanges      \* bound: what the operator, the relayer, failures and restarts change

Epochs == 0..MaxEpoch
Peers == Others \cup {Operator}
Arms == {"payout", "completion", "sweep"}
Horizon == Staleness + Latency     \* how long a retired epoch may be mistaken for current

ASSUME SignerAssumption ==
    /\ Operator \notin Others
    /\ None \notin Commitments /\ None \notin Epochs
    /\ Wanted \in Commitments
    /\ Staleness \in Nat /\ Latency \in Nat /\ PollInterval \in Nat \ {0}
    /\ Burst \in Nat \ {0} /\ Refill \in Nat
    /\ MaxEpoch \in Nat /\ MaxChanges \in Nat

VARIABLES
    chainEpoch, \* ValidatorSet.epoch on Solana
    retired,    \* how long ago each epoch ended (0 unless it has)
    obs,        \* EpochObservation: the epoch, and the age of its timestamp
    poll,       \* the epoch refresher
    serving,    \* does the process answer?
    local,      \* the signable message this validator's database holds
    seen,       \* SeenSet
    approvals,  \* the governance approvals file
    signed,     \* GovernanceView.signed
    bucket,     \* tokens left to each peer
    calls,      \* the request each peer has in progress
    given,      \* history: the proposals signed since the process started
    changes     \* how much of the bound is used

chain == <<chainEpoch, retired>>
files == <<local, approvals>>
memory == <<seen, signed, given>>
vars == <<chainEpoch, retired, obs, poll, serving, local, seen, approvals, signed,
          bucket, calls, given, changes>>

-----------------------------------------------------------------------------
Kinds == {"mint", "governance"} \cup Arms
Request == [kind : Kinds, subject : Subjects \cup Actions \cup {None},
            value : Epochs \cup Commitments \cup {None}, epoch : Epochs]
NoCall == [pc |-> "idle", kind |-> "mint", subject |-> None, value |-> None, epoch |-> 0]
CallOf(r, pc) == [pc |-> pc, kind |-> r.kind, subject |-> r.subject,
                  value |-> r.value, epoch |-> r.epoch]
Message(c) == [kind |-> c.kind, subject |-> c.subject, value |-> c.value, epoch |-> c.epoch]

(* What a peer that is not honest, or that looks at another chain, asks    *)
(* for; and what glc-admin asks for: the wanted proposal, under the epoch  *)
(* it reads from the chain.                                                *)
mint_request(i, m, e) == [kind |-> "mint", subject |-> i, value |-> m, epoch |-> e]
governance_request(a, c, e) == [kind |-> "governance", subject |-> a, value |-> c, epoch |-> e]
arm_request(k, e) == [kind |-> k, subject |-> None, value |-> None, epoch |-> e]

PeerRequests ==
    {mint_request(i, m, e) : i \in Subjects, m \in Epochs, e \in Epochs}
    \cup {governance_request(a, c, e) : a \in Actions, c \in Commitments, e \in Epochs}
    \cup {arm_request(k, e) : k \in Arms, e \in Epochs}
OperatorRequests == {governance_request(a, Wanted, chainEpoch) : a \in Actions}
RequestsOf(p) == IF p = Operator THEN OperatorRequests ELSE PeerRequests

(* The service comes up with its files as they are: deposits indexed, the  *)
(* operator's first approval staged.                                       *)
Init ==
    /\ chainEpoch = 0
    /\ retired = [e \in Epochs |-> 0]
    /\ obs = [epoch |-> 0, age |-> 0]
    /\ poll = [pc |-> "sleep", epoch |-> 0, age |-> 0]
    /\ serving = TRUE
    /\ local = [i \in Subjects |-> 0]
    /\ seen = [i \in Subjects |-> None]
    /\ approvals = [a \in Actions |-> [value |-> Wanted, epoch |-> 0, expired |-> FALSE]]
    /\ signed = [a \in Actions |-> None]
    /\ bucket = [p \in Peers |-> Burst]
    /\ calls = [p \in Peers |-> NoCall]
    /\ given = {}
    /\ changes = 0

Change == changes < MaxChanges /\ changes' = changes + 1

-----------------------------------------------------------------------------
(* The epoch refresher: sleep, read, store the epoch, store the time.      *)

is_fresh == obs.age <= Staleness

observe_epoch ==
    /\ poll.pc = "sleep"
    /\ serving => poll.age = PollInterval
    /\ poll' = [pc |-> "read", epoch |-> chainEpoch, age |-> 0]
    /\ UNCHANGED <<chain, obs, serving, files, memory, bucket, calls, changes>>

(* EpochObservation::record publishes the epoch before the timestamp that  *)
(* vouches for it.                                                         *)
StoreOrder_vouched_first == <<"timestamp", "epoch">>
StoreOrder == <<"epoch", "timestamp">>

Store(field) ==
    obs' = IF field = "epoch" THEN [obs EXCEPT !.epoch = poll.epoch] ELSE [obs EXCEPT !.age = 0]

record_begins ==
    /\ serving /\ poll.pc = "read"
    /\ Store(StoreOrder[1])
    /\ poll' = [poll EXCEPT !.pc = "stored"]
    /\ UNCHANGED <<chain, serving, files, memory, bucket, calls, changes>>

record_ends ==
    /\ serving /\ poll.pc = "stored"
    /\ Store(StoreOrder[2])
    /\ poll' = [pc |-> "sleep", epoch |-> 0, age |-> 0]
    /\ UNCHANGED <<chain, serving, files, memory, bucket, calls, changes>>

(* A failed read is only logged; the observation ages. *)
observe_epoch_fails ==
    /\ serving /\ poll.pc = "read"
    /\ poll' = [pc |-> "sleep", epoch |-> 0, age |-> 0]
    /\ Change
    /\ UNCHANGED <<chain, obs, serving, files, memory, bucket, calls>>

(* main serves only after a first observation. *)
seeded ==
    /\ ~serving /\ poll.pc = "read"
    /\ obs' = [epoch |-> poll.epoch, age |-> 0]
    /\ poll' = [pc |-> "sleep", epoch |-> 0, age |-> 0]
    /\ serving' = TRUE
    /\ UNCHANGED <<chain, files, memory, bucket, calls, changes>>

(* What the process kept in memory is gone; the files are not. *)
Restart ==
    /\ serving
    /\ serving' = FALSE
    /\ poll' = [pc |-> "sleep", epoch |-> 0, age |-> 0]
    /\ seen' = [i \in Subjects |-> None]
    /\ signed' = [a \in Actions |-> None]
    /\ given' = {}
    /\ bucket' = [p \in Peers |-> Burst]
    /\ calls' = [p \in Peers |-> NoCall]
    /\ Change
    /\ UNCHANGED <<chain, obs, files>>

-----------------------------------------------------------------------------
(* A request arrives and is charged to its peer.                           *)

(* check_rate_limit: a token of the bucket of this peer (peer_key). *)
peer_key_shared(p) == Operator
peer_key(p) == p
check_rate_limit(p) == bucket[peer_key(p)] >= 1
charge(p) == bucket' = [bucket EXCEPT ![peer_key(p)] = @ - 1]

Answered(p) == calls' = [calls EXCEPT ![p] = NoCall]

(* view_is_fresh, the first of the two loads every handler begins with: a  *)
(* stale view refuses the request.                                         *)
Arrive(p) ==
    /\ serving /\ calls[p].pc = "idle" /\ check_rate_limit(p)
    /\ charge(p)
    /\ IF is_fresh
       THEN \E r \in RequestsOf(p) : calls' = [calls EXCEPT ![p] = CallOf(r, "fresh")]
       ELSE UNCHANGED calls
    /\ UNCHANGED <<chain, obs, poll, serving, files, memory, changes>>

(* Action 0 is refused before anything is looked at. *)
from_wire_refuses(p) ==
    /\ serving /\ p \in Others /\ calls[p].pc = "idle" /\ check_rate_limit(p)
    /\ charge(p)
    /\ UNCHANGED <<chain, obs, poll, serving, files, memory, calls, changes>>

(* The request expired on its way. *)
expired_refuses(p) ==
    /\ serving /\ calls[p].pc = "idle" /\ check_rate_limit(p)
    /\ charge(p)
    /\ Change
    /\ UNCHANGED <<chain, obs, poll, serving, files, memory, calls>>

(* observed_epoch, the second: the request must quote what it returns. *)
EpochMatches(p) == calls[p].epoch = obs.epoch

-----------------------------------------------------------------------------
(* sign: the mint path.                                                    *)

(* evaluate, under a first lock of the seen-set: the message this validator*)
(* derives itself must be the one requested, and not contradict the one it *)
(* has signed.                                                             *)
Decision(p) ==
    LET c == calls[p] IN
    IF ~EpochMatches(p) \/ local[c.subject] = None \/ local[c.subject] # c.value THEN "refuse"
    ELSE IF seen[c.subject] = None THEN "sign"
    ELSE IF seen[c.subject] = c.value THEN "again"
    ELSE "refuse"

evaluate(p) ==
    /\ calls[p].pc = "fresh" /\ calls[p].kind = "mint"
    /\ IF Decision(p) = "refuse" THEN Answered(p)
       ELSE calls' = [calls EXCEPT ![p].pc = Decision(p)]
    /\ UNCHANGED <<chain, obs, poll, serving, files, memory, bucket, changes>>

(* The message is recorded, under a second lock, and signed.  A retry is   *)
(* signed again without being recorded.                                    *)
handle(p) ==
    /\ calls[p].kind = "mint" /\ calls[p].pc \in {"sign", "again"}
    /\ seen' = IF calls[p].pc = "sign" THEN [seen EXCEPT ![calls[p].subject] = calls[p].value]
               ELSE seen
    /\ Answered(p)
    /\ UNCHANGED <<chain, obs, poll, serving, files, signed, given, bucket, changes>>

-----------------------------------------------------------------------------
(* sign_governance.                                                        *)

Approves(c) ==
    approvals[c.subject] = [value |-> c.value, epoch |-> c.epoch, expired |-> FALSE]

(* approve, up to the file: exactly this proposal, staged under the epoch  *)
(* observed, not expired.                                                  *)
approve_loads(p) ==
    /\ calls[p].pc = "fresh" /\ calls[p].kind = "governance"
    /\ IF EpochMatches(p) /\ Approves(calls[p])
       THEN calls' = [calls EXCEPT ![p].pc = "approved"]
       ELSE Answered(p)
    /\ UNCHANGED <<chain, obs, poll, serving, files, memory, bucket, changes>>

(* The equivocation guard, and the signature. *)
approve_signs_unguarded(p) ==
    /\ calls[p].pc = "approved" /\ calls[p].kind = "governance"
    /\ signed' = [signed EXCEPT ![calls[p].subject] = calls[p].value]
    /\ given' = given \cup {Message(calls[p])}
    /\ Answered(p)
    /\ UNCHANGED <<chain, obs, poll, serving, files, seen, bucket, changes>>

approve_signs(p) ==
    /\ calls[p].pc = "approved" /\ calls[p].kind = "governance"
    /\ LET c == calls[p] IN
       IF signed[c.subject] \in {None, c.value}
       THEN /\ signed' = [signed EXCEPT ![c.subject] = c.value]
            /\ given' = given \cup {Message(c)}
       ELSE UNCHANGED <<signed, given>>
    /\ Answered(p)
    /\ UNCHANGED <<chain, obs, poll, serving, files, seen, bucket, changes>>

-----------------------------------------------------------------------------
(* sign_payout, sign_completion and sign_sweep: the same gate, then an arm *)
(* that decides on what it finds itself, over many awaits (see             *)
(* WithdrawalPipeline and VaultSweep).                                     *)

Gate(p) ==
    /\ calls[p].pc = "fresh"
    /\ IF EpochMatches(p) THEN calls' = [calls EXCEPT ![p].pc = "admitted"] ELSE Answered(p)
    /\ UNCHANGED <<chain, obs, poll, serving, files, memory, bucket, changes>>

handle_payout(p) == calls[p].kind = "payout" /\ Gate(p)
handle_completion(p) == calls[p].kind = "completion" /\ Gate(p)
handle_sweep(p) == calls[p].kind = "sweep" /\ Gate(p)

ArmAnswers(p) ==
    /\ calls[p].pc = "admitted"
    /\ Answered(p)
    /\ UNCHANGED <<chain, obs, poll, serving, files, memory, bucket, changes>>

-----------------------------------------------------------------------------
(* The validator's own relayer and operator, and the chain.                *)

(* The claim this validator's database holds for a deposit changes: a row  *)
(* becomes signable, under the epoch its relayer was configured with, is   *)
(* replaced by the row of another block, or leaves (minted, halted).       *)
LocalRowChanges(i, m) ==
    /\ m \in 0..chainEpoch \cup {None} /\ m # local[i]
    /\ local' = [local EXCEPT ![i] = m]
    /\ Change
    /\ UNCHANGED <<chain, obs, poll, serving, approvals, memory, bucket, calls>>

(* glc-admin approve-*: one approval per action, the last one staged. *)
stage(a, c, e) ==
    /\ approvals' = [approvals EXCEPT ![a] = [value |-> c, epoch |-> e, expired |-> FALSE]]
    /\ Change
    /\ UNCHANGED <<chain, obs, poll, serving, local, memory, bucket, calls>>

revoke_approval(a) ==
    /\ approvals[a] # None
    /\ approvals' = [approvals EXCEPT ![a] = None]
    /\ Change
    /\ UNCHANGED <<chain, obs, poll, serving, local, memory, bucket, calls>>

(* Twenty-four hours later. *)
ApprovalExpires(a) ==
    /\ approvals[a] # None /\ ~approvals[a].expired
    /\ approvals' = [approvals EXCEPT ![a].expired = TRUE]
    /\ Change
    /\ UNCHANGED <<chain, obs, poll, serving, local, memory, bucket, calls>>

Rotate ==
    /\ chainEpoch < MaxEpoch
    /\ chainEpoch' = chainEpoch + 1
    /\ Change
    /\ UNCHANGED <<retired, obs, poll, serving, files, memory, bucket, calls>>

Older(age, limit) == IF age < limit THEN age + 1 ELSE age

(* The refresher wakes up in time, a read ends within Latency, and no whole*)
(* tick passes between two adjacent stores or two adjacent loads.          *)
Tick ==
    /\ poll.pc = "sleep" => ~serving \/ poll.age < PollInterval
    /\ poll.pc = "read" => poll.age < Latency
    /\ poll.pc # "stored"
    /\ \A p \in Peers : calls[p].pc # "fresh"
    /\ retired' = [e \in Epochs |-> IF e < chainEpoch THEN Older(retired[e], Horizon + 1) ELSE 0]
    /\ obs' = [obs EXCEPT !.age = Older(@, Staleness + 1)]
    /\ poll' = [poll EXCEPT !.age = IF serving \/ poll.pc = "read" THEN @ + 1 ELSE @]
    /\ bucket' = [p \in Peers |-> IF bucket[p] + Refill < Burst THEN bucket[p] + Refill ELSE Burst]
    /\ UNCHANGED <<chainEpoch, serving, files, memory, calls, changes>>

-----------------------------------------------------------------------------
Handle(p) ==
    \/ evaluate(p) \/ handle(p)
    \/ approve_loads(p) \/ approve_signs(p)
    \/ handle_payout(p) \/ handle_completion(p) \/ handle_sweep(p) \/ ArmAnswers(p)

Refresh == observe_epoch \/ record_begins \/ record_ends \/ seeded

Next ==
    \/ Refresh \/ observe_epoch_fails \/ Restart \/ Rotate \/ Tick
    \/ \E p \in Peers : Arrive(p) \/ from_wire_refuses(p) \/ expired_refuses(p) \/ Handle(p)
    \/ \E i \in Subjects, m \in Epochs \cup {None} : LocalRowChanges(i, m)
    \/ \E a \in Actions : revoke_approval(a) \/ ApprovalExpires(a)
    \/ \E a \in Actions, c \in Commitments, e \in Epochs : stage(a, c, e)

Spec == Init /\ [][Next]_vars

(* The refresher, the handlers and time go on; the operator of glc-admin   *)
(* tries again.                                                            *)
Fairness ==
    /\ WF_vars(Refresh) /\ WF_vars(Tick)
    /\ \A p \in Peers : WF_vars(Handle(p))
    /\ WF_vars(Arrive(Operator))

LiveSpec == Spec /\ Fairness

-----------------------------------------------------------------------------
CallType == [pc : {"idle", "fresh", "sign", "again", "approved", "admitted"},
             kind : Kinds, subject : Subjects \cup Actions \cup {None},
             value : Epochs \cup Commitments \cup {None}, epoch : Epochs]

(* The variables' types; a refused or answered request leaves no trace, a  *)
(* process that is down serves none, and a mint is about a deposit and a   *)
(* proposal about an action.                                               *)
TypeOK ==
    /\ chainEpoch \in Epochs
    /\ retired \in [Epochs -> 0..(Horizon + 1)]
    /\ obs \in [epoch : Epochs, age : 0..(Staleness + 1)]
    /\ poll \in [pc : {"sleep", "read", "stored"}, epoch : Epochs, age : Nat]
    /\ serving \in BOOLEAN
    /\ local \in [Subjects -> Epochs \cup {None}]
    /\ seen \in [Subjects -> Epochs \cup {None}]
    /\ approvals \in [Actions ->
          [value : Commitments, epoch : Epochs, expired : BOOLEAN] \cup {None}]
    /\ signed \in [Actions -> Commitments \cup {None}]
    /\ bucket \in [Peers -> 0..Burst]
    /\ calls \in [Peers -> CallType]
    /\ given \subseteq Request
    /\ changes \in 0..MaxChanges
    /\ ~serving => calls = [p \in Peers |-> NoCall]
    /\ \A p \in Peers : calls[p].pc # "idle" =>
          /\ calls[p].kind = "mint" => calls[p].subject \in Subjects /\ calls[p].value \in Epochs
          /\ calls[p].kind = "governance" =>
                calls[p].subject \in Actions /\ calls[p].value \in Commitments

LiveWithin(e) == e = chainEpoch \/ (e < chainEpoch /\ retired[e] <= Horizon)

(* Whatever a handler lets pass quotes an epoch that is current, or was at *)
(* most MAX_VIEW_STALENESS plus one read of the chain ago: neither an      *)
(* outage of the refresher nor the order of its two stores and of a        *)
(* handler's two loads makes a retired federation look current for longer. *)
PassedUnderALiveEpoch ==
    [][\A p \in Peers :
          calls[p].pc = "fresh" /\ calls'[p].pc \in {"sign", "again", "approved", "admitted"}
              => LiveWithin(calls[p].epoch)]_vars

(* The service keeps SignerPromise: every mint it signs was in its own     *)
(* record, every proposal on its operator's file, under the epoch, when    *)
(* the request was examined, and in one run of the process it signs one    *)
(* proposal per action, whatever is staged, revoked or asked concurrently. *)
pledged == {Message(calls[p]) : p \in {q \in Peers : calls[q].pc \in {"sign", "again", "approved"}}}
Promise == INSTANCE SignerPromise WITH
    Nothing <- None, Values <- Epochs \cup Commitments, record <- local, consent <- approvals
PromiseIsKept == Promise!Spec

(* A proposal the operator has approved, and this process has not signed   *)
(* against, is signed in the end or the operator thinks again, although    *)
(* another peer floods the service and reads of the chain fail for a time. *)
Consented(a) ==
    /\ approvals[a] = [value |-> Wanted, epoch |-> chainEpoch, expired |-> FALSE]
    /\ signed[a] \in {None, Wanted}
ConsentIsSigned ==
    \A a \in Actions :
        Consented(a) ~> \/ ~Consented(a)
                        \/ governance_request(a, Wanted, chainEpoch) \in given
=============================================================================
