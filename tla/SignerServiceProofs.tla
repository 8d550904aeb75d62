------------------------ MODULE SignerServiceProofs ------------------------
(***************************************************************************)
(* Theorems about SignerService: it is well typed, implements SignerPromise*)
(* and lets no long retired epoch pass, for every number of peers,         *)
(* deposits, actions, proposals and epochs, every timing and allowance.    *)
(***************************************************************************)
EXTENDS SignerService, TLAPS

(* What a process has signed it remembers, until it restarts. *)
Remembered ==
    \A g \in given :
        /\ g.kind = "governance" /\ g.subject \in Actions /\ g.value \in Commitments
        /\ signed[g.subject] = g.value

IInv == TypeOK /\ Remembered

-----------------------------------------------------------------------------
(* The requests the peers make are well formed. *)
LEMMA RequestShape ==
    ASSUME TypeOK, NEW p \in Peers, NEW r \in RequestsOf(p)
    PROVE  /\ r \in Request
           /\ r.kind = "mint" => r.subject \in Subjects /\ r.value \in Epochs
           /\ r.kind = "governance" => r.subject \in Actions /\ r.value \in Commitments
<1> USE SignerAssumption
<1>1. CASE p = Operator
  <2>1. PICK a \in Actions : r = governance_request(a, Wanted, chainEpoch)
        BY <1>1 DEF RequestsOf, OperatorRequests
  <2> QED BY <2>1 DEF governance_request, Request, Kinds, TypeOK
<1>2. CASE p # Operator
  <2>1. r \in PeerRequests BY <1>2 DEF RequestsOf
  <2>2. CASE \E i \in Subjects, m \in Epochs, e \in Epochs : r = mint_request(i, m, e)
        BY <2>2 DEF mint_request, Request, Kinds
  <2>3. CASE \E a \in Actions, c \in Commitments, e \in Epochs : r = governance_request(a, c, e)
        BY <2>3 DEF governance_request, Request, Kinds
  <2>4. CASE \E k \in Arms, e \in Epochs : r = arm_request(k, e)
        BY <2>4 DEF arm_request, Request, Kinds, Arms
  <2> QED BY <2>1, <2>2, <2>3, <2>4 DEF PeerRequests
<1> QED BY <1>1, <1>2

(* A call becomes another one of its type, or none. *)
CallFine(c) ==
    /\ c \in CallType
    /\ c.pc # "idle" =>
          /\ c.kind = "mint" => c.subject \in Subjects /\ c.value \in Epochs
          /\ c.kind = "governance" => c.subject \in Actions /\ c.value \in Commitments
CallsFine ==
    /\ calls \in [Peers -> CallType]
    /\ \A p \in Peers : CallFine(calls[p])
    /\ ~serving => calls = [p \in Peers |-> NoCall]

(* TypeOK covers the requests in progress. *)
LEMMA TypeGivesCalls == TypeOK => CallsFine
BY DEF TypeOK, CallsFine, CallFine

(* No request is a well-formed one. *)
LEMMA NoCallFine == CallFine(NoCall)
BY SignerAssumption DEF CallFine, NoCall, CallType, Kinds, Epochs

(* One peer's request becomes another well-formed one. *)
LEMMA OneCallChanges ==
    ASSUME CallsFine, NEW p \in Peers, NEW c, CallFine(c), serving, serving' = serving,
           calls' = [calls EXCEPT ![p] = c]
    PROVE  CallsFine'
BY DEF CallsFine, CallFine

(* A request that is answered leaves the others well formed. *)
LEMMA CallEnds ==
    ASSUME CallsFine, NEW p \in Peers, serving, serving' = serving, Answered(p)
    PROVE  CallsFine'
BY OneCallChanges, NoCallFine DEF Answered

(* So does one that goes on to its next step. *)
LEMMA CallAdvances ==
    ASSUME CallsFine, NEW p \in Peers, NEW pc \in {"sign", "again", "approved", "admitted"},
           calls[p].pc # "idle", serving, serving' = serving,
           calls' = [calls EXCEPT ![p].pc = pc]
    PROVE  CallsFine'
<1> DEFINE c == [calls[p] EXCEPT !.pc = pc]
<1>1. CallFine(c) BY DEF CallsFine, CallFine, CallType
<1>2. calls' = [calls EXCEPT ![p] = c] BY DEF CallsFine
<1> QED BY <1>1, <1>2, OneCallChanges

(* Nobody is served while the process is down. *)
LEMMA BusyIsServing ==
    ASSUME CallsFine, NEW p \in Peers, calls[p].pc # "idle"
    PROVE  serving
BY DEF CallsFine, NoCall

-----------------------------------------------------------------------------
(* The other parts of TypeOK, by what an action may touch. *)
ClockFine ==
    /\ chainEpoch \in Epochs
    /\ retired \in [Epochs -> 0..(Horizon + 1)]
    /\ obs \in [epoch : Epochs, age : 0..(Staleness + 1)]
    /\ poll \in [pc : {"sleep", "read", "stored"}, epoch : Epochs, age : Nat]
    /\ serving \in BOOLEAN
FilesFine ==
    /\ local \in [Subjects -> Epochs \cup {None}]
    /\ approvals \in [Actions ->
          [value : Commitments, epoch : Epochs, expired : BOOLEAN] \cup {None}]
MemoryFine ==
    /\ seen \in [Subjects -> Epochs \cup {None}]
    /\ signed \in [Actions -> Commitments \cup {None}]
    /\ given \subseteq Request
    /\ Remembered
CountsFine == bucket \in [Peers -> 0..Burst] /\ changes \in 0..MaxChanges

(* The invariant in the parts that actions touch. *)
LEMMA Parts == IInv <=> ClockFine /\ FilesFine /\ MemoryFine /\ CountsFine /\ CallsFine
BY DEF IInv, TypeOK, ClockFine, FilesFine, MemoryFine, CountsFine, CallsFine, CallFine

(* The same, of the next state. *)
LEMMA PartsNext == IInv' <=> ClockFine' /\ FilesFine' /\ MemoryFine' /\ CountsFine' /\ CallsFine'
BY DEF IInv, TypeOK, ClockFine, FilesFine, MemoryFine, CountsFine, CallsFine, CallFine

(* A part stays fine while its variables do. *)
LEMMA ClockStays ==
    ASSUME ClockFine, UNCHANGED <<chain, obs, poll, serving>> PROVE ClockFine'
BY DEF ClockFine, chain

(* The records and approval files. *)
LEMMA FilesStay == ASSUME FilesFine, UNCHANGED files PROVE FilesFine'
BY DEF FilesFine, files

(* What the process remembers. *)
LEMMA MemoryStays == ASSUME MemoryFine, UNCHANGED memory PROVE MemoryFine'
BY DEF MemoryFine, memory, Remembered

(* The requests in progress. *)
LEMMA CallsStay == ASSUME CallsFine, UNCHANGED <<calls, serving>> PROVE CallsFine'
BY DEF CallsFine, CallFine

(* The rate limits and the count of changes. *)
LEMMA CountsStay == ASSUME CountsFine, UNCHANGED <<bucket, changes>> PROVE CountsFine'
BY DEF CountsFine

(* The count of changes stays within its bound. *)
LEMMA CountsChange == ASSUME CountsFine, UNCHANGED bucket, Change PROVE CountsFine'
BY SignerAssumption DEF CountsFine, Change

(* A peer is charged only what its bucket holds. *)
LEMMA CountsCharge ==
    ASSUME CountsFine, NEW p \in Peers, check_rate_limit(p), charge(p),
           UNCHANGED changes \/ Change
    PROVE  CountsFine'
BY SignerAssumption DEF CountsFine, Change, check_rate_limit, charge, peer_key

(* Epochs and the horizon are numbers. *)
LEMMA EpochArithmetic == 0 \in Epochs /\ Horizon \in Nat
BY SignerAssumption DEF Epochs, Horizon

-----------------------------------------------------------------------------
(* A service that starts is well typed and has signed nothing. *)
LEMMA InitHolds == Init => IInv
<1> SUFFICES ASSUME Init PROVE ClockFine /\ FilesFine /\ MemoryFine /\ CountsFine /\ CallsFine
    BY Parts
<1> USE EpochArithmetic, SignerAssumption
<1>1. ClockFine BY DEF Init, ClockFine
<1>2. FilesFine BY DEF Init, FilesFine
<1>3. MemoryFine BY DEF Init, MemoryFine, Remembered
<1>4. CountsFine BY DEF Init, CountsFine
<1>5. CallsFine BY NoCallFine DEF Init, CallsFine, CallFine
<1> QED BY <1>1, <1>2, <1>3, <1>4, <1>5

(* The refresher, the start and the restart of the process. *)
LEMMA RefreshKeeps ==
    ASSUME IInv, Refresh \/ observe_epoch_fails \/ Rotate PROVE IInv'
<1> SUFFICES ClockFine' /\ FilesFine' /\ MemoryFine' /\ CountsFine' /\ CallsFine' BY PartsNext
<1> USE EpochArithmetic, SignerAssumption
<1>0. ClockFine /\ FilesFine /\ MemoryFine /\ CountsFine /\ CallsFine BY Parts
<1>1. FilesFine' /\ MemoryFine'
      BY <1>0, FilesStay, MemoryStays
      DEF Refresh, observe_epoch, record_begins, record_ends, seeded, observe_epoch_fails, Rotate
<1>2. CountsFine'
      BY <1>0, CountsStay, CountsChange
      DEF Refresh, observe_epoch, record_begins, record_ends, seeded, observe_epoch_fails, Rotate
<1>3. CallsFine'
      BY <1>0, CallsStay
      DEF CallsFine, CallFine, Refresh, observe_epoch, record_begins, record_ends, seeded,
          observe_epoch_fails, Rotate
<1>4. ClockFine'
  <2>1. CASE observe_epoch BY <2>1, <1>0 DEF observe_epoch, ClockFine, chain
  <2>2. CASE record_begins BY <2>2, <1>0 DEF record_begins, Store, StoreOrder, ClockFine, chain
  <2>3. CASE record_ends BY <2>3, <1>0 DEF record_ends, Store, StoreOrder, ClockFine, chain
  <2>4. CASE seeded BY <2>4, <1>0 DEF seeded, ClockFine, chain
  <2>5. CASE observe_epoch_fails BY <2>5, <1>0 DEF observe_epoch_fails, ClockFine, chain
  <2>6. CASE Rotate BY <2>6, <1>0 DEF Rotate, ClockFine, Epochs
  <2> QED BY <2>1, <2>2, <2>3, <2>4, <2>5, <2>6 DEF Refresh
<1> QED BY <1>1, <1>2, <1>3, <1>4

(* A restart forgets the requests and what was signed. *)
LEMMA RestartKeeps == ASSUME IInv, Restart PROVE IInv'
<1> SUFFICES ClockFine' /\ FilesFine' /\ MemoryFine' /\ CountsFine' /\ CallsFine' BY PartsNext
<1> USE EpochArithmetic, SignerAssumption
<1>0. ClockFine /\ FilesFine /\ MemoryFine /\ CountsFine /\ CallsFine BY Parts
<1>1. ClockFine' BY <1>0 DEF Restart, ClockFine, chain
<1>2. FilesFine' BY <1>0, FilesStay DEF Restart
<1>3. MemoryFine' BY <1>0 DEF Restart, MemoryFine, Remembered
<1>4. CountsFine' BY <1>0 DEF Restart, CountsFine, Change
<1>5. CallsFine' BY NoCallFine DEF Restart, CallsFine, CallFine
<1> QED BY <1>1, <1>2, <1>3, <1>4, <1>5

(* Time passes: ages grow up to their bounds. *)
LEMMA TickKeeps == ASSUME IInv, Tick PROVE IInv'
<1> SUFFICES ClockFine' /\ FilesFine' /\ MemoryFine' /\ CountsFine' /\ CallsFine' BY PartsNext
<1> USE EpochArithmetic, SignerAssumption
<1>0. ClockFine /\ FilesFine /\ MemoryFine /\ CountsFine /\ CallsFine BY Parts
<1>1. ClockFine'
  <2>1. retired' \in [Epochs -> 0..(Horizon + 1)] BY <1>0 DEF Tick, ClockFine, Older
  <2>2. obs' \in [epoch : Epochs, age : 0..(Staleness + 1)] BY <1>0 DEF Tick, ClockFine, Older
  <2>3. poll' \in [pc : {"sleep", "read", "stored"}, epoch : Epochs, age : Nat]
        BY <1>0 DEF Tick, ClockFine
  <2> QED BY <2>1, <2>2, <2>3, <1>0 DEF Tick, ClockFine
<1>2. FilesFine' /\ MemoryFine' BY <1>0, FilesStay, MemoryStays DEF Tick
<1>3. CountsFine' BY <1>0 DEF Tick, CountsFine
<1>4. CallsFine' BY <1>0, CallsStay DEF Tick
<1> QED BY <1>1, <1>2, <1>3, <1>4

(* The operator and the relayer of this validator. *)
LEMMA FileChangeKeeps ==
    ASSUME IInv,
           \/ \E i \in Subjects, m \in Epochs \cup {None} : LocalRowChanges(i, m)
           \/ \E a \in Actions : revoke_approval(a) \/ ApprovalExpires(a)
           \/ \E a \in Actions, c \in Commitments, e \in Epochs : stage(a, c, e)
    PROVE  IInv'
<1> SUFFICES ClockFine' /\ FilesFine' /\ MemoryFine' /\ CountsFine' /\ CallsFine' BY PartsNext
<1>0. ClockFine /\ FilesFine /\ MemoryFine /\ CountsFine /\ CallsFine BY Parts
<1>1. FilesFine'
  <2>1. ASSUME NEW i \in Subjects, NEW m \in Epochs \cup {None}, LocalRowChanges(i, m)
        PROVE FilesFine'
        BY <2>1, <1>0 DEF LocalRowChanges, FilesFine
  <2>2. ASSUME NEW a \in Actions, revoke_approval(a) PROVE FilesFine'
        BY <2>2, <1>0 DEF revoke_approval, FilesFine
  <2>3. ASSUME NEW a \in Actions, ApprovalExpires(a) PROVE FilesFine'
        BY <2>3, <1>0 DEF ApprovalExpires, FilesFine
  <2>4. ASSUME NEW a \in Actions, NEW c \in Commitments, NEW e \in Epochs, stage(a, c, e)
        PROVE FilesFine'
        BY <2>4, <1>0 DEF stage, FilesFine
  <2> QED BY <2>1, <2>2, <2>3, <2>4
<1>2. UNCHANGED <<chain, obs, poll, serving>> /\ UNCHANGED memory /\ UNCHANGED bucket /\ Change
      /\ UNCHANGED <<calls, serving>>
      BY DEF LocalRowChanges, revoke_approval, ApprovalExpires, stage
<1> QED BY <1>0, <1>1, <1>2, ClockStays, MemoryStays, CountsChange, CallsStay

(* A request arrives, or is refused at the door. *)
LEMMA ArrivalKeeps ==
    ASSUME IInv, NEW p \in Peers, Arrive(p) \/ from_wire_refuses(p) \/ expired_refuses(p)
    PROVE  IInv'
<1> SUFFICES ClockFine' /\ FilesFine' /\ MemoryFine' /\ CountsFine' /\ CallsFine' BY PartsNext
<1>0. TypeOK /\ ClockFine /\ FilesFine /\ MemoryFine /\ CountsFine /\ CallsFine BY Parts DEF IInv
<1>1. ClockFine' /\ FilesFine' /\ MemoryFine'
      BY <1>0, ClockStays, FilesStay, MemoryStays DEF Arrive, from_wire_refuses, expired_refuses
<1>2. CountsFine' BY <1>0, CountsCharge DEF Arrive, from_wire_refuses, expired_refuses
<1>3. CallsFine'
  <2>1. CASE UNCHANGED <<calls, serving>> BY <2>1, <1>0, CallsStay
  <2>2. ASSUME NEW r \in RequestsOf(p), calls' = [calls EXCEPT ![p] = CallOf(r, "fresh")],
               serving, serving' = serving
        PROVE  CallsFine'
    <3>1. CallFine(CallOf(r, "fresh"))
          BY <1>0, RequestShape DEF CallFine, CallOf, CallType, Request
    <3> QED BY <3>1, <2>2, <1>0, OneCallChanges
  <2> QED BY <2>1, <2>2 DEF Arrive, from_wire_refuses, expired_refuses
<1> QED BY <1>1, <1>2, <1>3

(* A request is examined, and leaves or goes on. *)
Examines(p) ==
    evaluate(p) \/ approve_loads(p) \/ handle_payout(p) \/ handle_completion(p) \/ handle_sweep(p)

(* Examining a request changes nothing but that request. *)
LEMMA ExamineSteps ==
    ASSUME NEW p \in Peers, Examines(p)
    PROVE  /\ UNCHANGED <<chain, obs, poll, serving, files, memory, bucket, changes>>
           /\ calls[p].pc = "fresh"
           /\ \/ Answered(p)
              \/ \E pc \in {"sign", "again", "approved", "admitted"} :
                    calls' = [calls EXCEPT ![p].pc = pc]
<1>1. CASE evaluate(p)
  <2>1. Decision(p) \in {"refuse", "sign", "again"} BY DEF Decision
  <2> QED BY <1>1, <2>1 DEF evaluate
<1>2. CASE approve_loads(p) BY <1>2 DEF approve_loads
<1>3. CASE Gate(p) BY <1>3 DEF Gate
<1> QED BY <1>1, <1>2, <1>3 DEF Examines, handle_payout, handle_completion, handle_sweep

(* Every step of a handler keeps the invariant. *)
LEMMA HandleKeeps == ASSUME IInv, NEW p \in Peers, Handle(p) PROVE IInv'
<1> SUFFICES ClockFine' /\ FilesFine' /\ MemoryFine' /\ CountsFine' /\ CallsFine' BY PartsNext
<1>0. ClockFine /\ FilesFine /\ MemoryFine /\ CountsFine /\ CallsFine BY Parts
<1>1. CASE Examines(p)
  <2>1. ClockFine' /\ FilesFine' /\ MemoryFine' /\ CountsFine'
        BY <1>0, <1>1, ExamineSteps, ClockStays, FilesStay, MemoryStays, CountsStay
  <2>2. CallsFine'
        BY <1>0, <1>1, ExamineSteps, BusyIsServing, CallEnds, CallAdvances
  <2> QED BY <2>1, <2>2
<1>2. CASE ArmAnswers(p)
  <2>1. ClockFine' /\ FilesFine' /\ MemoryFine' /\ CountsFine'
        BY <1>0, <1>2, ClockStays, FilesStay, MemoryStays, CountsStay DEF ArmAnswers
  <2>2. CallsFine' BY <1>0, <1>2, BusyIsServing, CallEnds DEF ArmAnswers
  <2> QED BY <2>1, <2>2
<1>3. CASE handle(p)
  <2>1. ClockFine' /\ FilesFine' /\ CountsFine'
        BY <1>0, <1>3, ClockStays, FilesStay, CountsStay DEF handle
  <2>2. CallsFine' BY <1>0, <1>3, BusyIsServing, CallEnds DEF handle
  <2>3. calls[p].subject \in Subjects /\ calls[p].value \in Epochs
        BY <1>0, <1>3 DEF handle, CallsFine, CallFine
  <2>4. MemoryFine' BY <1>0, <1>3, <2>3 DEF handle, MemoryFine, Remembered
  <2> QED BY <2>1, <2>2, <2>4
<1>4. CASE approve_signs(p)
  <2>1. ClockFine' /\ FilesFine' /\ CountsFine'
        BY <1>0, <1>4, ClockStays, FilesStay, CountsStay DEF approve_signs
  <2>2. CallsFine' BY <1>0, <1>4, BusyIsServing, CallEnds DEF approve_signs
  <2>3. /\ calls[p].subject \in Actions /\ calls[p].value \in Commitments
        /\ calls[p].epoch \in Epochs /\ calls[p].kind = "governance"
        BY <1>0, <1>4 DEF approve_signs, CallsFine, CallFine, CallType
  <2>4. Message(calls[p]) \in Request BY <2>3 DEF Message, Request, Kinds
  <2>5. ASSUME UNCHANGED <<signed, given>> PROVE MemoryFine'
        BY <1>0, <1>4, <2>5 DEF approve_signs, MemoryFine, Remembered
  <2>6. ASSUME signed[calls[p].subject] \in {None, calls[p].value},
               signed' = [signed EXCEPT ![calls[p].subject] = calls[p].value],
               given' = given \cup {Message(calls[p])}
        PROVE  MemoryFine'
    <3>1. Remembered'
          BY <1>0, <2>3, <2>6, SignerAssumption DEF MemoryFine, Remembered, Message
    <3> QED BY <1>0, <1>4, <2>3, <2>4, <2>6, <3>1 DEF approve_signs, MemoryFine
  <2>7. MemoryFine' BY <1>4, <2>5, <2>6 DEF approve_signs
  <2> QED BY <2>1, <2>2, <2>7
<1> QED BY <1>1, <1>2, <1>3, <1>4 DEF Handle, Examines

(* Doing nothing keeps it. *)
LEMMA StutterKeeps == ASSUME IInv, UNCHANGED vars PROVE IInv'
BY DEF IInv, TypeOK, Remembered, vars

(* Every step keeps it. *)
LEMMA NextKeeps == IInv /\ [Next]_vars => IInv'
BY RefreshKeeps, RestartKeeps, TickKeeps, FileChangeKeeps, ArrivalKeeps, HandleKeeps, StutterKeeps
   DEF Next

(* The inductive invariant: the service is well typed and remembers what   *)
(* it signed since it started.                                             *)
THEOREM ServiceInvariant == Spec => []IInv
BY InitHolds, NextKeeps, PTL DEF Spec

(* TypeOK: whatever peers ask for, however requests overlap, reads fail    *)
(* and the process restarts, the signer's state is well typed, and while   *)
(* it is down no request is in progress.                                   *)
THEOREM ServiceTypes == Spec => []TypeOK
BY ServiceInvariant, PTL DEF IInv

-----------------------------------------------------------------------------
(* The refinement.  What is pledged is read off the calls, so that a step  *)
(* that leaves the pledging calls alone is a step of the environment.      *)

Pledging(c) == c.pc \in {"sign", "again", "approved"}

(* What is pledged, read off the requests. *)
LEMMA PledgedIs == pledged = {Message(calls[p]) : p \in {q \in Peers : Pledging(calls[q])}}
BY DEF pledged, Pledging

(* The same, of the next state. *)
LEMMA PledgedNextIs ==
    pledged' = {Message(calls'[p]) : p \in {q \in Peers : Pledging(calls'[q])}}
BY DEF pledged, Pledging

(* One call changes, from not pledging to not pledging. *)
LEMMA PledgedStays ==
    ASSUME CallsFine, NEW p \in Peers, NEW c, ~Pledging(calls[p]), ~Pledging(c),
           calls' = [calls EXCEPT ![p] = c]
    PROVE  pledged' = pledged
<1>1. \A q \in Peers : Pledging(calls'[q]) <=> Pledging(calls[q]) BY DEF CallsFine
<1>2. \A q \in Peers : Pledging(calls[q]) => calls'[q] = calls[q] BY DEF CallsFine
<1> QED BY <1>1, <1>2, PledgedIs, PledgedNextIs

(* It begins to pledge. *)
LEMMA PledgedGains ==
    ASSUME CallsFine, NEW p \in Peers, NEW c, ~Pledging(calls[p]), Pledging(c),
           calls' = [calls EXCEPT ![p] = c]
    PROVE  pledged' = pledged \cup {Message(c)}
<1>1. Pledging(calls'[p]) /\ calls'[p] = c BY DEF CallsFine
<1>2. \A q \in Peers \ {p} : calls'[q] = calls[q] BY DEF CallsFine
<1> QED BY <1>1, <1>2, PledgedIs, PledgedNextIs

(* It ends.  Another call may pledge the same message. *)
LEMMA PledgedLoses ==
    ASSUME CallsFine, NEW p \in Peers, Pledging(calls[p]), Answered(p)
    PROVE  pledged' \in {pledged, pledged \ {Message(calls[p])}} /\ pledged' \subseteq pledged
<1>0. ~Pledging(NoCall) BY DEF Pledging, NoCall
<1>1. ~Pledging(calls'[p]) BY <1>0 DEF CallsFine, Answered
<1>2. \A q \in Peers \ {p} : calls'[q] = calls[q] BY DEF CallsFine, Answered
<1>3. pledged = pledged' \cup {Message(calls[p])}
      BY <1>1, <1>2, PledgedIs, PledgedNextIs
<1> QED BY <1>3

(* Without a change of requests nothing is pledged or withdrawn. *)
LEMMA PledgedSame == ASSUME UNCHANGED calls PROVE pledged' = pledged
BY PledgedIs, PledgedNextIs

(* What pledges and gives nothing is a step of the environment. *)
LEMMA EnvironmentStep ==
    ASSUME pledged' = pledged, given' = given PROVE Promise!Next
BY DEF Promise!Next, Promise!Environment

-----------------------------------------------------------------------------
(* A service that starts has promised nothing. *)
LEMMA PromiseInit == Init => Promise!Init
<1> SUFFICES ASSUME Init PROVE Promise!Init OBVIOUS
<1> USE EpochArithmetic, SignerAssumption
<1>1. pledged = {} BY PledgedIs DEF Init, Pledging, NoCall
<1> QED BY <1>1 DEF Init, Promise!Init

(* Examining pledges only what a record or an approval holds. *)
LEMMA ExamineIsPromised ==
    ASSUME IInv, NEW p \in Peers, Examines(p) PROVE Promise!Next
<1> USE SignerAssumption
<1>0. CallsFine BY Parts
<1>1. ~Pledging(calls[p]) BY ExamineSteps DEF Pledging
<1>2. UNCHANGED <<local, approvals, given>> BY ExamineSteps DEF files, memory
<1>3. ASSUME Answered(p) PROVE Promise!Next
  <2>1. ~Pledging(NoCall) BY DEF Pledging, NoCall
  <2>2. pledged' = pledged BY <1>0, <1>1, <1>3, <2>1, PledgedStays DEF Answered
  <2> QED BY <2>2, <1>2, EnvironmentStep
<1>4. ASSUME NEW pc \in {"sign", "again"}, evaluate(p), Decision(p) = pc,
             calls' = [calls EXCEPT ![p].pc = pc]
      PROVE  Promise!Next
  <2> DEFINE c == [calls[p] EXCEPT !.pc = pc]
  <2>1. Pledging(c) /\ Message(c) = Message(calls[p]) /\ calls' = [calls EXCEPT ![p] = c]
        BY <1>0, <1>4 DEF CallsFine, CallType, Pledging, Message
  <2>2. pledged' = pledged \cup {Message(calls[p])}
        BY <1>0, <1>1, <2>1, PledgedGains
  <2>3. /\ calls[p].kind = "mint" /\ calls[p].subject \in Subjects
        /\ calls[p].value \in Epochs /\ calls[p].epoch \in Epochs
        BY <1>0, <1>4 DEF evaluate, CallsFine, CallFine, CallType
  <2>4. local[calls[p].subject] = calls[p].value
        BY <1>4 DEF Decision
  <2>5. Message(calls[p]) \in Promise!Mints
        BY <2>3 DEF Promise!Mints, Message
  <2>6. Promise!Worthy(Message(calls[p]))
        BY <2>3, <2>4, <2>5 DEF Promise!Worthy, Message
  <2>7. Promise!Pledge BY <2>2, <2>5, <2>6, <1>2 DEF Promise!Pledge
  <2> QED BY <2>7 DEF Promise!Next
<1>5. ASSUME approve_loads(p), Approves(calls[p]), calls' = [calls EXCEPT ![p].pc = "approved"]
      PROVE  Promise!Next
  <2> DEFINE c == [calls[p] EXCEPT !.pc = "approved"]
  <2>1. Pledging(c) /\ Message(c) = Message(calls[p]) /\ calls' = [calls EXCEPT ![p] = c]
        BY <1>0, <1>5 DEF CallsFine, CallType, Pledging, Message
  <2>2. pledged' = pledged \cup {Message(calls[p])}
        BY <1>0, <1>1, <2>1, PledgedGains
  <2>3. /\ calls[p].kind = "governance" /\ calls[p].subject \in Actions
        /\ calls[p].value \in Commitments /\ calls[p].epoch \in Epochs
        BY <1>0, <1>5 DEF approve_loads, CallsFine, CallFine, CallType
  <2>4. Message(calls[p]) \in Promise!Proposals
        BY <2>3 DEF Promise!Proposals, Message
  <2>5. Promise!Worthy(Message(calls[p]))
        BY <2>3, <2>4, <1>5 DEF Promise!Worthy, Message, Approves
  <2>6. Promise!Pledge BY <2>2, <2>4, <2>5, <1>2 DEF Promise!Pledge
  <2> QED BY <2>6 DEF Promise!Next
<1>6. ASSUME Gate(p), calls' = [calls EXCEPT ![p].pc = "admitted"] PROVE Promise!Next
  <2> DEFINE c == [calls[p] EXCEPT !.pc = "admitted"]
  <2>1. ~Pledging(c) /\ calls' = [calls EXCEPT ![p] = c]
        BY <1>0, <1>6 DEF CallsFine, CallType, Pledging
  <2>2. pledged' = pledged BY <1>0, <1>1, <2>1, PledgedStays
  <2> QED BY <2>2, <1>2, EnvironmentStep
<1>7. Decision(p) \in {"refuse", "sign", "again"} BY DEF Decision
<1> QED BY <1>3, <1>4, <1>5, <1>6, <1>7
        DEF Examines, evaluate, approve_loads, Gate, handle_payout, handle_completion, handle_sweep

(* Signing gives only what was pledged, one proposal per action. *)
LEMMA SignIsPromised ==
    ASSUME IInv, NEW p \in Peers, handle(p) \/ approve_signs(p) \/ ArmAnswers(p)
    PROVE  Promise!Next
<1> USE SignerAssumption
<1>0. CallsFine /\ MemoryFine BY Parts
<1>1. CASE ArmAnswers(p)
  <2>1. ~Pledging(calls[p]) /\ ~Pledging(NoCall) BY <1>1 DEF ArmAnswers, Pledging, NoCall
  <2>2. pledged' = pledged BY <1>0, <1>1, <2>1, PledgedStays DEF ArmAnswers, Answered
  <2> QED BY <2>2, <1>1, EnvironmentStep DEF ArmAnswers, memory
<1>2. CASE handle(p)
  <2>1. Pledging(calls[p]) BY <1>2 DEF handle, Pledging
  <2>2. pledged' \subseteq pledged BY <1>0, <1>2, <2>1, PledgedLoses DEF handle
  <2>3. Promise!Drop BY <2>2, <1>2 DEF handle, files, Promise!Drop
  <2> QED BY <2>3 DEF Promise!Next
<1>3. CASE approve_signs(p)
  <2> DEFINE m == Message(calls[p])
  <2>1. Pledging(calls[p]) BY <1>3 DEF approve_signs, Pledging
  <2>2. pledged' \in {pledged, pledged \ {m}} /\ pledged' \subseteq pledged
        BY <1>0, <1>3, <2>1, PledgedLoses DEF approve_signs
  <2>3. UNCHANGED <<local, approvals>> BY <1>3 DEF approve_signs, files
  <2>4. ASSUME UNCHANGED given PROVE Promise!Next
    <3>1. Promise!Drop BY <2>2, <2>3, <2>4 DEF Promise!Drop
    <3> QED BY <3>1 DEF Promise!Next
  <2>5. ASSUME signed[calls[p].subject] \in {None, calls[p].value}, given' = given \cup {m}
        PROVE  Promise!Next
    <3>1. /\ calls[p].kind = "governance" /\ calls[p].subject \in Actions
          /\ calls[p].value \in Commitments /\ calls[p].epoch \in Epochs
          BY <1>0, <1>3 DEF approve_signs, CallsFine, CallFine, CallType
    <3>2. m \in Promise!Proposals BY <3>1 DEF Promise!Proposals, Message
    <3>3. m \in pledged BY <2>1, PledgedIs
    <3>4. ~Promise!Equivocates(m)
          BY <1>0, <2>5 DEF Promise!Equivocates, MemoryFine, Remembered, Message
    <3>5. Promise!Give BY <2>2, <2>3, <2>5, <3>2, <3>3, <3>4 DEF Promise!Give
    <3> QED BY <3>5 DEF Promise!Next
  <2> QED BY <1>3, <2>4, <2>5 DEF approve_signs
<1> QED BY <1>1, <1>2, <1>3

(* A request that arrives or is turned away promises nothing. *)
LEMMA ArrivalIsPromised ==
    ASSUME IInv, NEW p \in Peers, Arrive(p) \/ from_wire_refuses(p) \/ expired_refuses(p)
    PROVE  Promise!Next
<1>0. CallsFine BY Parts
<1>1. given' = given BY DEF Arrive, from_wire_refuses, expired_refuses, memory
<1>2. ~Pledging(calls[p]) BY DEF Arrive, from_wire_refuses, expired_refuses, Pledging
<1>3. \A r : ~Pledging(CallOf(r, "fresh")) BY DEF Pledging, CallOf
<1>4. pledged' = pledged
  <2>1. ASSUME UNCHANGED calls PROVE pledged' = pledged BY <2>1, PledgedSame
  <2>2. ASSUME NEW r \in RequestsOf(p), calls' = [calls EXCEPT ![p] = CallOf(r, "fresh")]
        PROVE  pledged' = pledged
        BY <1>0, <1>2, <1>3, <2>2, PledgedStays
  <2> QED BY <2>1, <2>2 DEF Arrive, from_wire_refuses, expired_refuses
<1> QED BY <1>1, <1>4, EnvironmentStep

(* A restart is the abstract restart. *)
LEMMA RestartIsPromised == ASSUME Restart PROVE Promise!Next
<1>1. pledged' = {} BY PledgedNextIs DEF Restart, Pledging, NoCall
<1>2. Promise!Restart BY <1>1 DEF Restart, files, Promise!Restart
<1> QED BY <1>2 DEF Promise!Next

(* The chain, time, the records and the operator's files promise nothing. *)
LEMMA ElsewhereIsPromised ==
    ASSUME \/ Refresh \/ observe_epoch_fails \/ Rotate \/ Tick
           \/ \E i \in Subjects, m \in Epochs \cup {None} : LocalRowChanges(i, m)
           \/ \E a \in Actions : revoke_approval(a) \/ ApprovalExpires(a)
           \/ \E a \in Actions, c \in Commitments, e \in Epochs : stage(a, c, e)
    PROVE  Promise!Next
<1>1. UNCHANGED calls /\ UNCHANGED given
      BY DEF Refresh, observe_epoch, record_begins, record_ends, seeded, observe_epoch_fails,
             Rotate, Tick, LocalRowChanges, revoke_approval, ApprovalExpires, stage, memory
<1> QED BY <1>1, PledgedSame, EnvironmentStep

(* Doing nothing promises nothing. *)
LEMMA StutterIsPromised == ASSUME UNCHANGED vars PROVE UNCHANGED Promise!promiseVars
<1>1. UNCHANGED calls /\ UNCHANGED <<local, approvals, given>> BY DEF vars
<1>2. pledged' = pledged BY <1>1, PledgedSame
<1> QED BY <1>1, <1>2 DEF Promise!promiseVars

(* Every step of the service is one the promise allows. *)
LEMMA NextIsPromised == IInv /\ [Next]_vars => [Promise!Next]_Promise!promiseVars
<1> SUFFICES ASSUME IInv, [Next]_vars PROVE Promise!Next \/ UNCHANGED Promise!promiseVars
    OBVIOUS
<1>1. CASE UNCHANGED vars BY <1>1, StutterIsPromised
<1>2. ASSUME NEW p \in Peers, Handle(p) PROVE Promise!Next
      BY <1>2, ExamineIsPromised, SignIsPromised DEF Handle, Examines
<1>3. CASE Next
      BY <1>2, <1>3, ArrivalIsPromised, RestartIsPromised, ElsewhereIsPromised DEF Next
<1> QED BY <1>1, <1>3

(* The service implements the promise: every pledge rests on the record or *)
(* the approval of that moment, and between two starts no action is signed *)
(* for twice, for any number of peers asking at once.                      *)
THEOREM PromiseKept == Spec => PromiseIsKept
BY ServiceInvariant, PromiseInit, NextIsPromised, PTL DEF Spec, PromiseIsKept, Promise!Spec

-----------------------------------------------------------------------------
(* Freshness.  An epoch that is not current any more has been retired for  *)
(* no longer than the age of what was read about it; a handler that has    *)
(* passed the first load still finds the observation fresh, because time   *)
(* stands still between its two loads and the refresher only renews it.    *)

RetiredFor(e, limit) == e <= chainEpoch /\ (e < chainEpoch => retired[e] <= limit)

CurrentIsNotRetired == \A e \in Epochs : e >= chainEpoch => retired[e] = 0
ObservationFine == RetiredFor(obs.epoch, obs.age + Latency)
PollFine ==
    /\ poll.pc # "sleep" => poll.age <= Latency /\ RetiredFor(poll.epoch, poll.age)
    /\ poll.pc = "stored" => obs.epoch = poll.epoch
LoadsFine == (\E p \in Peers : calls[p].pc = "fresh") => obs.age <= Staleness
FreshInv == CurrentIsNotRetired /\ ObservationFine /\ PollFine /\ LoadsFine

(* Epochs and ages are numbers. *)
LEMMA ClockNumbers ==
    ASSUME ClockFine
    PROVE  /\ chainEpoch \in Nat /\ obs.epoch \in Nat /\ poll.epoch \in Nat
           /\ obs.age \in Nat /\ poll.age \in Nat
           /\ obs.epoch \in Epochs /\ poll.epoch \in Epochs
           /\ \A e \in Epochs : retired[e] \in Nat /\ e \in Nat /\ retired[e] <= Horizon + 1
BY SignerAssumption, EpochArithmetic DEF ClockFine, Epochs

(* At the start the observation is of the current epoch. *)
LEMMA FreshInit == Init => FreshInv
<1> SUFFICES ASSUME Init PROVE FreshInv OBVIOUS
<1> USE SignerAssumption
<1>1. CurrentIsNotRetired BY DEF Init, CurrentIsNotRetired
<1>2. ObservationFine BY DEF Init, ObservationFine, RetiredFor
<1>3. PollFine BY DEF Init, PollFine
<1>4. LoadsFine BY DEF Init, LoadsFine
<1> QED BY <1>1, <1>2, <1>3, <1>4 DEF FreshInv

(* Steps that leave the clocks alone. *)
LEMMA FreshStays ==
    ASSUME FreshInv, UNCHANGED <<chain, obs, poll>>,
           \A p \in Peers : calls'[p].pc = "fresh" => calls[p].pc = "fresh" \/ is_fresh
    PROVE  FreshInv'
<1>1. CurrentIsNotRetired' /\ ObservationFine' /\ PollFine'
      BY DEF FreshInv, CurrentIsNotRetired, ObservationFine, PollFine, RetiredFor, chain
<1>2. LoadsFine' BY DEF FreshInv, LoadsFine, is_fresh
<1> QED BY <1>1, <1>2 DEF FreshInv

(* A poll of the chain, by its stores in their order. *)
LEMMA RefreshIsFresh ==
    ASSUME ClockFine, FreshInv, Refresh \/ observe_epoch_fails PROVE FreshInv'
<1> USE SignerAssumption, ClockNumbers
<1>1. UNCHANGED chain /\ UNCHANGED calls
      BY DEF Refresh, observe_epoch, record_begins, record_ends, seeded, observe_epoch_fails
<1>2. CurrentIsNotRetired' BY <1>1 DEF FreshInv, CurrentIsNotRetired, chain
<1>3. CASE observe_epoch
      BY <1>1, <1>2, <1>3
      DEF observe_epoch, FreshInv, ObservationFine, PollFine, LoadsFine, RetiredFor, chain
<1>4. CASE record_begins
  <2>1. obs'.epoch = poll.epoch /\ obs'.age = obs.age /\ poll'.pc = "stored"
        /\ poll'.epoch = poll.epoch /\ poll'.age = poll.age /\ poll.pc # "sleep"
        BY <1>4 DEF record_begins, Store, StoreOrder, ClockFine
  <2> QED BY <1>1, <1>2, <2>1
          DEF FreshInv, ObservationFine, PollFine, LoadsFine, RetiredFor, chain
<1>5. CASE record_ends
  <2>1. obs'.epoch = obs.epoch /\ obs'.age = 0 /\ poll'.pc = "sleep" /\ poll.pc = "stored"
        BY <1>5 DEF record_ends, Store, StoreOrder, ClockFine
  <2> QED BY <1>1, <1>2, <2>1
          DEF FreshInv, ObservationFine, PollFine, LoadsFine, RetiredFor, chain
<1>6. CASE seeded
  <2>1. obs'.epoch = poll.epoch /\ obs'.age = 0 /\ poll'.pc = "sleep" /\ poll.pc = "read"
        BY <1>6 DEF seeded, ClockFine
  <2> QED BY <1>1, <1>2, <2>1
          DEF FreshInv, ObservationFine, PollFine, LoadsFine, RetiredFor, chain
<1>7. CASE observe_epoch_fails
      BY <1>1, <1>2, <1>7
      DEF observe_epoch_fails, FreshInv, ObservationFine, PollFine, LoadsFine, RetiredFor, chain
<1> QED BY <1>3, <1>4, <1>5, <1>6, <1>7 DEF Refresh

(* A rotation retires the epoch now, for no time yet. *)
LEMMA RotateIsFresh == ASSUME ClockFine, FreshInv, Rotate PROVE FreshInv'
<1> USE SignerAssumption, ClockNumbers
<1>1. chainEpoch' = chainEpoch + 1 /\ UNCHANGED <<retired, obs, poll, calls>> /\ chainEpoch \in Epochs
      BY DEF Rotate, ClockFine
<1>2. CurrentIsNotRetired' BY <1>1 DEF FreshInv, CurrentIsNotRetired
<1>3. ObservationFine' BY <1>1 DEF FreshInv, CurrentIsNotRetired, ObservationFine, RetiredFor
<1>4. PollFine' BY <1>1 DEF FreshInv, CurrentIsNotRetired, PollFine, RetiredFor
<1>5. LoadsFine' BY <1>1 DEF FreshInv, LoadsFine
<1> QED BY <1>2, <1>3, <1>4, <1>5 DEF FreshInv

(* A restart ends the poll and the requests. *)
LEMMA RestartIsFresh == ASSUME FreshInv, Restart PROVE FreshInv'
<1>1. CurrentIsNotRetired' /\ ObservationFine'
      BY DEF Restart, chain, FreshInv, CurrentIsNotRetired, ObservationFine, RetiredFor
<1>2. PollFine' BY DEF Restart, PollFine
<1>3. LoadsFine' BY DEF Restart, LoadsFine, NoCall
<1> QED BY <1>1, <1>2, <1>3 DEF FreshInv

(* What is retired and what was observed grow old together. *)
LEMMA TickIsFresh == ASSUME ClockFine, FreshInv, Tick PROVE FreshInv'
<1> USE SignerAssumption, ClockNumbers
<1>1. CurrentIsNotRetired' BY DEF Tick, CurrentIsNotRetired
<1>2. chainEpoch' = chainEpoch /\ obs'.epoch = obs.epoch
      /\ obs'.age = Older(obs.age, Staleness + 1)
      /\ poll'.pc = poll.pc /\ poll'.epoch = poll.epoch
      BY DEF Tick, ClockFine
<1>3. \A e \in Epochs : e < chainEpoch => retired'[e] = Older(retired[e], Horizon + 1)
      BY DEF Tick
<1>4. ObservationFine'
      BY <1>2, <1>3 DEF FreshInv, ObservationFine, RetiredFor, Older, Horizon
<1>5. PollFine'
  <2>1. CASE poll.pc = "sleep" BY <2>1, <1>2 DEF PollFine
  <2>2. CASE poll.pc = "read"
    <3>1. poll.age < Latency /\ poll'.age = poll.age + 1 BY <2>2 DEF Tick, ClockFine
    <3> QED BY <2>2, <3>1, <1>2, <1>3 DEF FreshInv, PollFine, RetiredFor, Older
  <2> QED BY <2>1, <2>2 DEF Tick, ClockFine
<1>6. LoadsFine' BY DEF Tick, LoadsFine
<1> QED BY <1>1, <1>4, <1>5, <1>6 DEF FreshInv

(* A handler's step: other calls stay, and this one is fresh no longer. *)
LEMMA HandleSteps ==
    ASSUME CallsFine, NEW p \in Peers, Handle(p)
    PROVE  /\ UNCHANGED <<chain, obs, poll>>
           /\ \A q \in Peers \ {p} : calls'[q] = calls[q]
           /\ calls'[p].pc # "fresh"
           /\ calls[p].pc = "fresh" /\ calls'[p].pc # "idle" => EpochMatches(p)
<1>1. CASE evaluate(p)
  <2>1. Decision(p) \in {"refuse", "sign", "again"} /\ (Decision(p) # "refuse" => EpochMatches(p))
        BY DEF Decision
  <2> QED BY <1>1, <2>1 DEF evaluate, Answered, NoCall, CallsFine, CallType
<1>2. CASE approve_loads(p)
      BY <1>2 DEF approve_loads, Answered, NoCall, CallsFine, CallType
<1>3. CASE Gate(p) BY <1>3 DEF Gate, Answered, NoCall, CallsFine, CallType
<1>4. CASE handle(p) \/ approve_signs(p) \/ ArmAnswers(p)
      BY <1>4 DEF handle, approve_signs, ArmAnswers, Answered, NoCall, CallsFine
<1> QED BY <1>1, <1>2, <1>3, <1>4 DEF Handle, handle_payout, handle_completion, handle_sweep

(* Every step keeps it. *)
LEMMA NextIsFresh == IInv /\ FreshInv /\ [Next]_vars => FreshInv'
<1> SUFFICES ASSUME IInv, FreshInv, [Next]_vars PROVE FreshInv' OBVIOUS
<1>0. ClockFine /\ CallsFine BY Parts
<1>1. ASSUME NEW p \in Peers, Handle(p) PROVE FreshInv'
      BY <1>0, <1>1, HandleSteps, FreshStays
<1>2. ASSUME NEW p \in Peers, Arrive(p) \/ from_wire_refuses(p) \/ expired_refuses(p)
      PROVE FreshInv'
  <2>1. \A q \in Peers : calls'[q].pc = "fresh" => calls[q].pc = "fresh" \/ is_fresh
        BY <1>0, <1>2 DEF Arrive, from_wire_refuses, expired_refuses, CallsFine
  <2> QED BY <1>2, <2>1, FreshStays DEF Arrive, from_wire_refuses, expired_refuses
<1>3. ASSUME \/ \E i \in Subjects, m \in Epochs \cup {None} : LocalRowChanges(i, m)
             \/ \E a \in Actions : revoke_approval(a) \/ ApprovalExpires(a)
             \/ \E a \in Actions, c \in Commitments, e \in Epochs : stage(a, c, e)
      PROVE FreshInv'
  <2>1. UNCHANGED <<chain, obs, poll>> /\ UNCHANGED calls
        BY <1>3 DEF LocalRowChanges, revoke_approval, ApprovalExpires, stage
  <2> QED BY <2>1, FreshStays
<1>4. CASE UNCHANGED vars BY <1>4, FreshStays DEF vars, chain
<1> QED BY <1>0, <1>1, <1>2, <1>3, <1>4, RefreshIsFresh, RotateIsFresh, RestartIsFresh, TickIsFresh
        DEF Next

(* What is observed, what is being read and what the handlers rely on are  *)
(* as fresh as their ages say, in every reachable state.                   *)
THEOREM ObservationIsFresh == Spec => [](IInv /\ FreshInv)
BY InitHolds, NextKeeps, FreshInit, NextIsFresh, PTL DEF Spec

(* What passes the second load has an epoch that is live enough. *)
LEMMA PassingIsLive ==
    ASSUME IInv, FreshInv, [Next]_vars, NEW p \in Peers, calls[p].pc = "fresh",
           calls'[p].pc \in {"sign", "again", "approved", "admitted"}
    PROVE  LiveWithin(calls[p].epoch)
<1> USE SignerAssumption, ClockNumbers
<1>0. ClockFine /\ CallsFine BY Parts
<1>1. Handle(p)
  <2>1. calls'[p] # calls[p] OBVIOUS
  <2>2. ASSUME NEW q \in Peers, Handle(q) PROVE Handle(p) BY <2>1, <2>2, <1>0, HandleSteps
  <2>3. ASSUME NEW q \in Peers, Arrive(q) \/ from_wire_refuses(q) \/ expired_refuses(q)
        PROVE FALSE
    <3>1. CASE q = p BY <2>3, <3>1 DEF Arrive, from_wire_refuses, expired_refuses
    <3>2. CASE q # p
          BY <2>1, <2>3, <3>2, <1>0 DEF Arrive, from_wire_refuses, expired_refuses, CallsFine
    <3> QED BY <3>1, <3>2
  <2>4. ASSUME Restart PROVE FALSE BY <2>4 DEF Restart, NoCall
  <2>5. ASSUME \/ Refresh \/ observe_epoch_fails \/ Rotate \/ Tick
               \/ \E i \in Subjects, m \in Epochs \cup {None} : LocalRowChanges(i, m)
               \/ \E a \in Actions : revoke_approval(a) \/ ApprovalExpires(a)
               \/ \E a \in Actions, c \in Commitments, e \in Epochs : stage(a, c, e)
        PROVE FALSE
        BY <2>1, <2>5
        DEF Refresh, observe_epoch, record_begins, record_ends, seeded, observe_epoch_fails,
            Rotate, Tick, LocalRowChanges, revoke_approval, ApprovalExpires, stage
  <2>6. CASE UNCHANGED vars BY <2>1, <2>6 DEF vars
  <2> QED BY <2>2, <2>3, <2>4, <2>5, <2>6 DEF Next
<1>2. calls[p].epoch = obs.epoch BY <1>0, <1>1, HandleSteps DEF EpochMatches
<1>3. obs.age <= Staleness BY DEF FreshInv, LoadsFine
<1> QED BY <1>0, <1>2, <1>3 DEF FreshInv, ObservationFine, RetiredFor, LiveWithin, Horizon

(* Whatever passes the two loads of a handler quotes an epoch that is      *)
(* current or was at most MAX_VIEW_STALENESS and one read of the chain     *)
(* ago, for any staleness bound, poll interval and latency.                *)
THEOREM PassedIsLive == Spec => PassedUnderALiveEpoch
<1>1. IInv /\ FreshInv /\ [Next]_vars =>
        [\A p \in Peers :
          calls[p].pc = "fresh" /\ calls'[p].pc \in {"sign", "again", "approved", "admitted"}
              => LiveWithin(calls[p].epoch)]_vars
      BY PassingIsLive
<1> QED BY <1>1, ObservationIsFresh, PTL DEF Spec, PassedUnderALiveEpoch
=============================================================================
