---------------------- MODULE WithdrawalPipelineProofs ----------------------
(* What the withdrawal pipeline guarantees for every number of operators,  *)
(* withdrawals and vault outputs, and for every number of faults.          *)
EXTENDS WithdrawalPipeline, FiniteSetTheorems, TLAPS

-----------------------------------------------------------------------------
(* The inductive invariant.                                                *)

ExeType ==
    [pc : {"idle", "row", "send", "status", "apply", "reserve", "building", "create",
           "signing", "collect"},
     phase : 1..8, todo : SUBSET Withdrawals, inputs : SUBSET Utxos,
     quorum : SUBSET Operators, attempt : Nat, intent : BOOLEAN,
     got : SUBSET Operators, refused : SUBSET Operators,
     ans : {Unknown} \cup 0..ConfirmationDepth]

SigType ==
    [pc : {"idle", "reserve", "create", "Validated", "Building", "Signing", "window",
           "verify"},
     from : Operators, open : BOOLEAN, w : Nat, inputs : SUBSET Utxos,
     quorum : SUBSET Operators, attempt : Nat, intent : BOOLEAN, was : States]

RowTypes ==
    /\ st \in [Operators -> [Withdrawals -> States]]
    /\ payout \in [Operators -> [Withdrawals -> PayoutType]]
    /\ coin \in [Operators -> [Utxos -> {"Absent", "Available", "Reserved", "Spent"}]]
    /\ holder \in [Operators -> [Utxos -> Withdrawals \cup {Nobody}]]

ChainTypes ==
    /\ burned \subseteq Withdrawals /\ onchain \subseteq burned
    /\ completing \subseteq TxType
    /\ funded \subseteq Utxos
    /\ DOMAIN net \subseteq TxType
    /\ net \in [DOMAIN net -> {Unknown} \cup 0..ConfirmationDepth]
    /\ partials \subseteq [signer : Operators, w : Withdrawals, inputs : SUBSET Utxos]
    /\ reorgs \in 0..MaxReorgs /\ faults \in 0..MaxFaults

Types ==
    /\ RowTypes /\ ChainTypes
    /\ exe \in [Operators -> ExeType]
    /\ sig \in [Operators -> SigType]

(* The row an executor is at exists; what it has collected is signed, over *)
(* the inputs of its own payout, by signers who may sign it; what it sends *)
(* or asks the node about is recorded as signed.                           *)
ExecutorFine(o) ==
    /\ exe[o].pc # "idle" <=> exe[o].todo # {}
    /\ \A w \in exe[o].todo : st[o][w] # "Absent"
    /\ exe[o].pc # "collect" => exe[o].got = {}
    /\ exe[o].pc = "collect" =>
          /\ payout[o][Current(o)].exists
          /\ exe[o].inputs = payout[o][Current(o)].inputs
          /\ exe[o].quorum \in QuorumsOf(Current(o))
          /\ \A q \in exe[o].got :
                [signer |-> q, w |-> Current(o), inputs |-> exe[o].inputs] \in partials
    /\ exe[o].pc \in {"send", "status", "apply"} => payout[o][Current(o)].signed # {}
    /\ exe[o].pc = "apply" /\ Deep(exe[o].ans) => Deep(Status(Tx(o, Current(o))))

(* A request somebody waits for is the one its executor still makes. *)
SignerFine(q) ==
    /\ sig[q].pc # "idle" => sig[q].w \in Withdrawals /\ st[q][sig[q].w] # "Absent"
    /\ sig[q].open =>
          LET e == exe[sig[q].from] IN
          /\ sig[q].pc # "idle" /\ e.pc = "collect"
          /\ Current(sig[q].from) = sig[q].w /\ e.inputs = sig[q].inputs
          /\ q \in e.quorum /\ q \notin e.got \cup e.refused

(* A signed payout carries a partial of every member of a quorum; a        *)
(* completed row is signed and buried.                                     *)
RowFine(o, w) ==
    LET p == payout[o][w] IN
    /\ st[o][w] # "Absent" => w \in burned
    /\ p.exists => p.quorum \in QuorumsOf(w)
    /\ p.signed # {} =>
          /\ p.exists /\ p.signed \in QuorumsOf(w)
          /\ \A q \in p.signed : [signer |-> q, w |-> w, inputs |-> p.inputs] \in partials
    /\ st[o][w] = "Completed" => p.signed # {} /\ Deep(Status(Tx(o, w)))

(* One operator's payouts share no input. *)
PayoutsDisjoint ==
    \A o \in Operators : \A v, w \in Withdrawals :
        v # w /\ payout[o][v].exists /\ payout[o][w].exists =>
            payout[o][v].inputs \cap payout[o][w].inputs = {}

SentFine ==
    /\ \A t \in DOMAIN net : \E o \in Operators :
          payout[o][t.w].signed # {} /\ Tx(o, t.w) = t
    /\ \A t \in completing : t.w \in burned /\ Deep(Status(t))
    /\ \A w \in onchain : \E t \in DOMAIN net : t.w = w /\ Deep(net[t])

(* A partial fixes the inputs of its signer's payout and holds them. *)
PartialFine(p) ==
    LET r == payout[p.signer][p.w] IN
    /\ r.exists /\ r.inputs = p.inputs
    /\ r.completed \/ p.inputs \subseteq Held(p.signer, p.w)

IInv ==
    /\ Types
    /\ \A o \in Operators : ExecutorFine(o)
    /\ \A q \in Operators : SignerFine(q)
    /\ \A o \in Operators, w \in Withdrawals : RowFine(o, w)
    /\ PayoutsDisjoint
    /\ SentFine
    /\ \A p \in partials : PartialFine(p)

-----------------------------------------------------------------------------
(* Lemmas about the executor's bookkeeping.                                *)

(* A nonempty set of numbers has a least member. *)
LEMMA LeastNumber ==
    ASSUME NEW S \in SUBSET Nat, S # {}
    PROVE  Min(S) \in S
<1> DEFINE R == OpToRel(<, Nat)
<1>1. IsWellFoundedOn(R, Nat)
  BY NatLessThanWellFounded, Zenon
<1>2. \E x \in S : \A y \in S : ~(<<y, x>> \in R)
  BY <1>1, WFMin, Zenon
<1>3. \A x, y \in Nat : ~(<<y, x>> \in R) => x =< y
  BY SMT DEF OpToRel
<1>4. \E x \in S : \A y \in S : x =< y
  BY <1>2, <1>3, Zenon
<1> QED
  BY <1>4, Zenon DEF Min

(* The row an executor is at is one it still has to do. *)
LEMMA CurrentIsARow ==
    ASSUME Types, NEW o \in Operators, exe[o].todo # {}
    PROVE  Current(o) \in exe[o].todo /\ Current(o) \in Withdrawals
<1>1. exe[o].todo \in SUBSET Withdrawals
  BY DEF Types, ExeType
<1>2. exe[o].todo \in SUBSET Nat
  BY <1>1, WithdrawalAssumption
<1>3. Min(exe[o].todo) \in exe[o].todo
  BY <1>2, LeastNumber
<1> QED
  BY <1>1, <1>3 DEF Current

(* An executor between two rows, s being its operator's states. *)
Rested(e, s) ==
    /\ e \in ExeType
    /\ e.pc \in {"idle", "row"}
    /\ e.pc # "idle" <=> e.todo # {}
    /\ \A w \in e.todo : s[w] # "Absent"
    /\ e.got = {}

(* An executor that waits for its next tick is between two rows. *)
LEMMA IdleIsRested ==
    ASSUME NEW s
    PROVE  Rested(Idle, s)
BY OperatorAssumption DEF Rested, Idle, ExeType

AtRows(p, todo) == [Idle EXCEPT !.pc = "row", !.phase = p, !.todo = todo]

(* So is one that stands before rows that exist. *)
LEMMA RowIsRested ==
    \A s : \A p \in 1..8, todo \in SUBSET Withdrawals :
        todo # {} /\ (\A w \in todo : s[w] # "Absent") => Rested(AtRows(p, todo), s)
<1> SUFFICES ASSUME NEW p \in 1..8, NEW todo \in SUBSET Withdrawals, NEW s,
                    todo # {}, \A w \in todo : s[w] # "Absent"
             PROVE  Rested(AtRows(p, todo), s)
  OBVIOUS
<1>1. Idle \in ExeType
  BY IdleIsRested DEF Rested
<1>2. AtRows(p, todo) \in ExeType
  BY <1>1 DEF ExeType, AtRows
<1>3. /\ AtRows(p, todo).pc = "row" /\ AtRows(p, todo).todo = todo
      /\ AtRows(p, todo).got = {}
  BY DEF Idle, AtRows
<1> QED
  BY <1>2, <1>3 DEF Rested

(* run_once: beginning a phase leaves the tick between two rows. *)
LEMMA PhaseIsRested ==
    ASSUME NEW p \in 1..9, NEW s \in [Withdrawals -> States]
    PROVE  Rested(FromPhase(p, s), s)
<1> DEFINE busy == {q \in p..8 : RowsIn(q, s) # {}}
           m == Min(busy)
<1>1. CASE busy = {}
  BY <1>1, IdleIsRested DEF FromPhase
<1>2. CASE busy # {}
  <2>1. m \in busy
    <3>1. busy \in SUBSET Nat
      OBVIOUS
    <3> HIDE DEF busy
    <3> QED
      BY <1>2, <3>1, LeastNumber, Zenon
  <2>2. m \in 1..8 /\ RowsIn(m, s) # {}
    <3> HIDE DEF m
    <3> QED
      BY <2>1
  <2>3. FromPhase(p, s) = AtRows(m, RowsIn(m, s))
    BY <1>2 DEF FromPhase, AtRows
  <2>4. RowsIn(m, s) \in SUBSET Withdrawals
    BY DEF RowsIn
  <2>5. PhaseState[m] # "Absent"
    BY <2>2 DEF PhaseState
  <2>6. \A w \in RowsIn(m, s) : s[w] # "Absent"
    BY <2>5 DEF RowsIn
  <2>7. \A t \in SUBSET Withdrawals :
           t # {} /\ (\A w \in t : s[w] # "Absent") => Rested(AtRows(m, t), s)
    BY <2>2, RowIsRested, Zenon
  <2>8. Rested(AtRows(m, RowsIn(m, s)), s)
    BY <2>2, <2>4, <2>6, <2>7, Zenon
  <2> QED
    BY <2>3, <2>8
<1> QED
  BY <1>1, <1>2

(* run_once: so does leaving a row behind. *)
LEMMA NextRowIsRested ==
    ASSUME Types, NEW o \in Operators, NEW s \in [Withdrawals -> States],
           \A w \in exe[o].todo : s[w] # "Absent"
    PROVE  Rested(NextRow(o, s), s)
<1> DEFINE rest == exe[o].todo \ {Current(o)}
<1>0. exe[o] \in ExeType
  BY DEF Types
<1>1. exe[o].phase + 1 \in 1..9
  BY <1>0 DEF ExeType
<1>2. CASE rest = {}
  BY <1>1, <1>2, PhaseIsRested DEF NextRow
<1>3. CASE rest # {}
  <2>1. NextRow(o, s) = AtRows(exe[o].phase, rest)
    BY <1>3 DEF NextRow, AtRows
  <2>2. rest \in SUBSET Withdrawals /\ \A w \in rest : s[w] # "Absent"
    BY <1>0 DEF ExeType
  <2>3. exe[o].phase \in 1..8
    BY <1>0 DEF ExeType
  <2>4. \A t \in SUBSET Withdrawals :
           t # {} /\ (\A w \in t : s[w] # "Absent") => Rested(AtRows(exe[o].phase, t), s)
    BY <2>3, RowIsRested, Zenon
  <2>5. Rested(AtRows(exe[o].phase, rest), s)
    BY <1>3, <2>2, <2>4, Zenon
  <2> QED
    BY <2>1, <2>5
<1> QED
  BY <1>2, <1>3

-----------------------------------------------------------------------------
(* What every step does, and what then stays as it was.                    *)

(* Rows stay known, a payout keeps its inputs and its signatures, a        *)
(* signature and a burn are for ever, and what is deep stays deep.         *)
Grows ==
    /\ \A o \in Operators, w \in Withdrawals :
          /\ st[o][w] # "Absent" => st'[o][w] # "Absent"
          /\ payout[o][w].exists =>
                /\ payout'[o][w].exists /\ payout'[o][w].inputs = payout[o][w].inputs
                /\ payout[o][w].completed => payout'[o][w].completed
          /\ payout[o][w].signed # {} => payout'[o][w].signed = payout[o][w].signed
    /\ partials \subseteq partials'
    /\ burned \subseteq burned'
    /\ \A t \in DOMAIN net : t \in DOMAIN net' /\ (Deep(net[t]) => Deep(net'[t]))

(* No step takes a buried payout out of its block. *)
LEMMA DeepStaysDeep ==
    ASSUME Grows, NEW t, Deep(Status(t))
    PROVE  Deep(Status(t))'
<1>1. t \in DOMAIN net
  BY OperatorAssumption DEF Deep, Status, Unknown
<1> QED
  BY <1>1 DEF Grows, Status, Deep

(* No step changes the transaction of a signed payout. *)
LEMMA SignedTxStays ==
    ASSUME Grows, NEW o \in Operators, NEW w \in Withdrawals, RowFine(o, w),
           payout[o][w].signed # {}
    PROVE  Tx(o, w)' = Tx(o, w) /\ payout'[o][w].signed # {}
<1>1. payout[o][w].exists
  BY DEF RowFine
<1>2. payout'[o][w].inputs = payout[o][w].inputs /\ payout'[o][w].signed = payout[o][w].signed
  BY <1>1 DEF Grows
<1> QED
  BY <1>2 DEF Tx

(* An executor that did not move is still fine. *)
LEMMA ExecutorKept ==
    ASSUME IInv, Grows, NEW o \in Operators, exe'[o] = exe[o]
    PROVE  ExecutorFine(o)'
<1>1. ExecutorFine(o) /\ Types
  BY DEF IInv
<1>2. PICK w : w = Current(o)
  OBVIOUS
<1>3. Current(o)' = w
  BY <1>2 DEF Current
<1>4. exe[o].todo \subseteq Withdrawals
  BY <1>1 DEF Types, ExeType
<1>5. \A v \in exe[o].todo : st'[o][v] # "Absent"
  BY <1>1, <1>4 DEF ExecutorFine, Grows
<1>6. CASE exe[o].pc = "idle"
  BY <1>1, <1>5, <1>6 DEF ExecutorFine
<1>7. CASE exe[o].pc # "idle"
  <2>1. w \in Withdrawals
    BY <1>1, <1>2, <1>7, CurrentIsARow DEF ExecutorFine
  <2>2. RowFine(o, w)
    BY <2>1 DEF IInv
  <2>3. exe[o].pc = "collect" =>
            /\ payout'[o][w].exists
            /\ exe[o].inputs = payout'[o][w].inputs
            /\ exe[o].quorum \in QuorumsOf(w)
            /\ \A q \in exe[o].got :
                  [signer |-> q, w |-> w, inputs |-> exe[o].inputs] \in partials'
    BY <1>1, <1>2, <2>1 DEF ExecutorFine, Grows
  <2>4. exe[o].pc \in {"send", "status", "apply"} => payout'[o][w].signed # {}
    BY <1>1, <1>2, <2>1, <2>2, SignedTxStays DEF ExecutorFine
  <2>5. exe[o].pc = "apply" /\ Deep(exe[o].ans) => Deep(Status(Tx(o, w)))'
    <3> SUFFICES ASSUME exe[o].pc = "apply", Deep(exe[o].ans)
                 PROVE  Deep(Status(Tx(o, w)))'
      BY DEF Deep
    <3>1. payout[o][w].signed # {} /\ Deep(Status(Tx(o, w)))
      BY <1>1, <1>2 DEF ExecutorFine
    <3>2. PICK t : t = Tx(o, w) /\ t = Tx(o, w)'
      BY <2>1, <2>2, <3>1, SignedTxStays
    <3>3. Deep(Status(t))'
      BY <3>1, <3>2, DeepStaysDeep
    <3> QED
      BY <3>2, <3>3 DEF Deep, Status
  <2> QED
    BY <1>1, <1>3, <1>5, <2>3, <2>4, <2>5 DEF ExecutorFine, Deep, QuorumsOf
<1> QED
  BY <1>6, <1>7

(* So is a signer, when the executor it serves did not move either. *)
LEMMA SignerKept ==
    ASSUME IInv, Grows, NEW q \in Operators, sig'[q] = sig[q],
           sig[q].open => exe'[sig[q].from] = exe[sig[q].from]
    PROVE  SignerFine(q)'
<1>1. SignerFine(q)
  BY DEF IInv
<1>2. PICK f, w : f = sig[q].from /\ w = sig[q].w
  OBVIOUS
<1>3. sig[q].pc # "idle" => w \in Withdrawals /\ st'[q][w] # "Absent"
  BY <1>1, <1>2 DEF SignerFine, Grows
<1>4. ASSUME sig[q].open
      PROVE  /\ sig[q].pc # "idle" /\ exe'[f].pc = "collect"
             /\ Current(f)' = w /\ exe'[f].inputs = sig[q].inputs
             /\ q \in exe'[f].quorum /\ q \notin exe'[f].got \cup exe'[f].refused
  BY <1>1, <1>2, <1>4 DEF SignerFine, Current
<1> QED
  BY <1>2, <1>3, <1>4 DEF SignerFine, Current

(* What a payout has that others rely on. *)
Core(p) == <<p.exists, p.inputs, p.quorum, p.signed>>

(* So is a row whose payout stands and which was not completed. *)
LEMMA RowKept ==
    ASSUME IInv, Grows, NEW o \in Operators, NEW w \in Withdrawals,
           Core(payout'[o][w]) = Core(payout[o][w]),
           st'[o][w] = "Completed" => st[o][w] = "Completed",
           st'[o][w] # "Absent" => st[o][w] # "Absent" \/ w \in burned'
    PROVE  RowFine(o, w)'
<1>1. RowFine(o, w)
  BY DEF IInv
<1>2. /\ payout'[o][w].exists = payout[o][w].exists
      /\ payout'[o][w].inputs = payout[o][w].inputs
      /\ payout'[o][w].quorum = payout[o][w].quorum
      /\ payout'[o][w].signed = payout[o][w].signed
  BY DEF Core
<1>3. st'[o][w] # "Absent" => w \in burned'
  BY <1>1 DEF RowFine, Grows
<1>4. payout'[o][w].exists => payout'[o][w].quorum \in QuorumsOf(w)
  BY <1>1, <1>2 DEF RowFine
<1>5. payout'[o][w].signed # {} =>
          /\ payout'[o][w].exists /\ payout'[o][w].signed \in QuorumsOf(w)
          /\ \A q \in payout'[o][w].signed :
                [signer |-> q, w |-> w, inputs |-> payout'[o][w].inputs] \in partials'
  BY <1>1, <1>2 DEF RowFine, Grows
<1>6. st'[o][w] = "Completed" => payout'[o][w].signed # {} /\ Deep(Status(Tx(o, w)))'
  <2> SUFFICES ASSUME st'[o][w] = "Completed"
               PROVE  payout'[o][w].signed # {} /\ Deep(Status(Tx(o, w)))'
    OBVIOUS
  <2>1. payout[o][w].signed # {} /\ Deep(Status(Tx(o, w)))
    BY <1>1 DEF RowFine
  <2>2. PICK t : t = Tx(o, w) /\ t = Tx(o, w)'
    BY <1>1, <2>1, SignedTxStays
  <2>3. Deep(Status(t))'
    BY <2>1, <2>2, DeepStaysDeep
  <2> QED
    BY <1>2, <2>1, <2>2, <2>3 DEF Deep, Status
<1> QED
  BY <1>3, <1>4, <1>5, <1>6 DEF RowFine, QuorumsOf

(* Payouts stay disjoint while none is created. *)
LEMMA DisjointKept ==
    ASSUME IInv, Grows,
           \A o \in Operators, w \in Withdrawals :
              payout'[o][w].exists => payout[o][w].exists
    PROVE  PayoutsDisjoint'
BY DEF IInv, PayoutsDisjoint, Grows

(* The sent transactions stay backed while nothing is sent or completed. *)
LEMMA SentKept ==
    ASSUME IInv, Grows, DOMAIN net' = DOMAIN net, completing' \subseteq completing,
           onchain' = onchain
    PROVE  SentFine'
<1>1. SentFine /\ Types
  BY DEF IInv
<1>2. ASSUME NEW t \in DOMAIN net
      PROVE  \E o \in Operators : payout'[o][t.w].signed # {} /\ Tx(o, t.w)' = t
  <2>1. PICK o \in Operators : payout[o][t.w].signed # {} /\ Tx(o, t.w) = t
    BY <1>1 DEF SentFine
  <2>2. t.w \in Withdrawals
    BY <1>1 DEF Types, ChainTypes, TxType
  <2>3. RowFine(o, t.w)
    BY <2>2 DEF IInv
  <2> QED
    BY <2>1, <2>2, <2>3, SignedTxStays
<1>3. ASSUME NEW t \in completing
      PROVE  t.w \in burned' /\ Deep(Status(t))'
  BY <1>1, DeepStaysDeep DEF SentFine, Grows
<1>4. ASSUME NEW w \in onchain
      PROVE  \E t \in DOMAIN net' : t.w = w /\ Deep(net'[t])
  BY <1>1 DEF SentFine, Grows
<1> QED
  BY <1>2, <1>3, <1>4 DEF SentFine, Deep, Status

(* A partial stays backed while its signer releases nothing it holds. *)
LEMMA PartialKept ==
    ASSUME IInv, Grows, NEW p \in partials,
           Held(p.signer, p.w) \subseteq Held(p.signer, p.w)'
    PROVE  PartialFine(p)'
<1>1. PartialFine(p) /\ p.signer \in Operators /\ p.w \in Withdrawals
  BY DEF IInv, Types, ChainTypes
<1> QED
  BY <1>1 DEF PartialFine, Grows

-----------------------------------------------------------------------------
(* Steps of one executor that change its states and its own place only.    *)

BoundsTyped == reorgs' \in 0..MaxReorgs /\ faults' \in 0..MaxFaults

(* Only executor o moves on, and no row is completed. *)
Moves(o) ==
    /\ st' \in [Operators -> [Withdrawals -> States]]
    /\ \A p \in Operators, w \in Withdrawals :
          \/ st'[p][w] = st[p][w]
          \/ st[p][w] # "Absent" /\ st'[p][w] \notin {"Absent", "Completed"}
    /\ exe' \in [Operators -> ExeType]
    /\ \A p \in Operators \ {o} : exe'[p] = exe[p]

NotServed(o) == \A q \in Operators : sig[q].open => sig[q].from # o

(* sign: an executor that is not collecting, or has all answers, is served by nobody. *)
LEMMA NobodyServes ==
    ASSUME IInv, NEW o \in Operators,
           \/ exe[o].pc # "collect"
           \/ exe[o].got \cup exe[o].refused = exe[o].quorum
           \/ exe[o].got = exe[o].quorum
    PROVE  NotServed(o)
BY DEF IInv, SignerFine, NotServed

(* A step of one executor that nobody serves keeps the invariant. *)
LEMMA LocalStep ==
    ASSUME IInv, NEW o \in Operators, Moves(o), NotServed(o), ExecutorFine(o)', BoundsTyped,
           UNCHANGED <<payout, coin, holder, sig, solana, goldcoin, partials>>
    PROVE  IInv'
<1>1. /\ payout' = payout /\ coin' = coin /\ holder' = holder /\ sig' = sig
      /\ burned' = burned /\ onchain' = onchain /\ completing' = completing
      /\ funded' = funded /\ net' = net /\ partials' = partials
  BY DEF solana, goldcoin
<1>2. Types
  BY DEF IInv
<1>3. Grows
  BY <1>1 DEF Grows, Moves
<1>4. Types'
  BY <1>1, <1>2 DEF Types, RowTypes, ChainTypes, Moves, BoundsTyped
<1>5. \A p \in Operators : ExecutorFine(p)'
  BY <1>3, ExecutorKept DEF Moves
<1>6. \A q \in Operators : SignerFine(q)'
  <2> SUFFICES ASSUME NEW q \in Operators PROVE SignerFine(q)'
    OBVIOUS
  <2>1. sig[q].from \in Operators
    BY <1>2 DEF Types, SigType
  <2>2. sig[q].open => exe'[sig[q].from] = exe[sig[q].from]
    BY <2>1 DEF Moves, NotServed
  <2> QED
    BY <1>1, <1>3, <2>2, SignerKept
<1>7. \A p \in Operators, w \in Withdrawals : RowFine(p, w)'
  BY <1>1, <1>3, RowKept DEF Moves
<1>8. PayoutsDisjoint'
  BY <1>1, <1>3, DisjointKept
<1>9. SentFine'
  BY <1>1, <1>3, SentKept
<1>10. \A p \in partials' : PartialFine(p)'
  BY <1>1, <1>3, PartialKept DEF Held
<1> QED
  BY <1>4, <1>5, <1>6, <1>7, <1>8, <1>9, <1>10 DEF IInv

(* Between two rows an executor has nothing to answer for. *)
LEMMA RestedIsFine ==
    ASSUME NEW o \in Operators, Rested(exe'[o], st'[o])
    PROVE  ExecutorFine(o)'
BY DEF Rested, ExecutorFine

(* Leaving a row as it is ends between two rows. *)
LEMMA RowDoneRests ==
    ASSUME IInv, NEW o \in Operators, RowDone(o)
    PROVE  Moves(o) /\ Rested(exe'[o], st'[o])
<1>1. Types /\ ExecutorFine(o)
  BY DEF IInv
<1>2. st[o] \in [Withdrawals -> States] /\ st \in [Operators -> [Withdrawals -> States]]
  BY <1>1 DEF Types, RowTypes
<1>3. Rested(NextRow(o, st[o]), st[o])
  BY <1>1, <1>2, NextRowIsRested DEF ExecutorFine
<1>4. exe' = [exe EXCEPT ![o] = NextRow(o, st[o])] /\ st' = st
  BY DEF RowDone
<1>5. exe \in [Operators -> ExeType]
  BY <1>1 DEF Types
<1>6. NextRow(o, st[o]) \in ExeType
  BY <1>3 DEF Rested
<1>7. exe'[o] = NextRow(o, st[o])
  BY <1>4, <1>5
<1> QED
  BY <1>2, <1>3, <1>4, <1>5, <1>6, <1>7 DEF Moves

(* So does an error that ends the tick. *)
LEMMA AbandonRests ==
    ASSUME IInv, NEW o \in Operators, Abandon(o)
    PROVE  Moves(o) /\ Rested(exe'[o], st'[o])
<1>1. st \in [Operators -> [Withdrawals -> States]] /\ exe \in [Operators -> ExeType]
  BY DEF IInv, Types, RowTypes
<1>2. exe' = [exe EXCEPT ![o] = Idle] /\ st' = st
  BY DEF Abandon
<1>3. Rested(Idle, st[o]) /\ Idle \in ExeType
  BY IdleIsRested DEF Rested
<1>4. exe'[o] = Idle
  BY <1>1, <1>2
<1> QED
  BY <1>1, <1>2, <1>3, <1>4 DEF Moves

(* A row of the tick takes another state, and the tick goes on. *)
RowWritten(o, to) ==
    /\ exe[o].todo # {}
    /\ st' = [st EXCEPT ![o][Current(o)] = to]
    /\ exe' = [exe EXCEPT ![o] = NextRow(o, [st[o] EXCEPT ![Current(o)] = to])]

RowNow(o, to) ==
    /\ st' \in [Operators -> [Withdrawals -> States]]
    /\ \A p \in Operators, v \in Withdrawals :
          IF p = o /\ v = Current(o) THEN st'[p][v] = to ELSE st'[p][v] = st[p][v]
    /\ st[o][Current(o)] # "Absent"
    /\ exe' \in [Operators -> ExeType]
    /\ \A p \in Operators \ {o} : exe'[p] = exe[p]
    /\ Rested(exe'[o], st'[o])

(* What transition_withdrawal and the move to the next row leave behind. *)
LEMMA WrittenRow ==
    ASSUME IInv, NEW o \in Operators, NEW to \in States \ {"Absent"}, RowWritten(o, to)
    PROVE  RowNow(o, to)
<1>0. /\ exe[o].todo # {}
      /\ st' = [st EXCEPT ![o][Current(o)] = to]
      /\ exe' = [exe EXCEPT ![o] = NextRow(o, [st[o] EXCEPT ![Current(o)] = to])]
  BY DEF RowWritten
<1>1. Types /\ ExecutorFine(o)
  BY DEF IInv
<1>2. PICK w \in Withdrawals : w = Current(o) /\ w \in exe[o].todo
  BY <1>0, <1>1, CurrentIsARow
<1>3. PICK s : s = [st[o] EXCEPT ![w] = to]
  OBVIOUS
<1>4. st \in [Operators -> [Withdrawals -> States]] /\ exe \in [Operators -> ExeType]
  BY <1>1 DEF Types, RowTypes
<1>5. s \in [Withdrawals -> States] /\ \A v \in exe[o].todo : s[v] # "Absent"
  BY <1>1, <1>3, <1>4 DEF ExecutorFine, ExeType
<1>6. Rested(NextRow(o, s), s)
  BY <1>1, <1>5, NextRowIsRested
<1>7. st'[o] = s /\ exe'[o] = NextRow(o, s)
  BY <1>0, <1>2, <1>3, <1>4
<1>8. exe' \in [Operators -> ExeType] /\ \A p \in Operators \ {o} : exe'[p] = exe[p]
  BY <1>0, <1>2, <1>3, <1>4, <1>6 DEF Rested
<1>9. st' \in [Operators -> [Withdrawals -> States]]
  BY <1>0, <1>2, <1>4
<1>10. st[o][w] # "Absent"
  BY <1>1, <1>2 DEF ExecutorFine
<1>11. \A p \in Operators, v \in Withdrawals :
          IF p = o /\ v = w THEN st'[p][v] = to ELSE st'[p][v] = st[p][v]
  BY <1>0, <1>2, <1>4
<1> QED
  BY <1>2, <1>6, <1>7, <1>8, <1>9, <1>10, <1>11 DEF RowNow

(* A row written, and not to Completed, ends between two rows. *)
LEMMA WrittenRowRests ==
    ASSUME IInv, NEW o \in Operators, NEW to \in States \ {"Absent", "Completed"},
           RowWritten(o, to)
    PROVE  Moves(o) /\ Rested(exe'[o], st'[o])
<1>1. to \in States \ {"Absent"}
  OBVIOUS
<1>2. RowNow(o, to)
  BY <1>1, WrittenRow
<1> QED
  BY <1>2 DEF RowNow, Moves

(* transition_withdrawal, legal or an error, ends between two rows. *)
LEMMA TransitionAndNextRests ==
    ASSUME IInv, NEW o \in Operators, NEW to \in States \ {"Absent", "Completed"},
           exe[o].todo # {}, TransitionAndNext(o, to)
    PROVE  Moves(o) /\ Rested(exe'[o], st'[o])
<1>1. CASE may_transition_to(st[o][Current(o)], to)
  BY <1>1, WrittenRowRests DEF TransitionAndNext, RowWritten
<1>2. CASE ~may_transition_to(st[o][Current(o)], to)
  BY <1>2, AbandonRests DEF TransitionAndNext
<1> QED
  BY <1>1, <1>2

(* The tick goes on with the same row. *)
Stays(o, pc) ==
    /\ exe'[o] = [exe[o] EXCEPT !.pc = pc]
    /\ \A w \in exe[o].todo : st'[o][w] # "Absent"

(* Another place within the tick is still a place. *)
LEMMA PlaceIsTyped ==
    ASSUME NEW e \in ExeType,
           NEW pc \in {"send", "status", "apply", "reserve", "building", "create",
                       "signing", "collect"}
    PROVE  [e EXCEPT !.pc = pc] \in ExeType
BY DEF ExeType

(* Going on within a row moves this executor only. *)
LEMMA GotoStays ==
    ASSUME IInv, NEW o \in Operators,
           NEW pc \in {"send", "status", "apply", "reserve", "building", "create",
                       "signing", "collect"},
           UNCHANGED st, Goto(o, pc)
    PROVE  Moves(o) /\ Stays(o, pc)
<1>1. st \in [Operators -> [Withdrawals -> States]] /\ exe \in [Operators -> ExeType]
  BY DEF IInv, Types, RowTypes
<1>2. [exe[o] EXCEPT !.pc = pc] \in ExeType
  BY <1>1, PlaceIsTyped
<1>3. exe'[o] = [exe[o] EXCEPT !.pc = pc]
  BY <1>1 DEF Goto
<1>4. exe' \in [Operators -> ExeType] /\ \A p \in Operators \ {o} : exe'[p] = exe[p]
  BY <1>1, <1>2 DEF Goto
<1>5. \A w \in exe[o].todo : st[o][w] # "Absent"
  BY DEF IInv, ExecutorFine
<1> QED
  BY <1>1, <1>3, <1>4, <1>5 DEF Moves, Stays

(* A transition within a row does, or the tick is abandoned. *)
LEMMA TransitionAndGotoMoves ==
    ASSUME IInv, NEW o \in Operators, NEW to \in States \ {"Absent", "Completed"},
           NEW pc \in {"status", "create"}, exe[o].todo # {}, TransitionAndGoto(o, to, pc)
    PROVE  Moves(o) /\ (Rested(exe'[o], st'[o]) \/ Stays(o, pc))
<1>1. CASE may_transition_to(st[o][Current(o)], to)
  <2>1. st' = [st EXCEPT ![o][Current(o)] = to] /\ exe' = [exe EXCEPT ![o].pc = pc]
    BY <1>1 DEF TransitionAndGoto, Goto
  <2>2. PICK w \in Withdrawals : w = Current(o) /\ w \in exe[o].todo
    BY CurrentIsARow DEF IInv
  <2>3. st \in [Operators -> [Withdrawals -> States]] /\ exe \in [Operators -> ExeType]
    BY DEF IInv, Types, RowTypes
  <2>4. \A v \in exe[o].todo : st[o][v] # "Absent"
    BY DEF IInv, ExecutorFine
  <2>5. [exe[o] EXCEPT !.pc = pc] \in ExeType
    BY <2>3, PlaceIsTyped
  <2>6. exe'[o] = [exe[o] EXCEPT !.pc = pc]
    BY <2>1, <2>3
  <2>7. exe' \in [Operators -> ExeType] /\ \A p \in Operators \ {o} : exe'[p] = exe[p]
    BY <2>1, <2>3, <2>5
  <2>8. st' \in [Operators -> [Withdrawals -> States]]
    BY <2>1, <2>2, <2>3
  <2>9. \A p \in Operators, v \in Withdrawals :
            \/ st'[p][v] = st[p][v]
            \/ st[p][v] # "Absent" /\ st'[p][v] \notin {"Absent", "Completed"}
    BY <2>1, <2>2, <2>3, <2>4
  <2>10. \A v \in exe[o].todo : st'[o][v] # "Absent"
    <3>1. exe[o].todo \subseteq Withdrawals
      BY <2>3 DEF ExeType
    <3> QED
      BY <3>1, <2>4, <2>9
  <2> QED
    BY <2>6, <2>7, <2>8, <2>9, <2>10 DEF Moves, Stays
<1>2. CASE ~may_transition_to(st[o][Current(o)], to)
  BY <1>2, AbandonRests DEF TransitionAndGoto
<1> QED
  BY <1>1, <1>2

(* The steps of a build have nothing to remember but their inputs. *)
LEMMA BuildingIsFine ==
    ASSUME IInv, NEW o \in Operators, NEW pc \in {"reserve", "building", "create", "signing"},
           exe[o].pc \notin {"idle", "collect"}, Stays(o, pc)
    PROVE  ExecutorFine(o)'
<1>1. exe[o].todo # {} /\ exe[o].got = {} /\ exe[o] \in ExeType
  BY DEF IInv, ExecutorFine, Types
<1>2. exe'[o].pc = pc /\ exe'[o].todo = exe[o].todo /\ exe'[o].got = {}
  BY <1>1 DEF Stays, ExeType
<1> QED
  BY <1>1, <1>2 DEF ExecutorFine, Stays

(* An executor that is not idle is at a row that exists. *)
LEMMA BusyAtARow ==
    ASSUME IInv, NEW o \in Operators, exe[o].pc # "idle"
    PROVE  exe[o].todo # {} /\ Current(o) \in exe[o].todo /\ Current(o) \in Withdrawals
<1>1. exe[o].todo # {} /\ Types
  BY DEF IInv, ExecutorFine
<1> QED
  BY <1>1, CurrentIsARow

(* A payout that is sent or asked about is a signed one. *)
LEMMA SendingIsFine ==
    ASSUME IInv, NEW o \in Operators, NEW pc \in {"send", "status"}, Stays(o, pc),
           exe[o].pc \notin {"idle", "collect"}, payout'[o][Current(o)].signed # {}
    PROVE  ExecutorFine(o)'
<1>1. exe[o].todo # {} /\ exe[o].got = {} /\ exe[o] \in ExeType
  BY DEF IInv, ExecutorFine, Types
<1>2. exe'[o].pc = pc /\ exe'[o].todo = exe[o].todo /\ exe'[o].got = {}
  BY <1>1 DEF Stays, ExeType
<1>3. PICK w : w = Current(o)
  OBVIOUS
<1>4. Current(o)' = w
  BY <1>2, <1>3 DEF Current
<1> QED
  BY <1>1, <1>2, <1>3, <1>4 DEF ExecutorFine, Stays

(* The bounds on faults are kept by a fault. *)
LEMMA FaultIsBounded ==
    ASSUME IInv, Fault
    PROVE  BoundsTyped
<1>1. reorgs \in 0..MaxReorgs /\ faults \in 0..MaxFaults
  BY DEF IInv, Types, ChainTypes
<1> QED
  BY <1>1, OperatorAssumption DEF Fault, BoundsTyped

(* And by a step without one. *)
LEMMA BoundsStay ==
    ASSUME IInv, UNCHANGED bounds
    PROVE  BoundsTyped
BY DEF IInv, Types, ChainTypes, bounds, BoundsTyped

(* Steps after which the tick is between two rows. *)
LEMMA RestingSteps ==
    ASSUME IInv, NEW o \in Operators,
           \/ validate(o) \/ validate_halts(o) \/ build_passive(o) \/ build_halts(o)
           \/ build_ends(o) \/ sign_falls_short(o) \/ sign_halts(o) \/ row_skipped(o)
    PROVE  IInv'
<1>1. exe[o].pc # "idle"
  BY DEF validate, validate_halts, build_passive, build_halts, build_ends,
         sign_falls_short, sign_halts, row_skipped, AtRow, At
<1>2. exe[o].todo # {}
  BY <1>1, BusyAtARow
<1>3. NotServed(o)
  <2>1. \/ exe[o].pc # "collect"
        \/ exe[o].got \cup exe[o].refused = exe[o].quorum
        \/ exe[o].got = exe[o].quorum
    BY DEF validate, validate_halts, build_passive, build_halts, build_ends,
           sign_falls_short, sign_halts, row_skipped, AtRow, At
  <2> QED
    BY <2>1, NobodyServes
<1>4. UNCHANGED <<payout, coin, holder, sig, solana, goldcoin, partials>>
  BY DEF validate, validate_halts, build_passive, build_halts, build_ends,
         sign_falls_short, sign_halts, row_skipped
<1>5. BoundsTyped
  BY FaultIsBounded, BoundsStay
     DEF validate, validate_halts, build_passive, build_halts, build_ends,
         sign_falls_short, sign_halts, row_skipped
<1>6. Moves(o) /\ Rested(exe'[o], st'[o])
  <2>1. CASE validate(o)
    <3>1. \/ TransitionAndNext(o, "Validated")
          \/ TransitionAndNext(o, "Failed")
      BY <2>1 DEF validate
    <3> QED
      BY <1>2, <3>1, TransitionAndNextRests DEF States
  <2>2. CASE validate_halts(o)
    BY <1>2, <2>2, TransitionAndNextRests DEF validate_halts, States
  <2>3. CASE build_passive(o)
    BY <2>3, RowDoneRests DEF build_passive
  <2>4. CASE build_halts(o)
    BY <1>2, <2>4, TransitionAndNextRests DEF build_halts, States
  <2>5. CASE build_ends(o)
    BY <1>2, <2>5, TransitionAndNextRests DEF build_ends, States
  <2>6. CASE sign_falls_short(o)
    BY <2>6, RowDoneRests DEF sign_falls_short
  <2>7. CASE sign_halts(o)
    BY <1>2, <2>7, TransitionAndNextRests DEF sign_halts, States
  <2>8. CASE row_skipped(o)
    BY <2>8, RowDoneRests DEF row_skipped
  <2> QED
    BY <2>1, <2>2, <2>3, <2>4, <2>5, <2>6, <2>7, <2>8
<1> QED
  BY <1>3, <1>4, <1>5, <1>6, RestedIsFine, LocalStep

(* Steps that ask the node or go on with a build. *)
LEMMA AskingSteps ==
    ASSUME IInv, NEW o \in Operators,
           \/ rebroadcast(o) \/ reconcile_broadcast(o) \/ build_starts(o)
    PROVE  IInv'
<1>1. exe[o].pc # "idle" /\ exe[o].pc # "collect"
  BY DEF rebroadcast, reconcile_broadcast, build_starts, AtRow, At
<1>2. exe[o].todo # {}
  BY <1>1, BusyAtARow
<1>3. NotServed(o)
  BY <1>1, NobodyServes
<1>4. UNCHANGED <<payout, coin, holder, sig, solana, goldcoin, partials>>
  BY DEF rebroadcast, reconcile_broadcast, build_starts
<1>5. BoundsTyped
  BY BoundsStay DEF rebroadcast, reconcile_broadcast, build_starts
<1>6. Moves(o) /\ ExecutorFine(o)'
  <2>1. CASE RowDone(o)
    BY <2>1, RowDoneRests, RestedIsFine
  <2>2. CASE rebroadcast(o) /\ ~RowDone(o)
    <3>1. payout[o][Current(o)].signed # {} /\ Goto(o, "send") /\ UNCHANGED st
      BY <2>2 DEF rebroadcast
    <3>2. Moves(o) /\ Stays(o, "send")
      BY <3>1, GotoStays
    <3>3. payout'[o][Current(o)].signed # {}
      BY <1>4, <3>1
    <3> QED
      BY <1>1, <3>2, <3>3, SendingIsFine
  <2>3. CASE reconcile_broadcast(o) /\ ~RowDone(o)
    <3>1. payout[o][Current(o)].signed # {} /\ Goto(o, "status") /\ UNCHANGED st
      BY <2>3 DEF reconcile_broadcast
    <3>2. Moves(o) /\ Stays(o, "status")
      BY <3>1, GotoStays
    <3>3. payout'[o][Current(o)].signed # {}
      BY <1>4, <3>1
    <3> QED
      BY <1>1, <3>2, <3>3, SendingIsFine
  <2>4. CASE build_starts(o)
    <3>1. Moves(o) /\ (Rested(exe'[o], st'[o]) \/ Stays(o, "create"))
      BY <1>2, <2>4, TransitionAndGotoMoves DEF build_starts, States
    <3> QED
      BY <1>1, <3>1, RestedIsFine, BuildingIsFine
  <2> QED
    BY <2>1, <2>2, <2>3, <2>4
<1> QED
  BY <1>3, <1>4, <1>5, <1>6, LocalStep

(* What the node answers has its type. *)
LEMMA StatusIsTyped ==
    ASSUME Types, NEW t
    PROVE  Status(t) \in {Unknown} \cup 0..ConfirmationDepth
BY DEF Types, ChainTypes, Status

(* The node's answer. *)
LEMMA AnswerStep ==
    ASSUME IInv, NEW o \in Operators, transaction_confirmations(o)
    PROVE  IInv'
<1>1. exe[o].pc = "status"
  BY DEF transaction_confirmations, At
<1>2. PICK w \in Withdrawals : w = Current(o) /\ payout[o][w].signed # {}
  BY <1>1, BusyAtARow DEF IInv, ExecutorFine
<1>3. PICK c : c = Status(Tx(o, w))
  OBVIOUS
<1>4. exe' = [exe EXCEPT ![o].ans = c, ![o].pc = "apply"]
  BY <1>2, <1>3 DEF transaction_confirmations
<1>5. c \in {Unknown} \cup 0..ConfirmationDepth
  BY <1>3, StatusIsTyped DEF IInv
<1>6. /\ exe \in [Operators -> ExeType] /\ st \in [Operators -> [Withdrawals -> States]]
      /\ exe[o] \in ExeType /\ exe[o].todo # {} /\ exe[o].got = {}
      /\ \A v \in exe[o].todo : st[o][v] # "Absent"
  BY <1>1 DEF IInv, Types, RowTypes, ExecutorFine
<1>7. PICK e : e = [exe[o] EXCEPT !.ans = c, !.pc = "apply"]
  OBVIOUS
<1>8. e \in ExeType /\ e.pc = "apply" /\ e.ans = c /\ e.todo = exe[o].todo /\ e.got = {}
  BY <1>5, <1>6, <1>7 DEF ExeType
<1>9. exe'[o] = e /\ \A p \in Operators \ {o} : exe'[p] = exe[p]
  BY <1>4, <1>6, <1>7
<1>10. exe' \in [Operators -> ExeType]
  BY <1>4, <1>6, <1>8, <1>9
<1>11. /\ st' = st /\ payout' = payout /\ net' = net
       /\ UNCHANGED <<payout, coin, holder, sig, solana, goldcoin, partials>>
       /\ UNCHANGED bounds
  BY DEF transaction_confirmations, rows, goldcoin
<1>12. Moves(o)
  BY <1>6, <1>9, <1>10, <1>11 DEF Moves
<1>13. Current(o)' = w
  BY <1>2, <1>8, <1>9 DEF Current
<1>14. Status(Tx(o, w))' = c
  BY <1>3, <1>11 DEF Status, Tx
<1>15. ExecutorFine(o)'
  BY <1>2, <1>6, <1>8, <1>9, <1>11, <1>13, <1>14 DEF ExecutorFine, Deep
<1> QED
  BY <1>1, <1>11, <1>12, <1>15, NobodyServes, BoundsStay, LocalStep

(* build, up to the choice of the inputs. *)
LEMMA BuildStep ==
    ASSUME IInv, NEW o \in Operators, build(o)
    PROVE  IInv'
<1>1. exe[o].pc = "row"
  BY DEF build, AtRow
<1>2. PICK w \in Withdrawals : w = Current(o) /\ w \in exe[o].todo /\ exe[o].todo # {}
  BY <1>1, BusyAtARow
<1>3. /\ UNCHANGED <<payout, coin, holder, sig, solana, goldcoin, partials>>
      /\ UNCHANGED bounds
  BY DEF build
<1>4. Moves(o) /\ ExecutorFine(o)'
  <2>1. CASE \/ TransitionAndNext(o, "Signing")
             \/ TransitionAndNext(o, "AwaitingFunds")
             \/ RowDone(o)
    <3>1. Moves(o) /\ Rested(exe'[o], st'[o])
      BY <1>2, <2>1, TransitionAndNextRests, RowDoneRests DEF States
    <3> QED
      BY <3>1, RestedIsFine
  <2>2. CASE \E S \in Selections[w] :
                /\ exe' = [exe EXCEPT ![o].inputs = S, ![o].pc = "reserve"]
                /\ st' = IF st[o][w] = "AwaitingFunds"
                         THEN [st EXCEPT ![o][w] = "Validated"] ELSE st
    <3>1. PICK S \in Selections[w] :
                /\ exe' = [exe EXCEPT ![o].inputs = S, ![o].pc = "reserve"]
                /\ st' = IF st[o][w] = "AwaitingFunds"
                         THEN [st EXCEPT ![o][w] = "Validated"] ELSE st
      BY <2>2
    <3>2. S \in SUBSET Utxos
      BY WithdrawalAssumption
    <3>3. /\ exe \in [Operators -> ExeType] /\ st \in [Operators -> [Withdrawals -> States]]
          /\ exe[o] \in ExeType /\ \A v \in exe[o].todo : st[o][v] # "Absent"
          /\ exe[o].got = {}
      BY <1>1 DEF IInv, Types, RowTypes, ExecutorFine
    <3>4. PICK e : e = [exe[o] EXCEPT !.inputs = S, !.pc = "reserve"]
      OBVIOUS
    <3>5. e \in ExeType /\ e.pc = "reserve" /\ e.todo = exe[o].todo /\ e.got = {}
      BY <3>2, <3>3, <3>4 DEF ExeType
    <3>6. exe'[o] = e /\ \A p \in Operators \ {o} : exe'[p] = exe[p]
      BY <3>1, <3>3, <3>4
    <3>7. exe' \in [Operators -> ExeType]
      BY <3>1, <3>3, <3>5, <3>6
    <3>8. st' \in [Operators -> [Withdrawals -> States]]
      BY <3>1, <3>3 DEF States
    <3>9. \A p \in Operators, v \in Withdrawals :
              \/ st'[p][v] = st[p][v]
              \/ st[p][v] # "Absent" /\ st'[p][v] \notin {"Absent", "Completed"}
      BY <3>1, <3>3
    <3>10. \A v \in exe[o].todo : st'[o][v] # "Absent"
      <4>1. exe[o].todo \subseteq Withdrawals
        BY <3>3 DEF ExeType
      <4> QED
        BY <3>3, <3>9, <4>1
    <3> QED
      BY <1>2, <3>5, <3>6, <3>7, <3>8, <3>9, <3>10 DEF Moves, ExecutorFine
  <2> QED
    <3>1. \/ TransitionAndNext(o, "Signing")
          \/ TransitionAndNext(o, "AwaitingFunds")
          \/ RowDone(o)
          \/ \E S \in Selections[w] :
                /\ exe' = [exe EXCEPT ![o].inputs = S, ![o].pc = "reserve"]
                /\ st' = IF st[o][w] = "AwaitingFunds"
                         THEN [st EXCEPT ![o][w] = "Validated"] ELSE st
      BY <1>2 DEF build
    <3> QED
      BY <2>1, <2>2, <3>1
<1> QED
  BY <1>1, <1>3, <1>4, NobodyServes, BoundsStay, LocalStep

(* sign, up to the first request. *)
LEMMA SignStep ==
    ASSUME IInv, NEW o \in Operators, sign(o)
    PROVE  IInv'
<1>1. exe[o].pc = "row"
  BY DEF sign, AtRow
<1>2. PICK w \in Withdrawals : w = Current(o) /\ w \in exe[o].todo /\ exe[o].todo # {}
  BY <1>1, BusyAtARow
<1>3. /\ UNCHANGED <<payout, coin, holder, sig, solana, goldcoin, partials>>
      /\ UNCHANGED bounds
  BY DEF sign
<1>4. Moves(o) /\ ExecutorFine(o)'
  <2>1. CASE RowDone(o)
    BY <2>1, RowDoneRests, RestedIsFine
  <2>2. CASE /\ st' = [st EXCEPT ![o][Current(o)] = "IntegrityHalted"]
             /\ exe' = [exe EXCEPT ![o] =
                          NextRow(o, [st[o] EXCEPT ![Current(o)] = "IntegrityHalted"])]
    <3>1. "IntegrityHalted" \in States \ {"Absent", "Completed"}
      BY DEF States
    <3>2. Moves(o) /\ Rested(exe'[o], st'[o])
      BY <1>2, <2>2, <3>1, WrittenRowRests DEF RowWritten
    <3> QED
      BY <3>2, RestedIsFine
  <2>3. CASE /\ payout[o][w].exists
             /\ exe' = [exe EXCEPT ![o] = [@ EXCEPT !.pc = "collect",
                          !.inputs = payout[o][w].inputs, !.quorum = payout[o][w].quorum,
                          !.attempt = payout[o][w].attempt, !.intent = payout[o][w].intent]]
             /\ UNCHANGED st
    <3>1. /\ exe \in [Operators -> ExeType] /\ st \in [Operators -> [Withdrawals -> States]]
          /\ exe[o] \in ExeType /\ \A v \in exe[o].todo : st[o][v] # "Absent"
          /\ payout[o][w] \in PayoutType
      BY DEF IInv, Types, RowTypes, ExecutorFine
    <3>2. PICK e : e = [exe[o] EXCEPT !.pc = "collect",
                          !.inputs = payout[o][w].inputs, !.quorum = payout[o][w].quorum,
                          !.attempt = payout[o][w].attempt, !.intent = payout[o][w].intent]
      OBVIOUS
    <3>3. e \in ExeType
      BY <3>1, <3>2 DEF ExeType, PayoutType
    <3>4. /\ e.pc = "collect" /\ e.todo = exe[o].todo /\ e.got = exe[o].got
          /\ e.inputs = payout[o][w].inputs /\ e.quorum = payout[o][w].quorum
      BY <3>1, <3>2 DEF ExeType
    <3>5. exe'[o] = e /\ \A p \in Operators \ {o} : exe'[p] = exe[p]
      BY <2>3, <3>1, <3>2
    <3>6. exe' \in [Operators -> ExeType]
      BY <2>3, <3>1, <3>3, <3>5
    <3>7. e.got = {}
      BY <1>1, <3>4 DEF IInv, ExecutorFine
    <3>8. e.quorum \in QuorumsOf(w)
      BY <2>3, <3>4 DEF IInv, RowFine
    <3>9. Current(o)' = w
      BY <1>2, <3>4, <3>5 DEF Current
    <3>10. Moves(o)
      BY <2>3, <3>1, <3>5, <3>6 DEF Moves
    <3> QED
      BY <1>2, <1>3, <2>3, <3>1, <3>4, <3>5, <3>7, <3>8, <3>9, <3>10
         DEF ExecutorFine, QuorumsOf
  <2> QED
    BY <1>2, <2>1, <2>2, <2>3 DEF sign
<1> QED
  BY <1>1, <1>3, <1>4, NobodyServes, BoundsStay, LocalStep

-----------------------------------------------------------------------------
(* Steps of an executor that also write payouts, coins or the network.     *)

(* One executor that nobody serves moves: all processes stay fine. *)
LEMMA ExecutorsAndSignersKept ==
    ASSUME IInv, Grows, NEW o \in Operators, NotServed(o), ExecutorFine(o)', sig' = sig,
           \A p \in Operators \ {o} : exe'[p] = exe[p]
    PROVE  /\ \A p \in Operators : ExecutorFine(p)'
           /\ \A q \in Operators : SignerFine(q)'
<1>1. \A p \in Operators : ExecutorFine(p)'
  BY ExecutorKept
<1>2. ASSUME NEW q \in Operators PROVE SignerFine(q)'
  <2>1. sig[q].from \in Operators
    BY DEF IInv, Types, SigType
  <2>2. sig[q].open => exe'[sig[q].from] = exe[sig[q].from]
    BY <2>1 DEF NotServed
  <2> QED
    BY <2>2, SignerKept
<1> QED
  BY <1>1, <1>2

(* Discovery, the vault's outputs and the reclaiming of old reservations. *)
LEMMA TickStep ==
    ASSUME IInv, NEW o \in Operators, NEW old \in SUBSET Withdrawals, TickBegins(o, old)
    PROVE  IInv'
<1>0. PICK seen : seen = ingest_discovered(o)
  OBVIOUS
<1>1. seen = [w \in Withdrawals |->
                   IF st[o][w] = "Absent" /\ w \in scan_withdrawals
                   THEN "Observed" ELSE st[o][w]]
  BY <1>0 DEF ingest_discovered, observe_withdrawal
<1>2. /\ exe[o].pc = "idle"
      /\ \A w \in old : Abandoned(o, w)
      /\ st' = [st EXCEPT ![o] = seen]
      /\ exe' = [exe EXCEPT ![o] = FromPhase(1, seen)]
      /\ payout' = payout /\ sig' = sig /\ partials' = partials
      /\ burned' = burned /\ onchain' = onchain /\ completing' = completing
      /\ funded' = funded /\ net' = net
      /\ UNCHANGED bounds
  BY <1>0 DEF TickBegins, At, solana, goldcoin
<1>3. PICK released :
          /\ released = release_reservation(o, old)
          /\ released = UNION {Held(o, w) : w \in old}
  BY DEF release_reservation
<1>4. /\ coin' = [coin EXCEPT ![o] = [u \in Utxos |->
            IF u \in released THEN "Available"
            ELSE IF coin[o][u] = "Absent" /\ u \in Unspent THEN "Available"
            ELSE IF coin[o][u] = "Available" /\ u \notin Unspent THEN "Spent"
            ELSE coin[o][u]]]
      /\ holder' = [holder EXCEPT ![o] = [u \in Utxos |->
            IF u \in released THEN Nobody ELSE holder[o][u]]]
  BY <1>3 DEF TickBegins, sync_vault
<1>5. RowTypes /\ exe \in [Operators -> ExeType] /\ Types
  BY DEF IInv, Types
<1>6. seen \in [Withdrawals -> States]
  BY <1>1, <1>5 DEF RowTypes, States
<1>7. Rested(FromPhase(1, seen), seen)
  BY <1>6, PhaseIsRested
<1>8. st'[o] = seen /\ exe'[o] = FromPhase(1, seen)
  BY <1>2, <1>5 DEF RowTypes
<1>9. /\ exe' \in [Operators -> ExeType]
      /\ \A p \in Operators \ {o} : exe'[p] = exe[p]
  BY <1>2, <1>5, <1>7 DEF Rested
<1>10. RowTypes'
  <2>1. st' \in [Operators -> [Withdrawals -> States]]
    BY <1>2, <1>5, <1>6 DEF RowTypes
  <2>2. coin' \in [Operators -> [Utxos -> {"Absent", "Available", "Reserved", "Spent"}]]
    BY <1>4, <1>5 DEF RowTypes
  <2>3. holder' \in [Operators -> [Utxos -> Withdrawals \cup {Nobody}]]
    BY <1>4, <1>5 DEF RowTypes
  <2> QED
    BY <1>2, <1>5, <2>1, <2>2, <2>3 DEF RowTypes
<1>11. Types'
  <2>1. ChainTypes'
    BY <1>2, <1>5 DEF Types, ChainTypes, bounds
  <2> QED
    BY <1>2, <1>5, <1>9, <1>10, <2>1 DEF Types
<1>12. \A p \in Operators, w \in Withdrawals :
          \/ st'[p][w] = st[p][w]
          \/ p = o /\ w \in burned /\ st[p][w] = "Absent" /\ st'[p][w] = "Observed"
  BY <1>1, <1>2, <1>5 DEF RowTypes, scan_withdrawals
<1>13. Grows
  BY <1>2, <1>12 DEF Grows
<1>14. ExecutorFine(o)'
  BY <1>7, <1>8, RestedIsFine
<1>15. (\A p \in Operators : ExecutorFine(p)') /\ (\A q \in Operators : SignerFine(q)')
  BY <1>2, <1>9, <1>13, <1>14, NobodyServes, ExecutorsAndSignersKept
<1>16. \A p \in Operators, w \in Withdrawals : RowFine(p, w)'
  BY <1>2, <1>12, <1>13, RowKept
<1>17. PayoutsDisjoint' /\ SentFine'
  BY <1>2, <1>13, DisjointKept, SentKept
<1>18. ASSUME NEW p \in partials PROVE PartialFine(p)'
  <2>1. p.signer \in Operators /\ p.w \in Withdrawals /\ payout[p.signer][p.w].exists
    BY <1>5 DEF IInv, Types, ChainTypes, PartialFine
  <2>2. ASSUME NEW u \in Held(p.signer, p.w) PROVE u \in Held(p.signer, p.w)'
    <3>1. u \in Utxos /\ coin[p.signer][u] = "Reserved" /\ holder[p.signer][u] = p.w
      BY DEF Held
    <3>2. p.signer = o => u \notin released
      BY <1>2, <1>3, <2>1, <3>1 DEF Held, Abandoned
    <3>3. coin'[p.signer][u] = "Reserved" /\ holder'[p.signer][u] = p.w
      BY <1>4, <1>5, <2>1, <3>1, <3>2 DEF RowTypes
    <3> QED
      BY <3>1, <3>3 DEF Held
  <2> QED
    BY <1>13, <2>2, PartialKept
<1> QED
  BY <1>2, <1>11, <1>15, <1>16, <1>17, <1>18 DEF IInv

(* Only a transaction recorded as signed is ever sent. *)
LEMMA SendStep ==
    ASSUME IInv, NEW o \in Operators, send_raw_transaction(o)
    PROVE  IInv'
<1>1. exe[o].pc = "send"
  BY DEF send_raw_transaction, At
<1>2. PICK w \in Withdrawals :
          w = Current(o) /\ exe[o].todo # {} /\ payout[o][w].signed # {}
  BY <1>1, BusyAtARow DEF IInv, ExecutorFine
<1>3. PICK t : t = Tx(o, w)
  OBVIOUS
<1>5. /\ net' = [x \in DOMAIN net \cup {t} |->
            IF x = t /\ ~(Status(t) >= 0)
            THEN IF t.inputs \subseteq Unspent THEN 0 ELSE Unknown ELSE net[x]]
      /\ \/ TransitionAndGoto(o, "Broadcast", "status")
         \/ Goto(o, "status") /\ UNCHANGED st
      /\ payout' = payout /\ coin' = coin /\ holder' = holder /\ sig' = sig
      /\ burned' = burned /\ onchain' = onchain /\ completing' = completing
      /\ funded' = funded /\ partials' = partials /\ UNCHANGED bounds
  BY <1>2, <1>3 DEF send_raw_transaction, solana
<1>6. Types
  BY DEF IInv
<1>7. t \in TxType /\ t.w = w
  <2>1. payout[o][w] \in PayoutType
    BY <1>6 DEF Types, RowTypes
  <2> QED
    BY <1>3, <2>1 DEF Tx, TxType, PayoutType
<1>8. Moves(o) /\ (Rested(exe'[o], st'[o]) \/ Stays(o, "status"))
  BY <1>2, <1>5, TransitionAndGotoMoves, GotoStays DEF States
<1>9. ExecutorFine(o)'
  <2>1. payout'[o][Current(o)].signed # {}
    BY <1>2, <1>5
  <2> QED
    BY <1>1, <1>8, <2>1, RestedIsFine, SendingIsFine
<1>10. /\ DOMAIN net' = DOMAIN net \cup {t}
       /\ net' \in [DOMAIN net' -> {Unknown} \cup 0..ConfirmationDepth]
  <2>1. DOMAIN net' = DOMAIN net \cup {t}
    BY <1>5
  <2>2. 0 \in 0..ConfirmationDepth
    BY OperatorAssumption
  <2>3. t \notin DOMAIN net => ~(Status(t) >= 0)
    BY DEF Status, Unknown
  <2>4. \A x \in DOMAIN net : net[x] \in {Unknown} \cup 0..ConfirmationDepth
    BY <1>6 DEF Types, ChainTypes
  <2>5. \A x \in DOMAIN net \cup {t} : net'[x] \in {Unknown} \cup 0..ConfirmationDepth
    BY <1>5, <2>2, <2>3, <2>4
  <2> QED
    BY <1>5, <2>1, <2>5
<1>11. Types'
  BY <1>5, <1>6, <1>7, <1>8, <1>10 DEF Types, RowTypes, ChainTypes, Moves, bounds
<1>12. ASSUME NEW x \in DOMAIN net PROVE x \in DOMAIN net' /\ (Deep(net[x]) => Deep(net'[x]))
  <2>1. CASE x = t /\ ~(Status(t) >= 0)
    <3>1. net[x] \in {Unknown} \cup 0..ConfirmationDepth /\ ~(net[x] >= 0)
      BY <1>6, <2>1 DEF Types, ChainTypes, Status
    <3> QED
      BY <1>10, <3>1, OperatorAssumption DEF Deep, Unknown
  <2>2. CASE ~(x = t /\ ~(Status(t) >= 0))
    <3>1. net'[x] = net[x]
      BY <1>5, <2>2
    <3> QED
      BY <1>10, <3>1
  <2> QED
    BY <2>1, <2>2
<1>13. Grows
  BY <1>5, <1>8, <1>12 DEF Grows, Moves
<1>14. (\A p \in Operators : ExecutorFine(p)') /\ (\A q \in Operators : SignerFine(q)')
  BY <1>1, <1>5, <1>8, <1>9, <1>13, NobodyServes, ExecutorsAndSignersKept DEF Moves
<1>15. \A p \in Operators, v \in Withdrawals : RowFine(p, v)'
  BY <1>5, <1>8, <1>13, RowKept DEF Moves
<1>16. PayoutsDisjoint'
  BY <1>5, <1>13, DisjointKept
<1>17. SentFine'
  <2>1. \A x \in DOMAIN net : \E p \in Operators :
            payout'[p][x.w].signed # {} /\ Tx(p, x.w)' = x
    BY <1>5 DEF IInv, SentFine, Tx
  <2>2. payout'[o][t.w].signed # {} /\ Tx(o, t.w)' = t
    BY <1>2, <1>3, <1>5, <1>7 DEF Tx
  <2>3. \A x \in completing : x.w \in burned' /\ Deep(Status(x))'
    BY <1>5, <1>13, DeepStaysDeep DEF IInv, SentFine
  <2>4. \A v \in onchain : \E x \in DOMAIN net' : x.w = v /\ Deep(net'[x])
    BY <1>12 DEF IInv, SentFine
  <2> QED
    BY <1>5, <1>10, <2>1, <2>2, <2>3, <2>4 DEF SentFine, Deep, Status
<1>18. \A p \in partials : PartialFine(p)'
  BY <1>5, <1>13, PartialKept DEF Held
<1> QED
  BY <1>5, <1>11, <1>14, <1>15, <1>16, <1>17, <1>18 DEF IInv

(* The chains keep their types while they stand still. *)
LEMMA ChainTypesKept ==
    ASSUME IInv, UNCHANGED <<solana, goldcoin, bounds>>, partials' = partials
    PROVE  ChainTypes'
BY DEF IInv, Types, ChainTypes, solana, goldcoin, bounds

(* An answer is applied: the row is orphaned, confirmed or completed. *)
LEMMA ApplyStep ==
    ASSUME IInv, NEW o \in Operators, record_confirmations(o)
    PROVE  IInv'
<1>1. exe[o].pc = "apply"
  BY DEF record_confirmations, At
<1>2. PICK w \in Withdrawals :
          /\ w = Current(o) /\ exe[o].todo # {}
          /\ payout[o][w].signed # {}
          /\ Deep(exe[o].ans) => Deep(Status(Tx(o, w)))
  BY <1>1, BusyAtARow DEF IInv, ExecutorFine
<1>3. PICK c : c = exe[o].ans
  OBVIOUS
<1>4. UNCHANGED <<sig, solana, goldcoin, partials, bounds>>
  BY DEF record_confirmations
<1>5. NotServed(o)
  BY <1>1, NobodyServes
<1>6. CASE TransitionAndNext(o, "Orphaned") /\ UNCHANGED <<payout, coin, holder>>
  <2>1. Moves(o) /\ Rested(exe'[o], st'[o])
    BY <1>2, <1>6, TransitionAndNextRests DEF States
  <2> QED
    BY <1>4, <1>5, <1>6, <2>1, RestedIsFine, BoundsStay, LocalStep
<1>7. CASE ~(TransitionAndNext(o, "Orphaned") /\ UNCHANGED <<payout, coin, holder>>)
  <2>1. PICK state : state = IF Deep(c) THEN "Completed"
                             ELSE IF st[o][w] = "Broadcast" THEN "Confirming" ELSE st[o][w]
    OBVIOUS
  <2>2. /\ c # Unknown
        /\ st' = [st EXCEPT ![o][Current(o)] = state]
        /\ exe' = [exe EXCEPT ![o] = NextRow(o, [st[o] EXCEPT ![Current(o)] = state])]
        /\ IF Deep(c)
           THEN complete_payout(o, w)
           ELSE /\ payout' = [payout EXCEPT ![o][w].conf = c]
                /\ UNCHANGED <<coin, holder>>
    BY <1>2, <1>3, <1>7, <2>1 DEF record_confirmations
  <2>3. Types /\ RowTypes /\ exe[o] \in ExeType /\ ExecutorFine(o)
    BY DEF IInv, Types
  <2>4. c \in 0..ConfirmationDepth
    BY <1>3, <2>2, <2>3 DEF ExeType
  <2>5. w \in exe[o].todo /\ st[o][w] # "Absent" /\ st[o][w] \in States
    BY <1>1, <1>2, <2>3, BusyAtARow DEF ExecutorFine, RowTypes
  <2>6. state \in States \ {"Absent"}
    BY <2>1, <2>5 DEF States
  <2>7. /\ st' \in [Operators -> [Withdrawals -> States]]
        /\ \A p \in Operators, v \in Withdrawals :
              IF p = o /\ v = w THEN st'[p][v] = state ELSE st'[p][v] = st[p][v]
        /\ exe' \in [Operators -> ExeType]
        /\ \A p \in Operators \ {o} : exe'[p] = exe[p]
        /\ Rested(exe'[o], st'[o])
    <3>1. RowWritten(o, state)
      BY <1>2, <2>2 DEF RowWritten
    <3>2. RowNow(o, state)
      BY <2>6, <3>1, WrittenRow
    <3> QED
      BY <1>2, <3>2 DEF RowNow
  <2>8. PICK new : new = IF Deep(c)
                         THEN [payout[o][w] EXCEPT !.conf = c, !.completed = TRUE]
                         ELSE [payout[o][w] EXCEPT !.conf = c]
    OBVIOUS
  <2>9. /\ payout' \in [Operators -> [Withdrawals -> PayoutType]]
        /\ \A p \in Operators, v \in Withdrawals :
              /\ payout'[p][v].exists = payout[p][v].exists
              /\ payout'[p][v].inputs = payout[p][v].inputs
              /\ payout'[p][v].quorum = payout[p][v].quorum
              /\ payout'[p][v].signed = payout[p][v].signed
              /\ payout[p][v].completed => payout'[p][v].completed
        /\ Deep(c) => payout'[o][w].completed
    <3>1. payout \in [Operators -> [Withdrawals -> PayoutType]] /\ payout[o][w] \in PayoutType
      BY <2>3 DEF RowTypes
    <3>2. /\ new \in PayoutType /\ new.exists = payout[o][w].exists
          /\ new.inputs = payout[o][w].inputs /\ new.quorum = payout[o][w].quorum
          /\ new.signed = payout[o][w].signed
          /\ payout[o][w].completed => new.completed
          /\ Deep(c) => new.completed
      BY <2>4, <2>8, <3>1 DEF PayoutType
    <3>3. payout' = [payout EXCEPT ![o] = [payout[o] EXCEPT ![w] = new]]
      <4>1. CASE Deep(c)
        <5>1. payout' = [payout EXCEPT ![o][w].conf = c, ![o][w].completed = TRUE]
          BY <1>3, <2>2, <4>1 DEF complete_payout
        <5> QED
          BY <2>8, <3>1, <4>1, <5>1
      <4>2. CASE ~Deep(c)
        BY <2>2, <2>8, <3>1, <4>2
      <4> QED
        BY <4>1, <4>2
    <3> QED
      BY <3>1, <3>2, <3>3
  <2>10. /\ coin' \in [Operators -> [Utxos -> {"Absent", "Available", "Reserved", "Spent"}]]
         /\ holder' \in [Operators -> [Utxos -> Withdrawals \cup {Nobody}]]
         /\ \A p \in Operators, u \in Utxos :
               (p = o /\ u \in Held(o, w) /\ Deep(c)) \/
               (coin'[p][u] = coin[p][u] /\ holder'[p][u] = holder[p][u])
    <3>1. CASE Deep(c)
      <4>1. /\ coin' = [coin EXCEPT ![o] = [u \in Utxos |->
                            IF u \in Held(o, w) THEN "Spent" ELSE coin[o][u]]]
            /\ holder' = [holder EXCEPT ![o] = [u \in Utxos |->
                            IF u \in Held(o, w) THEN Nobody ELSE holder[o][u]]]
        BY <2>2, <3>1 DEF complete_payout
      <4> QED
        BY <2>3, <3>1, <4>1 DEF RowTypes
    <3>2. CASE ~Deep(c)
      BY <2>2, <2>3, <3>2 DEF RowTypes
    <3> QED
      BY <3>1, <3>2
  <2>11. Types'
    BY <1>4, <2>3, <2>7, <2>9, <2>10, ChainTypesKept DEF Types, RowTypes
  <2>12. Grows
    BY <1>4, <2>5, <2>6, <2>7, <2>9 DEF Grows, solana, goldcoin
  <2>13. (\A p \in Operators : ExecutorFine(p)') /\ (\A q \in Operators : SignerFine(q)')
    BY <1>4, <1>5, <2>7, <2>12, RestedIsFine, ExecutorsAndSignersKept
  <2>14. ASSUME NEW p \in Operators, NEW v \in Withdrawals PROVE RowFine(p, v)'
    <3>1. Core(payout'[p][v]) = Core(payout[p][v])
      BY <2>9 DEF Core
    <3>2. st'[p][v] # "Absent" => st[p][v] # "Absent"
      BY <2>5, <2>7
    <3>3. CASE st'[p][v] = "Completed" => st[p][v] = "Completed"
      BY <2>12, <3>1, <3>2, <3>3, RowKept
    <3>4. CASE st'[p][v] = "Completed" /\ st[p][v] # "Completed"
      <4>1. p = o /\ v = w /\ Deep(c)
        BY <2>1, <2>7, <3>4
      <4>2. RowFine(o, w)
        BY DEF IInv
      <4>3. PICK t : t = Tx(o, w) /\ t = Tx(o, w)'
        BY <1>2, <2>12, <4>2, SignedTxStays
      <4>4. Deep(Status(t))'
        BY <1>2, <1>3, <2>12, <4>1, <4>3, DeepStaysDeep
      <4>5. Deep(Status(Tx(o, w)))'
        BY <4>3, <4>4 DEF Deep, Status
      <4> QED
        BY <1>2, <1>4, <2>5, <2>9, <4>1, <4>2, <4>5 DEF RowFine, QuorumsOf, solana
    <3> QED
      BY <3>3, <3>4
  <2>15. PayoutsDisjoint' /\ SentFine'
    BY <1>4, <2>9, <2>12, DisjointKept, SentKept DEF solana, goldcoin
  <2>16. ASSUME NEW p \in partials PROVE PartialFine(p)'
    <3>1. p.signer \in Operators /\ p.w \in Withdrawals /\ PartialFine(p)
      BY DEF IInv, Types, ChainTypes
    <3>2. CASE Deep(c) /\ p.signer = o /\ p.w = w
      BY <2>9, <3>1, <3>2 DEF PartialFine
    <3>3. CASE ~(Deep(c) /\ p.signer = o /\ p.w = w)
      <4>1. Held(p.signer, p.w) \subseteq Held(p.signer, p.w)'
        BY <2>10, <3>1, <3>3 DEF Held
      <4> QED
        BY <2>12, <4>1, PartialKept
    <3> QED
      BY <3>2, <3>3
  <2> QED
    BY <1>4, <2>11, <2>13, <2>14, <2>15, <2>16 DEF IInv
<1> QED
  BY <1>6, <1>7

(* A reservation takes available coins only. *)
LEMMA ReservingKeepsHeld ==
    ASSUME IInv, NEW o \in Operators, NEW w \in Withdrawals, NEW inputs \in SUBSET Utxos,
           inputs \subseteq Available(o), reserve_utxos(o, w, inputs)
    PROVE  /\ coin' \in [Operators -> [Utxos -> {"Absent", "Available", "Reserved", "Spent"}]]
           /\ holder' \in [Operators -> [Utxos -> Withdrawals \cup {Nobody}]]
           /\ \A p \in Operators, v \in Withdrawals : Held(p, v) \subseteq Held(p, v)'
<1>1. RowTypes
  BY DEF IInv, Types
<1>2. coin' \in [Operators -> [Utxos -> {"Absent", "Available", "Reserved", "Spent"}]]
  BY <1>1 DEF RowTypes, reserve_utxos
<1>3. holder' \in [Operators -> [Utxos -> Withdrawals \cup {Nobody}]]
  BY <1>1 DEF RowTypes, reserve_utxos
<1>4. \A p \in Operators, u \in Utxos :
          coin[p][u] = "Reserved" => coin'[p][u] = coin[p][u] /\ holder'[p][u] = holder[p][u]
  BY <1>1 DEF RowTypes, reserve_utxos, Available
<1> QED
  BY <1>2, <1>3, <1>4 DEF Held

(* designate_quorum names operators. *)
LEMMA DesignatedAreOperators ==
    ASSUME NEW w \in Withdrawals
    PROVE  designate_quorum(w) \in SUBSET Operators
<1>1. w \in Nat /\ N \in Nat /\ N > 0
  BY WithdrawalAssumption, OperatorAssumption
<1>2. w % N \in Nat
  BY <1>1
<1>3. \A k \in 0..(Threshold - 1) : ((w % N) + k) \in Nat
  BY <1>2, OperatorAssumption
<1>4. \A m \in Nat : m % N \in 0..(N - 1)
  BY <1>1
<1> QED
  BY <1>3, <1>4 DEF designate_quorum, Operators

(* A payout is created once, over inputs no other payout of the operator   *)
(* has, and nobody has signed it.                                          *)
LEMMA CreatingKeeps ==
    ASSUME IInv, NEW o \in Operators, NEW w \in Withdrawals, NEW inputs \in SUBSET Utxos,
           NEW hash \in BOOLEAN, PayoutFits(o, w, inputs), create_payout(o, w, inputs, hash),
           UNCHANGED <<st, coin, holder, solana, goldcoin, partials, bounds>>
    PROVE  /\ payout' \in [Operators -> [Withdrawals -> PayoutType]]
           /\ Grows
           /\ \A p \in Operators, v \in Withdrawals : RowFine(p, v)'
           /\ PayoutsDisjoint' /\ SentFine'
           /\ \A p \in partials' : PartialFine(p)'
<1>1. RowTypes
  BY DEF IInv, Types
<1>2. PICK new : new = [NoPayout EXCEPT !.exists = TRUE, !.inputs = inputs,
                           !.quorum = designate_quorum(w),
                           !.address = hash, !.intent = hash]
  OBVIOUS
<1>3. /\ new \in PayoutType
      /\ new.exists /\ new.inputs = inputs /\ new.quorum = designate_quorum(w)
      /\ new.signed = {}
  <2>1. NoPayout \in PayoutType
    BY OperatorAssumption DEF PayoutType, NoPayout
  <2>2. designate_quorum(w) \in SUBSET Operators
    BY DesignatedAreOperators
  <2>3. new \in PayoutType
    BY <1>2, <2>1, <2>2 DEF PayoutType
  <2>4. NoPayout.signed = {} /\ new.signed = NoPayout.signed
    BY <1>2 DEF NoPayout
  <2>5. new.exists = TRUE /\ new.inputs = inputs /\ new.quorum = designate_quorum(w)
    BY <1>2, <2>1 DEF PayoutType
  <2> QED
    BY <2>3, <2>4, <2>5
<1>4. payout' = [payout EXCEPT ![o][w] = new]
  BY <1>2 DEF create_payout
<1>5. /\ payout' \in [Operators -> [Withdrawals -> PayoutType]]
      /\ payout'[o][w] = new
      /\ \A p \in Operators, v \in Withdrawals :
            p # o \/ v # w => payout'[p][v] = payout[p][v]
  BY <1>1, <1>3, <1>4 DEF RowTypes
<1>6. /\ st' = st /\ coin' = coin /\ holder' = holder /\ partials' = partials
      /\ burned' = burned /\ onchain' = onchain /\ completing' = completing /\ net' = net
  BY DEF solana, goldcoin
<1>7. RowFine(o, w) /\ ~payout[o][w].exists /\ payout[o][w].signed = {}
  BY DEF IInv, PayoutFits, RowFine
<1>8. Grows
  BY <1>5, <1>6, <1>7 DEF Grows
<1>9. ASSUME NEW p \in Operators, NEW v \in Withdrawals PROVE RowFine(p, v)'
  <2>1. CASE p = o /\ v = w
    BY <1>3, <1>5, <1>6, <1>7, <2>1 DEF RowFine, QuorumsOf
  <2>2. CASE p # o \/ v # w
    <3>1. Core(payout'[p][v]) = Core(payout[p][v])
      BY <1>5, <2>2
    <3> QED
      BY <1>6, <1>8, <3>1, RowKept
  <2> QED
    BY <2>1, <2>2
<1>10. PayoutsDisjoint'
  BY <1>3, <1>5 DEF IInv, PayoutsDisjoint, PayoutFits
<1>11. SentFine'
  BY <1>6, <1>8, SentKept
<1>12. \A p \in partials' : PartialFine(p)'
  BY <1>6, <1>8, PartialKept DEF Held
<1> QED
  BY <1>5, <1>8, <1>9, <1>10, <1>11, <1>12

(* reserve_utxos by the builder keeps the invariant. *)
LEMMA ReserveStep ==
    ASSUME IInv, NEW o \in Operators, build_reserves(o)
    PROVE  IInv'
<1>1. exe[o].pc = "reserve"
  BY DEF build_reserves, At
<1>2. PICK w \in Withdrawals : w = Current(o)
  BY <1>1, BusyAtARow
<1>3. UNCHANGED <<payout, sig, solana, goldcoin, partials, bounds>>
  BY DEF build_reserves
<1>4. CASE RowDone(o) /\ UNCHANGED <<coin, holder>>
  BY <1>1, <1>3, <1>4, RowDoneRests, RestedIsFine, NobodyServes, BoundsStay, LocalStep
<1>5. CASE /\ exe[o].inputs \subseteq Available(o)
           /\ reserve_utxos(o, w, exe[o].inputs)
           /\ Goto(o, "building") /\ UNCHANGED st
  <2>1. Moves(o) /\ ExecutorFine(o)'
    BY <1>1, <1>5, GotoStays, BuildingIsFine
  <2>2. exe[o].inputs \in SUBSET Utxos /\ RowTypes /\ sig \in [Operators -> SigType]
    BY DEF IInv, Types, ExeType
  <2>3. /\ coin' \in [Operators -> [Utxos -> {"Absent", "Available", "Reserved", "Spent"}]]
        /\ holder' \in [Operators -> [Utxos -> Withdrawals \cup {Nobody}]]
        /\ \A p \in Operators, v \in Withdrawals : Held(p, v) \subseteq Held(p, v)'
    <3>1. PICK inputs \in SUBSET Utxos :
              inputs \subseteq Available(o) /\ reserve_utxos(o, w, inputs)
      BY <1>5, <2>2
    <3> QED
      BY <3>1, ReservingKeepsHeld
  <2>4. Types'
    BY <1>3, <2>1, <2>2, <2>3, ChainTypesKept DEF Types, RowTypes, Moves
  <2>5. Grows
    BY <1>3, <2>1 DEF Grows, Moves, solana, goldcoin
  <2>6. (\A p \in Operators : ExecutorFine(p)') /\ (\A q \in Operators : SignerFine(q)')
    BY <1>1, <1>3, <2>1, <2>5, NobodyServes, ExecutorsAndSignersKept DEF Moves
  <2>7. \A p \in Operators, v \in Withdrawals : RowFine(p, v)'
    BY <1>3, <2>1, <2>5, RowKept DEF Moves
  <2>8. PayoutsDisjoint' /\ SentFine'
    BY <1>3, <2>5, DisjointKept, SentKept DEF solana, goldcoin
  <2>9. \A p \in partials : p.signer \in Operators /\ p.w \in Withdrawals
    BY DEF IInv, Types, ChainTypes
  <2>10. \A p \in partials : PartialFine(p)'
    BY <2>3, <2>5, <2>9, PartialKept
  <2> QED
    BY <1>3, <2>4, <2>6, <2>7, <2>8, <2>10 DEF IInv
<1> QED
  BY <1>2, <1>4, <1>5 DEF build_reserves

(* create_payout by the builder keeps the invariant. *)
LEMMA CreateStep ==
    ASSUME IInv, NEW o \in Operators, build_creates(o)
    PROVE  IInv'
<1>1. exe[o].pc = "create"
  BY DEF build_creates, At
<1>2. PICK w \in Withdrawals : w = Current(o)
  BY <1>1, BusyAtARow
<1>3. UNCHANGED <<coin, holder, sig, solana, goldcoin, partials, bounds>>
  BY DEF build_creates
<1>4. CASE Abandon(o) /\ UNCHANGED payout
  BY <1>1, <1>3, <1>4, AbandonRests, RestedIsFine, NobodyServes, BoundsStay, LocalStep
<1>5. CASE /\ PayoutFits(o, w, exe[o].inputs)
           /\ create_payout(o, w, exe[o].inputs, canonical_payout_intent(w, exe[o].inputs))
           /\ Goto(o, "signing") /\ UNCHANGED st
  <2>1. Moves(o) /\ ExecutorFine(o)'
    BY <1>1, <1>5, GotoStays, BuildingIsFine
  <2>2. exe[o].inputs \in SUBSET Utxos /\ RowTypes /\ sig \in [Operators -> SigType]
    BY DEF IInv, Types, ExeType
  <2>3. PICK inputs \in SUBSET Utxos, hash \in BOOLEAN :
            PayoutFits(o, w, inputs) /\ create_payout(o, w, inputs, hash)
    BY <1>5, <2>2 DEF canonical_payout_intent
  <2>4. UNCHANGED <<st, coin, holder, solana, goldcoin, partials, bounds>>
    BY <1>3, <1>5
  <2>5. /\ payout' \in [Operators -> [Withdrawals -> PayoutType]]
        /\ Grows
        /\ \A p \in Operators, v \in Withdrawals : RowFine(p, v)'
        /\ PayoutsDisjoint' /\ SentFine'
        /\ \A p \in partials' : PartialFine(p)'
    BY <2>3, <2>4, CreatingKeeps
  <2>6. Types'
    BY <1>3, <2>1, <2>2, <2>5, ChainTypesKept DEF Types, RowTypes, Moves
  <2>7. (\A p \in Operators : ExecutorFine(p)') /\ (\A q \in Operators : SignerFine(q)')
    BY <1>1, <1>3, <2>1, <2>5, NobodyServes, ExecutorsAndSignersKept DEF Moves
  <2> QED
    BY <2>5, <2>6, <2>7 DEF IInv
<1> QED
  BY <1>2, <1>4, <1>5 DEF build_creates

(* What is recorded as signed is signed by a whole quorum. *)
LEMMA RecordStep ==
    ASSUME IInv, NEW o \in Operators, record_signed_payout(o)
    PROVE  IInv'
<1>1. exe[o].pc = "collect" /\ exe[o].got = exe[o].quorum
  BY DEF record_signed_payout, At
<1>2. PICK w \in Withdrawals :
          /\ w = Current(o) /\ exe[o].todo # {}
          /\ payout[o][w].exists
          /\ exe[o].inputs = payout[o][w].inputs
          /\ exe[o].quorum \in QuorumsOf(w)
          /\ \A q \in exe[o].got :
                [signer |-> q, w |-> w, inputs |-> exe[o].inputs] \in partials
  BY <1>1, BusyAtARow DEF IInv, ExecutorFine
<1>3. PICK new : new = [payout[o][w] EXCEPT
                          !.signed = IF payout[o][w].signed = {} THEN exe[o].quorum
                                     ELSE payout[o][w].signed]
  OBVIOUS
<1>4. /\ payout' = [payout EXCEPT ![o][w].signed = IF @ = {} THEN exe[o].quorum ELSE @]
      /\ st' = [st EXCEPT ![o][Current(o)] = "Broadcast"]
      /\ exe' = [exe EXCEPT ![o] = NextRow(o, [st[o] EXCEPT ![Current(o)] = "Broadcast"])]
      /\ UNCHANGED <<coin, holder, sig, solana, goldcoin, partials, bounds>>
  BY <1>2 DEF record_signed_payout
<1>5. Moves(o) /\ Rested(exe'[o], st'[o])
  <2>1. "Broadcast" \in States \ {"Absent", "Completed"}
    BY DEF States
  <2> QED
    BY <1>2, <1>4, <2>1, WrittenRowRests DEF RowWritten
<1>6. RowTypes /\ sig \in [Operators -> SigType] /\ exe[o] \in ExeType /\ RowFine(o, w)
  BY DEF IInv, Types
<1>7. payout[o][w] \in PayoutType /\ payout \in [Operators -> [Withdrawals -> PayoutType]]
  BY <1>6 DEF RowTypes
<1>8. /\ new \in PayoutType
      /\ new.exists = payout[o][w].exists /\ new.inputs = payout[o][w].inputs
      /\ new.quorum = payout[o][w].quorum /\ new.completed = payout[o][w].completed
      /\ new.signed = IF payout[o][w].signed = {} THEN exe[o].quorum ELSE payout[o][w].signed
  BY <1>3, <1>6, <1>7 DEF PayoutType, ExeType
<1>9. payout' = [payout EXCEPT ![o] = [payout[o] EXCEPT ![w] = new]]
  BY <1>3, <1>4, <1>7
<1>10. /\ payout' \in [Operators -> [Withdrawals -> PayoutType]]
       /\ payout'[o][w] = new
       /\ \A p \in Operators, v \in Withdrawals :
             p # o \/ v # w => payout'[p][v] = payout[p][v]
  BY <1>7, <1>8, <1>9
<1>11. Types'
  BY <1>4, <1>5, <1>6, <1>10, ChainTypesKept DEF Types, RowTypes, Moves
<1>12. Grows
  BY <1>4, <1>5, <1>8, <1>10 DEF Grows, Moves, solana, goldcoin
<1>13. (\A p \in Operators : ExecutorFine(p)') /\ (\A q \in Operators : SignerFine(q)')
  BY <1>1, <1>4, <1>5, <1>12, RestedIsFine, NobodyServes, ExecutorsAndSignersKept DEF Moves
<1>14. ASSUME NEW p \in Operators, NEW v \in Withdrawals PROVE RowFine(p, v)'
  <2>1. CASE p = o /\ v = w
    <3>1. st'[o][w] = "Broadcast"
      BY <1>2, <1>4, <1>6 DEF RowTypes
    <3>2. w \in burned'
      BY <1>1, <1>2, <1>4, <1>6, BusyAtARow DEF RowFine, IInv, ExecutorFine, solana
    <3>3. new.quorum \in QuorumsOf(w) /\ new.signed \in QuorumsOf(w)
      BY <1>2, <1>6, <1>8 DEF RowFine
    <3>4. \A q \in new.signed : [signer |-> q, w |-> w, inputs |-> new.inputs] \in partials'
      BY <1>1, <1>2, <1>4, <1>6, <1>8 DEF RowFine
    <3> QED
      BY <1>2, <1>8, <1>10, <2>1, <3>1, <3>2, <3>3, <3>4 DEF RowFine, QuorumsOf
  <2>2. CASE p # o \/ v # w
    <3>1. Core(payout'[p][v]) = Core(payout[p][v])
      BY <1>10, <2>2
    <3> QED
      BY <1>5, <1>12, <3>1, RowKept DEF Moves
  <2> QED
    BY <2>1, <2>2
<1>15. PayoutsDisjoint'
  <2>1. \A p \in Operators, v \in Withdrawals : payout'[p][v].exists => payout[p][v].exists
    BY <1>8, <1>10
  <2> QED
    BY <1>12, <2>1, DisjointKept
<1>16. SentFine'
  BY <1>4, <1>12, SentKept DEF solana, goldcoin
<1>17. \A p \in partials : PartialFine(p)'
  BY <1>4, <1>12, PartialKept DEF Held
<1> QED
  BY <1>4, <1>11, <1>13, <1>14, <1>15, <1>16, <1>17 DEF IInv

-----------------------------------------------------------------------------
(* Steps of a signer.                                                      *)

(* The answer of q reaches executor o, which waits for it. *)
Answered(o, q) ==
    \/ exe'[o] = [exe[o] EXCEPT !.refused = @ \cup {q}]
    \/ /\ exe'[o] = [exe[o] EXCEPT !.got = @ \cup {q}]
       /\ [signer |-> q, w |-> Current(o), inputs |-> exe[o].inputs] \in partials'

(* sign: an executor that gets an answer goes on collecting. *)
LEMMA AnsweredIsFine ==
    ASSUME IInv, Grows, NEW o \in Operators, NEW q \in Operators,
           exe[o].pc = "collect", Answered(o, q)
    PROVE  /\ exe'[o] \in ExeType /\ exe'[o].pc = "collect" /\ exe'[o].inputs = exe[o].inputs
           /\ exe'[o].quorum = exe[o].quorum /\ Current(o)' = Current(o)
           /\ \A r : r \in exe'[o].got \cup exe'[o].refused =>
                       r = q \/ r \in exe[o].got \cup exe[o].refused
           /\ ExecutorFine(o)'
<1>1. exe[o] \in ExeType /\ exe[o].todo # {} /\ ExecutorFine(o)
  BY DEF IInv, Types, ExecutorFine
<1>2. PICK w \in Withdrawals : w = Current(o)
  BY BusyAtARow
<1>3. /\ exe'[o] \in ExeType
      /\ exe'[o].pc = exe[o].pc /\ exe'[o].inputs = exe[o].inputs
      /\ exe'[o].quorum = exe[o].quorum /\ exe'[o].todo = exe[o].todo
      /\ \/ exe'[o].got = exe[o].got /\ exe'[o].refused = exe[o].refused \cup {q}
         \/ /\ exe'[o].refused = exe[o].refused /\ exe'[o].got = exe[o].got \cup {q}
            /\ [signer |-> q, w |-> w, inputs |-> exe[o].inputs] \in partials'
  <2>1. CASE exe'[o] = [exe[o] EXCEPT !.refused = @ \cup {q}]
    BY <1>1, <2>1 DEF ExeType
  <2>2. CASE /\ exe'[o] = [exe[o] EXCEPT !.got = @ \cup {q}]
             /\ [signer |-> q, w |-> Current(o), inputs |-> exe[o].inputs] \in partials'
    BY <1>1, <1>2, <2>2 DEF ExeType
  <2> QED
    BY <2>1, <2>2 DEF Answered
<1>4. Current(o)' = w
  BY <1>2, <1>3 DEF Current
<1>5. \A v \in exe[o].todo : st'[o][v] # "Absent"
  BY <1>1 DEF ExecutorFine, Grows, ExeType
<1>6. /\ payout'[o][w].exists /\ exe[o].inputs = payout'[o][w].inputs
      /\ exe[o].quorum \in QuorumsOf(w)
      /\ \A r \in exe'[o].got :
            [signer |-> r, w |-> w, inputs |-> exe[o].inputs] \in partials'
  BY <1>1, <1>2, <1>3 DEF ExecutorFine, Grows
<1>7. ExecutorFine(o)'
  BY <1>1, <1>3, <1>4, <1>5, <1>6 DEF ExecutorFine, QuorumsOf
<1> QED
  BY <1>2, <1>3, <1>4, <1>7

(* A signer that is done, or that nobody waits for any more. *)
LEMMA FreeIsTyped == Free \in SigType
BY OperatorAssumption DEF Free, SigType, States, Operators

(* A signer without a request is fine. *)
LEMMA FreeIsFine ==
    ASSUME NEW q \in Operators, sig'[q] = Free
    PROVE  SignerFine(q)'
BY DEF SignerFine, Free

(* The end of a request. *)
LEMMA EndOfRequest ==
    ASSUME IInv, Grows, NEW q \in Operators, sig' = [sig EXCEPT ![q] = Free],
           IF sig[q].open
           THEN /\ Answered(sig[q].from, q)
                /\ exe' = [exe EXCEPT ![sig[q].from] = exe'[sig[q].from]]
           ELSE exe' = exe
    PROVE  /\ exe' \in [Operators -> ExeType] /\ sig' \in [Operators -> SigType]
           /\ \A p \in Operators : ExecutorFine(p)'
           /\ \A p \in Operators : SignerFine(p)'
<1>1. /\ exe \in [Operators -> ExeType] /\ sig \in [Operators -> SigType]
      /\ sig[q].from \in Operators
  BY DEF IInv, Types, SigType
<1>2. /\ sig' \in [Operators -> SigType] /\ sig'[q] = Free
      /\ \A p \in Operators \ {q} : sig'[p] = sig[p]
  BY <1>1, FreeIsTyped
<1>3. CASE ~sig[q].open
  <2>1. \A p \in Operators : ExecutorFine(p)'
    BY <1>3, ExecutorKept
  <2>2. \A p \in Operators : SignerFine(p)'
    BY <1>2, <1>3, SignerKept, FreeIsFine
  <2> QED
    BY <1>1, <1>2, <1>3, <2>1, <2>2
<1>4. CASE sig[q].open
  <2>1. PICK o \in Operators : o = sig[q].from
    BY <1>1
  <2>2. exe[o].pc = "collect"
    BY <1>4, <2>1 DEF IInv, SignerFine
  <2>3. Answered(o, q) /\ exe' = [exe EXCEPT ![o] = exe'[o]]
    BY <1>4, <2>1
  <2>4. /\ exe'[o] \in ExeType /\ exe'[o].pc = "collect" /\ exe'[o].inputs = exe[o].inputs
        /\ exe'[o].quorum = exe[o].quorum /\ Current(o)' = Current(o)
        /\ \A r : r \in exe'[o].got \cup exe'[o].refused =>
                    r = q \/ r \in exe[o].got \cup exe[o].refused
        /\ ExecutorFine(o)'
    BY <2>2, <2>3, AnsweredIsFine
  <2>5. exe' \in [Operators -> ExeType] /\ \A p \in Operators \ {o} : exe'[p] = exe[p]
    BY <1>1, <2>3, <2>4
  <2>6. \A p \in Operators : ExecutorFine(p)'
    BY <2>4, <2>5, ExecutorKept
  <2>7. ASSUME NEW p \in Operators PROVE SignerFine(p)'
    <3>1. CASE p = q
      BY <1>2, <3>1, FreeIsFine
    <3>2. CASE p # q /\ ~(sig[p].open /\ sig[p].from = o)
      <4>1. sig[p].from \in Operators
        BY <1>1 DEF SigType
      <4> QED
        BY <1>2, <2>5, <3>2, <4>1, SignerKept
    <3>3. CASE p # q /\ sig[p].open /\ sig[p].from = o
      <4>1. SignerFine(p) /\ sig'[p] = sig[p]
        BY <1>2, <3>3 DEF IInv
      <4>2. PICK w : w = Current(o) /\ w = Current(o)'
        BY <2>4
      <4>3. /\ w \in Withdrawals /\ st'[p][w] # "Absent" /\ sig[p].w = w
            /\ sig[p].pc # "idle" /\ exe[o].inputs = sig[p].inputs
            /\ p \in exe[o].quorum /\ p \notin exe[o].got \cup exe[o].refused
        BY <3>3, <4>1, <4>2 DEF SignerFine, Grows
      <4>4. p \in exe'[o].quorum /\ p \notin exe'[o].got \cup exe'[o].refused
        BY <2>4, <3>3, <4>3
      <4> QED
        BY <2>4, <3>3, <4>1, <4>2, <4>3, <4>4 DEF SignerFine
    <3> QED
      BY <3>1, <3>2, <3>3
  <2> QED
    BY <1>2, <2>5, <2>6, <2>7
<1> QED
  BY <1>3, <1>4

(* A refusal ends the request and is counted while somebody waits. *)
LEMMA RefuseEnds ==
    ASSUME IInv, Grows, NEW q \in Operators, Refuse(q)
    PROVE  /\ exe' \in [Operators -> ExeType] /\ sig' \in [Operators -> SigType]
           /\ \A p \in Operators : ExecutorFine(p)'
           /\ \A p \in Operators : SignerFine(p)'
<1>1. exe \in [Operators -> ExeType] /\ sig[q].from \in Operators
  BY DEF IInv, Types, SigType
<1>2. sig[q].open => Answered(sig[q].from, q) /\
                     exe' = [exe EXCEPT ![sig[q].from] = exe'[sig[q].from]]
  BY <1>1 DEF Refuse, Answered
<1> QED
  BY <1>2, EndOfRequest DEF Refuse

(* So does a partial signature. *)
LEMMA GrantEnds ==
    ASSUME IInv, Grows, NEW q \in Operators, Grant(q),
           [signer |-> q, w |-> sig[q].w, inputs |-> sig[q].inputs] \in partials'
    PROVE  /\ exe' \in [Operators -> ExeType] /\ sig' \in [Operators -> SigType]
           /\ \A p \in Operators : ExecutorFine(p)'
           /\ \A p \in Operators : SignerFine(p)'
<1>1. exe \in [Operators -> ExeType] /\ sig[q].from \in Operators
  BY DEF IInv, Types, SigType
<1>2. sig[q].open => Answered(sig[q].from, q) /\
                     exe' = [exe EXCEPT ![sig[q].from] = exe'[sig[q].from]]
  <2> SUFFICES ASSUME sig[q].open
               PROVE  Answered(sig[q].from, q) /\
                      exe' = [exe EXCEPT ![sig[q].from] = exe'[sig[q].from]]
    OBVIOUS
  <2>1. Current(sig[q].from) = sig[q].w /\ exe[sig[q].from].inputs = sig[q].inputs
    BY DEF IInv, SignerFine
  <2>2. exe' = [exe EXCEPT ![sig[q].from].got = @ \cup {q}]
    BY DEF Grant
  <2>3. exe'[sig[q].from] = [exe[sig[q].from] EXCEPT !.got = @ \cup {q}]
    BY <1>1, <2>2
  <2> QED
    BY <1>1, <2>1, <2>2, <2>3 DEF Answered
<1> QED
  BY <1>2, EndOfRequest DEF Grant

(* sign_payout: the next step of a request keeps all processes fine. *)
LEMMA SignerMovesOn ==
    ASSUME IInv, Grows, NEW q \in Operators, sig[q].pc # "idle",
           NEW pc \in {"create", "Validated", "Building", "Signing", "window", "verify"},
           SignerGoto(q, pc)
    PROVE  /\ exe' \in [Operators -> ExeType] /\ sig' \in [Operators -> SigType]
           /\ \A p \in Operators : ExecutorFine(p)'
           /\ \A p \in Operators : SignerFine(p)'
<1>1. exe' = exe /\ sig' = [sig EXCEPT ![q].pc = pc]
  BY DEF SignerGoto
<1>2. exe \in [Operators -> ExeType] /\ sig \in [Operators -> SigType] /\ SignerFine(q)
  BY DEF IInv, Types
<1>3. PICK s : s = [sig[q] EXCEPT !.pc = pc]
  OBVIOUS
<1>4. /\ s \in SigType /\ s.pc = pc /\ s.w = sig[q].w /\ s.open = sig[q].open
      /\ s.from = sig[q].from /\ s.inputs = sig[q].inputs
  BY <1>2, <1>3 DEF SigType
<1>5. sig'[q] = s /\ \A p \in Operators \ {q} : sig'[p] = sig[p]
  BY <1>1, <1>2, <1>3
<1>6. sig' \in [Operators -> SigType]
  BY <1>1, <1>2, <1>4, <1>5
<1>7. \A p \in Operators : ExecutorFine(p)'
  BY <1>1, ExecutorKept
<1>8. \A p \in Operators \ {q} : SignerFine(p)'
  BY <1>1, <1>5, SignerKept
<1>9. SignerFine(q)'
  <2>1. s.w \in Withdrawals /\ st'[q][s.w] # "Absent"
    BY <1>2, <1>4 DEF SignerFine, Grows
  <2> QED
    BY <1>1, <1>2, <1>4, <1>5, <2>1 DEF SignerFine, Current
<1> QED
  BY <1>1, <1>2, <1>6, <1>7, <1>8, <1>9

(* Rows, payouts and partials when only states move. *)
LEMMA RestKept ==
    ASSUME IInv, Grows, UNCHANGED <<payout, coin, holder, partials, onchain, completing>>,
           DOMAIN net' = DOMAIN net,
           \A p \in Operators, w \in Withdrawals :
              /\ st'[p][w] = "Completed" => st[p][w] = "Completed"
              /\ st'[p][w] # "Absent" => st[p][w] # "Absent" \/ w \in burned'
    PROVE  /\ \A p \in Operators, w \in Withdrawals : RowFine(p, w)'
           /\ PayoutsDisjoint' /\ SentFine'
           /\ \A p \in partials' : PartialFine(p)'
<1>1. \A p \in Operators, w \in Withdrawals : RowFine(p, w)'
  BY RowKept
<1>2. PayoutsDisjoint' /\ SentFine'
  BY DisjointKept, SentKept
<1>3. \A p \in partials' : PartialFine(p)'
  BY PartialKept DEF Held
<1> QED
  BY <1>1, <1>2, <1>3

(* The signer asked next is of the quorum and has not answered. *)
LEMMA AskedIsNext ==
    ASSUME IInv, NEW o \in Operators, NEW q \in Operators, Asks(o, q)
    PROVE  /\ exe[o].pc = "collect" /\ q \in exe[o].quorum
           /\ q \notin exe[o].got \cup exe[o].refused
<1>1. PICK unasked : unasked = exe[o].quorum \ (exe[o].got \cup exe[o].refused)
  OBVIOUS
<1>2. unasked \in SUBSET Nat
  BY <1>1, OperatorAssumption DEF IInv, Types, ExeType, Operators
<1>3. exe[o].pc = "collect" /\ unasked # {} /\ q = Min(unasked)
  BY <1>1 DEF Asks, At
<1>4. q \in unasked
  BY <1>2, <1>3, LeastNumber
<1> QED
  BY <1>1, <1>3, <1>4

(* A request that is turned away keeps the invariant. *)
LEMMA RefusedAtOnce ==
    ASSUME IInv, NEW q \in Operators, NEW o \in Operators, sign_payout_refused(q, o)
    PROVE  IInv'
<1>1. /\ exe[o].pc = "collect" /\ NotServed(o)
      /\ exe' = [exe EXCEPT ![o].refused = @ \cup {q}]
      /\ UNCHANGED <<payout, coin, holder, sig, solana, goldcoin, partials>>
      /\ UNCHANGED bounds /\ UNCHANGED st
  BY AskedIsNext
     DEF sign_payout_refused, BeingServed, NotServed, rows, SignerUnchanged
<1>2. exe \in [Operators -> ExeType] /\ st \in [Operators -> [Withdrawals -> States]]
  BY DEF IInv, Types, RowTypes
<1>3. exe'[o] = [exe[o] EXCEPT !.refused = @ \cup {q}]
  BY <1>1, <1>2
<1>4. Grows
  BY <1>1 DEF Grows, solana, goldcoin
<1>5. exe'[o] \in ExeType /\ ExecutorFine(o)'
  BY <1>1, <1>3, <1>4, AnsweredIsFine DEF Answered
<1>6. Moves(o)
  BY <1>1, <1>2, <1>5 DEF Moves
<1> QED
  BY <1>1, <1>5, <1>6, BoundsStay, LocalStep

(* A request is taken up: the signer knows it by the executor's own words. *)
LEMMA TakenUp ==
    ASSUME IInv, NEW q \in Operators, NEW o \in Operators, sign_payout(q, o)
    PROVE  IInv'
<1>1. /\ exe[o].pc = "collect" /\ q \in exe[o].quorum
      /\ q \notin exe[o].got \cup exe[o].refused
  BY AskedIsNext DEF sign_payout
<1>2. PICK w \in Withdrawals : w = Current(o)
  BY <1>1, BusyAtARow
<1>3. /\ rows' = rows /\ exe' = exe /\ partials' = partials
      /\ UNCHANGED <<solana, goldcoin, bounds>>
  BY DEF sign_payout, SignerUnchanged
<1>4. PICK pc \in {"reserve", "verify"}, was \in States :
          sig' = [sig EXCEPT ![q] = Request(o, pc, was)]
  BY DEF sign_payout, States
<1>5. st[q][w] # "Absent"
  BY <1>2 DEF sign_payout
<1>6. Types
  BY DEF IInv
<1>7. /\ Request(o, pc, was) \in SigType
      /\ Request(o, pc, was).pc = pc /\ Request(o, pc, was).w = w
      /\ Request(o, pc, was).from = o /\ Request(o, pc, was).inputs = exe[o].inputs
  <2>1. exe[o] \in ExeType /\ w \in Nat
    BY <1>6, WithdrawalAssumption DEF Types
  <2> QED
    BY <1>2, <2>1 DEF Request, SigType, ExeType
<1>8. /\ sig' \in [Operators -> SigType] /\ sig'[q] = Request(o, pc, was)
      /\ \A p \in Operators \ {q} : sig'[p] = sig[p]
  BY <1>4, <1>6, <1>7 DEF Types
<1>9. Grows
  BY <1>3 DEF Grows, rows, solana, goldcoin
<1>10. Types'
  BY <1>3, <1>6, <1>8, ChainTypesKept DEF Types, RowTypes, rows
<1>11. \A p \in Operators : ExecutorFine(p)'
  BY <1>3, <1>9, ExecutorKept
<1>12. \A p \in Operators : SignerFine(p)'
  <2>1. \A p \in Operators \ {q} : SignerFine(p)'
    BY <1>3, <1>8, <1>9, SignerKept
  <2>2. Current(o)' = w
    BY <1>2, <1>3 DEF Current
  <2>3. SignerFine(q)'
    BY <1>1, <1>3, <1>5, <1>7, <1>8, <2>2 DEF SignerFine, rows
  <2> QED
    BY <2>1, <2>3
<1> QED
  BY <1>3, <1>9, <1>10, <1>11, <1>12, RestKept DEF IInv, rows, solana, goldcoin

(* At most one row is written, and it was there before. *)
LEMMA OneRowMoves ==
    ASSUME Types, NEW q \in Operators, NEW w \in Withdrawals, st[q][w] # "Absent",
           NEW to \in States \ {"Absent", "Completed"},
           st' = st \/ st' = [st EXCEPT ![q][w] = to]
    PROVE  /\ st' \in [Operators -> [Withdrawals -> States]]
           /\ \A p \in Operators, v \in Withdrawals :
                 \/ st'[p][v] = st[p][v]
                 \/ st[p][v] # "Absent" /\ st'[p][v] \notin {"Absent", "Completed"}
<1>1. st \in [Operators -> [Withdrawals -> States]]
  BY DEF Types, RowTypes
<1>2. CASE st' = st
  BY <1>1, <1>2
<1>3. CASE st' = [st EXCEPT ![q][w] = to]
  <2>1. st' \in [Operators -> [Withdrawals -> States]]
    BY <1>1, <1>3
  <2>2. \A p \in Operators, v \in Withdrawals :
           IF p = q /\ v = w THEN st'[p][v] = to ELSE st'[p][v] = st[p][v]
    BY <1>1, <1>3
  <2> QED
    BY <2>1, <2>2
<1> QED
  BY <1>2, <1>3

(* Every step of a request in service keeps the invariant. *)
LEMMA ServingSteps ==
    ASSUME IInv, NEW q \in Operators, Serving(q)
    PROVE  IInv'
<1>1. sig[q].pc # "idle"
  BY DEF Serving, adopt_reserves, adopt_creates, adopt_transition, signing_window,
         sign_partial
<1>2. PICK w \in Withdrawals, inputs \in SUBSET Utxos :
          w = sig[q].w /\ inputs = sig[q].inputs /\ st[q][w] # "Absent"
  BY <1>1 DEF IInv, SignerFine, Types, SigType
<1>3. Types
  BY DEF IInv
<1>4. UNCHANGED <<solana, goldcoin, bounds>>
  BY DEF Serving, adopt_reserves, adopt_creates, adopt_transition, signing_window,
         sign_partial, SignerUnchanged
<1>5. CASE adopt_reserves(q)
  <2>1. st' = st /\ payout' = payout /\ partials' = partials
    BY <1>5 DEF adopt_reserves
  <2>2. Grows
    BY <1>4, <2>1 DEF Grows, solana, goldcoin
  <2>3. CASE Refuse(q) /\ UNCHANGED <<coin, holder>>
    <3>1. /\ exe' \in [Operators -> ExeType] /\ sig' \in [Operators -> SigType]
          /\ \A p \in Operators : ExecutorFine(p)'
          /\ \A p \in Operators : SignerFine(p)'
      BY <2>2, <2>3, RefuseEnds
    <3>2. Types'
      BY <1>3, <1>4, <2>1, <2>3, <3>1, ChainTypesKept DEF Types, RowTypes
    <3> QED
      BY <1>4, <2>1, <2>2, <2>3, <3>1, <3>2, RestKept DEF IInv, solana, goldcoin
  <2>4. CASE /\ inputs \subseteq Available(q)
             /\ reserve_utxos(q, w, inputs) /\ SignerGoto(q, "create")
    <3>1. /\ coin' \in [Operators -> [Utxos -> {"Absent", "Available", "Reserved", "Spent"}]]
          /\ holder' \in [Operators -> [Utxos -> Withdrawals \cup {Nobody}]]
          /\ \A p \in Operators, v \in Withdrawals : Held(p, v) \subseteq Held(p, v)'
      BY <2>4, ReservingKeepsHeld
    <3>2. /\ exe' \in [Operators -> ExeType] /\ sig' \in [Operators -> SigType]
          /\ \A p \in Operators : ExecutorFine(p)'
          /\ \A p \in Operators : SignerFine(p)'
      BY <1>1, <2>2, <2>4, SignerMovesOn
    <3>3. Types'
      BY <1>3, <1>4, <2>1, <3>1, <3>2, ChainTypesKept DEF Types, RowTypes
    <3>4. \A p \in Operators, v \in Withdrawals : RowFine(p, v)'
      BY <2>1, <2>2, RowKept
    <3>5. PayoutsDisjoint' /\ SentFine'
      BY <1>4, <2>1, <2>2, DisjointKept, SentKept DEF solana, goldcoin
    <3>6. \A p \in partials : p.signer \in Operators /\ p.w \in Withdrawals
      BY <1>3 DEF Types, ChainTypes
    <3>7. \A p \in partials : PartialFine(p)'
      BY <2>2, <3>1, <3>6, PartialKept
    <3> QED
      BY <2>1, <3>2, <3>3, <3>4, <3>5, <3>7 DEF IInv
  <2> QED
    BY <1>2, <1>5, <2>3, <2>4 DEF adopt_reserves
<1>6. CASE adopt_creates(q)
  <2>1. UNCHANGED <<st, coin, holder, solana, goldcoin, partials, bounds>>
    BY <1>4, <1>6 DEF adopt_creates
  <2>2. CASE Refuse(q) /\ UNCHANGED payout
    <3>1. Grows
      BY <2>1, <2>2 DEF Grows, solana, goldcoin
    <3>2. /\ exe' \in [Operators -> ExeType] /\ sig' \in [Operators -> SigType]
          /\ \A p \in Operators : ExecutorFine(p)'
          /\ \A p \in Operators : SignerFine(p)'
      BY <2>2, <3>1, RefuseEnds
    <3>3. Types'
      BY <1>3, <2>1, <2>2, <3>2, ChainTypesKept DEF Types, RowTypes
    <3> QED
      BY <2>1, <2>2, <3>1, <3>2, <3>3, RestKept DEF IInv, solana, goldcoin
  <2>3. CASE /\ PayoutFits(q, w, inputs) /\ create_payout(q, w, inputs, TRUE)
             /\ \E pc \in {"Validated", "Building"} : SignerGoto(q, pc)
    <3>1. /\ payout' \in [Operators -> [Withdrawals -> PayoutType]]
          /\ Grows
          /\ \A p \in Operators, v \in Withdrawals : RowFine(p, v)'
          /\ PayoutsDisjoint' /\ SentFine'
          /\ \A p \in partials' : PartialFine(p)'
      BY <2>1, <2>3, CreatingKeeps
    <3>2. /\ exe' \in [Operators -> ExeType] /\ sig' \in [Operators -> SigType]
          /\ \A p \in Operators : ExecutorFine(p)'
          /\ \A p \in Operators : SignerFine(p)'
      BY <1>1, <2>3, <3>1, SignerMovesOn
    <3>3. Types'
      BY <1>3, <2>1, <3>1, <3>2, ChainTypesKept DEF Types, RowTypes
    <3> QED
      BY <3>1, <3>2, <3>3 DEF IInv
  <2> QED
    BY <1>2, <1>6, <2>2, <2>3 DEF adopt_creates
<1>7. CASE adopt_transition(q)
  <2>1. UNCHANGED <<payout, coin, holder, partials>>
    BY <1>7 DEF adopt_transition
  <2>2. PICK to \in {"Validated", "Building", "Signing"} : to = sig[q].pc
    BY <1>7 DEF adopt_transition
  <2>3. \/ Refuse(q) /\ st' = st
        \/ /\ st' = [st EXCEPT ![q][w] = to]
           /\ \E pc \in {"Building", "Signing", "window"} : SignerGoto(q, pc)
    BY <1>2, <1>7, <2>2 DEF adopt_transition
  <2>4. /\ st' \in [Operators -> [Withdrawals -> States]]
        /\ \A p \in Operators, v \in Withdrawals :
              \/ st'[p][v] = st[p][v]
              \/ st[p][v] # "Absent" /\ st'[p][v] \notin {"Absent", "Completed"}
    <3>1. to \in States \ {"Absent", "Completed"}
      BY <2>2 DEF States
    <3>2. st' = st \/ st' = [st EXCEPT ![q][w] = to]
      BY <2>3
    <3> QED
      BY <1>2, <1>3, <3>1, <3>2, OneRowMoves
  <2>5. Grows
    BY <1>4, <2>1, <2>4 DEF Grows, solana, goldcoin
  <2>6. /\ exe' \in [Operators -> ExeType] /\ sig' \in [Operators -> SigType]
        /\ \A p \in Operators : ExecutorFine(p)'
        /\ \A p \in Operators : SignerFine(p)'
    BY <1>1, <2>3, <2>5, RefuseEnds, SignerMovesOn
  <2>7. Types'
    BY <1>3, <1>4, <2>1, <2>4, <2>6, ChainTypesKept DEF Types, RowTypes
  <2> QED
    BY <1>4, <2>1, <2>4, <2>5, <2>6, <2>7, RestKept DEF IInv, solana, goldcoin
<1>8. CASE signing_window(q)
  <2>1. rows' = rows /\ partials' = partials
    BY <1>8 DEF signing_window
  <2>2. Grows
    BY <1>4, <2>1 DEF Grows, rows, solana, goldcoin
  <2>3. /\ exe' \in [Operators -> ExeType] /\ sig' \in [Operators -> SigType]
        /\ \A p \in Operators : ExecutorFine(p)'
        /\ \A p \in Operators : SignerFine(p)'
    BY <1>1, <1>8, <2>2, RefuseEnds, SignerMovesOn DEF signing_window
  <2>4. Types'
    BY <1>3, <1>4, <2>1, <2>3, ChainTypesKept DEF Types, RowTypes, rows
  <2> QED
    BY <1>4, <2>1, <2>2, <2>3, <2>4, RestKept DEF IInv, rows, solana, goldcoin
<1>9. CASE sign_partial(q)
  <2>1. payout' = payout /\ coin' = coin /\ holder' = holder
    BY <1>9 DEF sign_partial
  <2>2. CASE /\ payout[q][w].exists /\ Signable(q, w) /\ SamePayout(q)
             /\ partials' = partials \cup {[signer |-> q, w |-> w, inputs |-> inputs]}
             /\ Grant(q) /\ st' = st
    <3>1. Grows
      BY <1>4, <2>1, <2>2 DEF Grows, solana, goldcoin
    <3>2. /\ exe' \in [Operators -> ExeType] /\ sig' \in [Operators -> SigType]
          /\ \A p \in Operators : ExecutorFine(p)'
          /\ \A p \in Operators : SignerFine(p)'
      BY <1>2, <2>2, <3>1, GrantEnds
    <3>3. ChainTypes'
      BY <1>3, <1>4, <2>2 DEF Types, ChainTypes, solana, goldcoin, bounds
    <3>4. Types'
      BY <1>3, <2>1, <2>2, <3>2, <3>3 DEF Types, RowTypes
    <3>5. \A p \in Operators, v \in Withdrawals : RowFine(p, v)'
      BY <2>1, <2>2, <3>1, RowKept
    <3>6. PayoutsDisjoint' /\ SentFine'
      BY <1>4, <2>1, <3>1, DisjointKept, SentKept DEF solana, goldcoin
    <3>7. payout[q][w].inputs = inputs /\ inputs \subseteq Held(q, w)
      BY <1>2, <2>2 DEF SamePayout, Signable, ReservationHolds
    <3>8. PartialFine([signer |-> q, w |-> w, inputs |-> inputs])'
      BY <2>1, <2>2, <3>7 DEF PartialFine, Held
    <3>9. \A p \in partials : PartialFine(p)'
      BY <2>1, <3>1, PartialKept DEF Held
    <3> QED
      BY <2>2, <3>2, <3>4, <3>5, <3>6, <3>8, <3>9 DEF IInv
  <2>3. CASE /\ Refuse(q) /\ partials' = partials
             /\ st' = st \/ st' = [st EXCEPT ![q][w] = "IntegrityHalted"]
    <3>1. /\ st' \in [Operators -> [Withdrawals -> States]]
          /\ \A p \in Operators, v \in Withdrawals :
                \/ st'[p][v] = st[p][v]
                \/ st[p][v] # "Absent" /\ st'[p][v] \notin {"Absent", "Completed"}
      <4>1. "IntegrityHalted" \in States \ {"Absent", "Completed"}
        BY DEF States
      <4> QED
        BY <1>2, <1>3, <2>3, <4>1, OneRowMoves
    <3>2. Grows
      BY <1>4, <2>1, <2>3, <3>1 DEF Grows, solana, goldcoin
    <3>3. /\ exe' \in [Operators -> ExeType] /\ sig' \in [Operators -> SigType]
          /\ \A p \in Operators : ExecutorFine(p)'
          /\ \A p \in Operators : SignerFine(p)'
      BY <2>3, <3>2, RefuseEnds
    <3>4. Types'
      BY <1>3, <1>4, <2>1, <2>3, <3>1, <3>3, ChainTypesKept DEF Types, RowTypes
    <3> QED
      BY <1>4, <2>1, <2>3, <3>1, <3>2, <3>3, <3>4, RestKept DEF IInv, solana, goldcoin
  <2> QED
    BY <1>2, <1>9, <2>2, <2>3 DEF sign_partial
<1> QED
  BY <1>5, <1>6, <1>7, <1>8, <1>9 DEF Serving

-----------------------------------------------------------------------------
(* Steps that touch what a payout is signed by or recorded as.             *)

(* Existence, inputs, signatures and completion of the payouts stay.       *)
PayoutsStand ==
    /\ payout' \in [Operators -> [Withdrawals -> PayoutType]]
    /\ \A o \in Operators, w \in Withdrawals :
          /\ payout'[o][w].exists = payout[o][w].exists
          /\ payout'[o][w].inputs = payout[o][w].inputs
          /\ payout'[o][w].signed = payout[o][w].signed
          /\ payout'[o][w].completed = payout[o][w].completed
          /\ payout'[o][w].quorum \in {payout[o][w].quorum} \cup Reassignments

(* Such a step keeps the invariant. *)
LEMMA PayoutsStandStep ==
    ASSUME IInv, PayoutsStand, BoundsTyped,
           UNCHANGED <<st, coin, holder, exe, sig, burned, onchain, goldcoin, partials>>,
           \A t \in completing' :
              t \in completing \/ (t \in TxType /\ t.w \in burned /\ Deep(Status(t)))
    PROVE  IInv'
<1>1. /\ st' = st /\ coin' = coin /\ holder' = holder /\ exe' = exe /\ sig' = sig
      /\ burned' = burned /\ onchain' = onchain /\ funded' = funded /\ net' = net
      /\ partials' = partials
  BY DEF goldcoin
<1>2. Types /\ SentFine
  BY DEF IInv
<1>3. Grows
  BY <1>1 DEF Grows, PayoutsStand
<1>4. completing' \subseteq TxType
  BY <1>2 DEF Types, ChainTypes
<1>5. Types'
  BY <1>1, <1>2, <1>4 DEF Types, RowTypes, ChainTypes, PayoutsStand, BoundsTyped
<1>6. \A p \in Operators : ExecutorFine(p)'
  BY <1>1, <1>3, ExecutorKept
<1>7. \A p \in Operators : SignerFine(p)'
  BY <1>1, <1>3, SignerKept
<1>8. ASSUME NEW o \in Operators, NEW w \in Withdrawals PROVE RowFine(o, w)'
  <2>1. RowFine(o, w)
    BY DEF IInv
  <2>2. payout'[o][w].exists => payout'[o][w].quorum \in QuorumsOf(w)
    BY <2>1 DEF RowFine, QuorumsOf, PayoutsStand
  <2>3. PICK t : t = Tx(o, w) /\ t = Tx(o, w)'
    BY DEF Tx, PayoutsStand
  <2>4. st[o][w] = "Completed" => payout'[o][w].signed # {} /\ Deep(Status(Tx(o, w)))'
    BY <1>1, <2>1, <2>3 DEF RowFine, PayoutsStand, Deep, Status
  <2>5. payout'[o][w].signed # {} =>
            /\ payout'[o][w].exists /\ payout'[o][w].signed \in QuorumsOf(w)
            /\ \A q \in payout'[o][w].signed :
                  [signer |-> q, w |-> w, inputs |-> payout'[o][w].inputs] \in partials
    BY <2>1 DEF RowFine, PayoutsStand
  <2> QED
    BY <1>1, <2>1, <2>2, <2>4, <2>5 DEF RowFine, QuorumsOf
<1>9. PayoutsDisjoint'
  BY <1>3, DisjointKept DEF PayoutsStand
<1>10. SentFine'
  <2>1. ASSUME NEW t \in DOMAIN net
        PROVE  \E o \in Operators : payout'[o][t.w].signed # {} /\ Tx(o, t.w)' = t
    <3>1. PICK o \in Operators : payout[o][t.w].signed # {} /\ Tx(o, t.w) = t
      BY <1>2 DEF SentFine
    <3>2. t.w \in Withdrawals
      BY <1>2 DEF Types, ChainTypes, TxType
    <3>3. Tx(o, t.w)' = Tx(o, t.w) /\ payout'[o][t.w].signed # {}
      BY <3>1, <3>2 DEF Tx, PayoutsStand
    <3> QED
      BY <3>1, <3>3
  <2>2. \A t \in completing' : t.w \in burned /\ Deep(Status(t))
    BY <1>2 DEF SentFine
  <2>3. \A w \in onchain : \E t \in DOMAIN net : t.w = w /\ Deep(net[t])
    BY <1>2 DEF SentFine
  <2> QED
    BY <1>1, <2>1, <2>2, <2>3 DEF SentFine, Deep, Status
<1>11. \A p \in partials : PartialFine(p)'
  BY <1>1, <1>3, PartialKept DEF Held
<1> QED
  BY <1>1, <1>5, <1>6, <1>7, <1>8, <1>9, <1>10, <1>11 DEF IInv

(* One field of one payout that nobody relies on takes another value. *)
LEMMA RecordStands ==
    ASSUME Types, NEW o \in Operators, NEW w \in Withdrawals, Record(o, w)
    PROVE  PayoutsStand
<1>1. payout \in [Operators -> [Withdrawals -> PayoutType]]
  BY DEF Types, RowTypes
<1>2. PICK new : new = [payout[o][w] EXCEPT !.recorded = TRUE]
  OBVIOUS
<1>3. payout[o][w] \in PayoutType
  BY <1>1
<1>4. new \in PayoutType
  BY <1>2, <1>3 DEF PayoutType
<1>5. /\ new.exists = payout[o][w].exists /\ new.inputs = payout[o][w].inputs
      /\ new.signed = payout[o][w].signed /\ new.completed = payout[o][w].completed
      /\ new.quorum = payout[o][w].quorum
  BY <1>2, <1>3 DEF PayoutType
<1>6. payout' = [payout EXCEPT ![o][w] = new]
  BY <1>2 DEF Record
<1>7. payout' \in [Operators -> [Withdrawals -> PayoutType]]
  BY <1>1, <1>4, <1>6
<1>8. \A p \in Operators, v \in Withdrawals :
         payout'[p][v] = IF p = o /\ v = w THEN new ELSE payout[p][v]
  BY <1>1, <1>6
<1> QED
  BY <1>5, <1>7, <1>8 DEF PayoutsStand

(* CompletionSubmitter::process_one keeps the invariant. *)
LEMMA CompletionSteps ==
    ASSUME IInv, NEW o \in Operators, CompletionStep(o)
    PROVE  IInv'
<1>1. PICK w \in Withdrawals : completion_observed(o, w) \/ completion_submitted(o, w)
  BY DEF CompletionStep
<1>2. /\ Record(o, w) /\ st[o][w] = "Completed"
      /\ UNCHANGED CompletionUnchanged
      /\ completing' = completing \/ completing' = completing \cup {Tx(o, w)}
  BY <1>1 DEF completion_observed, completion_submitted, AwaitsCompletion,
              local_completion_facts
<1>3. RowFine(o, w) /\ Types
  BY DEF IInv
<1>4. w \in burned /\ Deep(Status(Tx(o, w)))
  BY <1>2, <1>3 DEF RowFine
<1>5. payout[o][w] \in PayoutType
  BY <1>3 DEF Types, RowTypes
<1>6. Tx(o, w) \in TxType /\ Tx(o, w).w = w
  BY <1>5 DEF Tx, TxType, PayoutType
<1>7. \A t \in completing' :
         t \in completing \/ (t \in TxType /\ t.w \in burned /\ Deep(Status(t)))
  <2>1. PICK x : x = Tx(o, w)
    OBVIOUS
  <2> QED
    BY <1>2, <1>4, <1>6, <2>1
<1>8. BoundsTyped
  BY <1>2, BoundsStay DEF CompletionUnchanged
<1>9. UNCHANGED <<st, coin, holder, exe, sig, burned, onchain, goldcoin, partials>>
  BY <1>2 DEF CompletionUnchanged
<1> QED
  BY <1>2, <1>3, <1>7, <1>8, <1>9, RecordStands, PayoutsStandStep

(* So does a corrupted intent. *)
LEMMA CorruptedStep ==
    ASSUME IInv, NEW o \in Operators, NEW w \in Withdrawals, PayoutCorrupted(o, w)
    PROVE  IInv'
<1>1. payout \in [Operators -> [Withdrawals -> PayoutType]]
  BY DEF IInv, Types, RowTypes
<1>2. PICK new : new = [payout[o][w] EXCEPT !.intent = ~@]
  OBVIOUS
<1>3. payout[o][w] \in PayoutType
  BY <1>1
<1>4. new \in PayoutType
  BY <1>2, <1>3 DEF PayoutType
<1>5. /\ new.exists = payout[o][w].exists /\ new.inputs = payout[o][w].inputs
      /\ new.signed = payout[o][w].signed /\ new.completed = payout[o][w].completed
      /\ new.quorum = payout[o][w].quorum
  BY <1>2, <1>3 DEF PayoutType
<1>6. payout' = [payout EXCEPT ![o][w] = new]
  BY <1>2 DEF PayoutCorrupted
<1>7. payout' \in [Operators -> [Withdrawals -> PayoutType]]
  BY <1>1, <1>4, <1>6
<1>8. \A p \in Operators, v \in Withdrawals :
         payout'[p][v] = IF p = o /\ v = w THEN new ELSE payout[p][v]
  BY <1>1, <1>6
<1>9. PayoutsStand
  BY <1>5, <1>7, <1>8 DEF PayoutsStand
<1>10. UNCHANGED <<st, coin, holder, exe, sig, burned, onchain, goldcoin, partials, completing>>
  BY DEF PayoutCorrupted, solana
<1>11. BoundsTyped
  BY FaultIsBounded DEF PayoutCorrupted
<1> QED
  BY <1>9, <1>10, <1>11, PayoutsStandStep

(* reassign_payout_quorum keeps the invariant: nothing is signed yet. *)
LEMMA ReassignStep ==
    ASSUME IInv, NEW o \in Operators, NEW w \in Withdrawals, NEW Q \in Reassignments,
           reassign_quorum(o, w, Q)
    PROVE  IInv'
<1>1. payout \in [Operators -> [Withdrawals -> PayoutType]]
  BY DEF IInv, Types, RowTypes
<1>2. PICK b \in BOOLEAN : b = (payout[o][w].inputs \notin Exact[w])
  OBVIOUS
<1>0. payout[o][w].attempt + 1 \in Nat
  BY <1>1 DEF PayoutType
<1>3. PICK new : new = [payout[o][w] EXCEPT !.quorum = Q,
                           !.attempt = payout[o][w].attempt + 1, !.intent = b]
  OBVIOUS
<1>4. payout[o][w] \in PayoutType /\ Q \subseteq Operators
  BY <1>1, WithdrawalAssumption DEF Quorums
<1>5. new \in PayoutType
  <2>1. PICK a \in Nat : a = payout[o][w].attempt + 1
    BY <1>0
  <2> QED
    BY <1>3, <1>4, <2>1 DEF PayoutType
<1>6. /\ new.exists = payout[o][w].exists /\ new.inputs = payout[o][w].inputs
      /\ new.signed = payout[o][w].signed /\ new.completed = payout[o][w].completed
      /\ new.quorum = Q
  BY <1>3, <1>4 DEF PayoutType
<1>7. payout' = [payout EXCEPT ![o][w] = new]
  <2>1. payout' = [payout EXCEPT ![o][w] = [payout[o][w] EXCEPT !.quorum = Q,
                      !.attempt = payout[o][w].attempt + 1,
                      !.intent = (payout[o][w].inputs \notin Exact[w])]]
    BY DEF reassign_quorum, reassign_payout_quorum, canonical_payout_intent
  <2> QED
    BY <1>2, <1>3, <2>1
<1>8. payout' \in [Operators -> [Withdrawals -> PayoutType]]
  BY <1>1, <1>5, <1>7
<1>9. \A p \in Operators, v \in Withdrawals :
         payout'[p][v] = IF p = o /\ v = w THEN new ELSE payout[p][v]
  BY <1>1, <1>7
<1>10. PayoutsStand
  BY <1>6, <1>8, <1>9 DEF PayoutsStand
<1>11. UNCHANGED <<st, coin, holder, exe, sig, burned, onchain, goldcoin, partials, completing>>
  BY DEF reassign_quorum, reassign_payout_quorum, AdminUnchanged, solana
<1>12. BoundsTyped
  BY BoundsStay DEF reassign_quorum, reassign_payout_quorum, AdminUnchanged
<1> QED
  BY <1>10, <1>11, <1>12, PayoutsStandStep

-----------------------------------------------------------------------------
(* Steps around the operators.                                             *)

(* The databases' payouts and UTXOs and both processes stand still. *)
LEMMA WorldStep ==
    ASSUME IInv, Grows, UNCHANGED <<payout, coin, holder, exe, sig, partials>>,
           st' \in [Operators -> [Withdrawals -> States]],
           \A p \in Operators, w \in Withdrawals :
              \/ st'[p][w] = st[p][w]
              \/ st[p][w] # "Absent" /\ st'[p][w] \notin {"Absent", "Completed"},
           ChainTypes', SentFine'
    PROVE  IInv'
<1>1. Types
  BY DEF IInv
<1>2. Types'
  BY <1>1 DEF Types, RowTypes
<1>3. \A p \in Operators : ExecutorFine(p)'
  BY ExecutorKept
<1>4. \A p \in Operators : SignerFine(p)'
  BY SignerKept
<1>5. \A p \in Operators, w \in Withdrawals : RowFine(p, w)'
  BY RowKept
<1>6. PayoutsDisjoint'
  BY DisjointKept
<1>7. \A p \in partials : PartialFine(p)'
  BY PartialKept DEF Held
<1> QED
  BY <1>2, <1>3, <1>4, <1>5, <1>6, <1>7 DEF IInv

(* operator_clear_withdrawal_halt keeps the invariant. *)
LEMMA ClearStep ==
    ASSUME IInv, NEW o \in Operators, NEW w \in Withdrawals, NEW to \in {"Validated", "Failed"},
           operator_clear_withdrawal_halt(o, w, to)
    PROVE  IInv'
<1>1. /\ st' = [st EXCEPT ![o][w] = to] /\ st[o][w] # "Absent"
      /\ UNCHANGED <<payout, coin, holder, exe, sig, partials>>
      /\ UNCHANGED <<solana, goldcoin, bounds>>
  BY DEF operator_clear_withdrawal_halt, AdminUnchanged
<1>2. to \in States \ {"Absent", "Completed"} /\ Types
  BY DEF States, IInv
<1>3. /\ st' \in [Operators -> [Withdrawals -> States]]
      /\ \A p \in Operators, v \in Withdrawals :
            \/ st'[p][v] = st[p][v]
            \/ st[p][v] # "Absent" /\ st'[p][v] \notin {"Absent", "Completed"}
  BY <1>1, <1>2, OneRowMoves
<1>4. Grows
  BY <1>1, <1>3 DEF Grows, solana, goldcoin
<1>5. ChainTypes'
  BY <1>1, <1>2, ChainTypesKept DEF Types
<1>6. SentFine'
  BY <1>1, <1>4, SentKept DEF solana, goldcoin
<1> QED
  BY <1>1, <1>3, <1>4, <1>5, <1>6, WorldStep

(* The administrators keep the invariant. *)
LEMMA AdminSteps ==
    ASSUME IInv, AdminStep
    PROVE  IInv'
BY ReassignStep, ClearStep DEF AdminStep

(* The same for a step of the world alone. *)
LEMMA WorldAlone ==
    ASSUME IInv, UNCHANGED SystemUnchanged, burned \subseteq burned',
           \A t \in DOMAIN net : t \in DOMAIN net' /\ (Deep(net[t]) => Deep(net'[t])),
           ChainTypes', SentFine'
    PROVE  IInv'
<1>1. UNCHANGED <<st, payout, coin, holder, exe, sig, partials>>
  BY DEF SystemUnchanged, rows
<1>2. Grows
  BY <1>1 DEF Grows
<1>3. st \in [Operators -> [Withdrawals -> States]]
  BY DEF IInv, Types, RowTypes
<1> QED
  BY <1>1, <1>2, <1>3, WorldStep

(* What a step of the world alone may never undo. *)
LEMMA WorldGrows ==
    ASSUME UNCHANGED SystemUnchanged, burned \subseteq burned',
           \A t \in DOMAIN net : t \in DOMAIN net' /\ (Deep(net[t]) => Deep(net'[t]))
    PROVE  Grows
BY DEF Grows, SystemUnchanged, rows

(* The chains move, and Solana neither sends nor records a completion. *)
LEMMA NothingCompletes ==
    ASSUME IInv, UNCHANGED SystemUnchanged, burned \subseteq burned',
           DOMAIN net' = DOMAIN net, \A t \in DOMAIN net : Deep(net[t]) => Deep(net'[t]),
           completing' \subseteq completing, onchain' = onchain, ChainTypes'
    PROVE  IInv'
<1>1. Grows
  BY WorldGrows
<1>2. SentFine'
  BY <1>1, SentKept
<1> QED
  BY <1>2, WorldAlone

(* Burns, funding, a lost completion and stuttering keep the invariant. *)
LEMMA ChainSteps ==
    ASSUME IInv,
           \/ \E w \in Withdrawals : Burn(w)
           \/ \E u \in Utxos : Fund(u) \/ FundingReorged(u)
           \/ \E t \in completing : CompletionDropped(t)
           \/ UNCHANGED vars
    PROVE  IInv'
<1>1. ChainTypes
  BY DEF IInv, Types
<1>2. BoundsTyped
  BY FaultIsBounded, BoundsStay
     DEF Burn, Fund, FundingReorged, CompletionDropped, vars, bounds
<1>3. /\ UNCHANGED SystemUnchanged /\ net' = net /\ onchain' = onchain
      /\ completing' \subseteq completing /\ burned \subseteq burned'
      /\ burned' \subseteq Withdrawals /\ funded' \subseteq Utxos
  BY <1>1 DEF Burn, Fund, FundingReorged, CompletionDropped, SystemUnchanged, rows, vars,
              goldcoin, solana, ChainTypes
<1>4. partials' = partials
  BY <1>3 DEF SystemUnchanged
<1>5. ChainTypes'
  BY <1>1, <1>2, <1>3, <1>4 DEF ChainTypes, BoundsTyped
<1> QED
  BY <1>3, <1>5, NothingCompletes

(* Blocks, reorgs above the depth and evictions keep the invariant. *)
LEMMA NetSteps ==
    ASSUME IInv, NEW t \in DOMAIN net, BlockMined(t) \/ PayoutReorged(t) \/ Evicted(t)
    PROVE  IInv'
<1>1. ChainTypes
  BY DEF IInv, Types
<1>2. net[t] \in {Unknown} \cup 0..ConfirmationDepth
  BY <1>1 DEF ChainTypes
<1>3. PICK c \in {Unknown} \cup 0..ConfirmationDepth :
          net' = [net EXCEPT ![t] = c] /\ (Deep(net[t]) => Deep(c))
  <2>0. PICK n \in {Unknown} \cup 0..ConfirmationDepth : n = net[t]
    BY <1>2
  <2>4. ConfirmationDepth \in Nat \ {0}
    BY OperatorAssumption
  <2>1. CASE BlockMined(t)
    <3>1. n >= 0 /\ n < ConfirmationDepth /\ net' = [net EXCEPT ![t] = n + 1]
      BY <2>0, <2>1 DEF BlockMined, SetConf
    <3>2. n + 1 \in {Unknown} \cup 0..ConfirmationDepth /\ ~Deep(n)
      BY <2>4, <3>1 DEF Unknown, Deep
    <3> QED
      BY <2>0, <3>1, <3>2, Zenon
  <2>2. CASE PayoutReorged(t)
    <3>1. n \in 1..(ConfirmationDepth - 1)
      BY <2>0, <2>2 DEF PayoutReorged
    <3>2. PICK c \in {Unknown, 0} : net' = [net EXCEPT ![t] = c]
      BY <2>2, Zenon DEF PayoutReorged, SetConf
    <3>3. c \in {Unknown} \cup 0..ConfirmationDepth /\ ~Deep(n)
      BY <2>4, <3>1, <3>2 DEF Unknown, Deep
    <3> QED
      BY <2>0, <3>2, <3>3, Zenon
  <2>3. CASE Evicted(t)
    <3>1. n = 0 /\ net' = [net EXCEPT ![t] = Unknown]
      BY <2>0, <2>3 DEF Evicted, SetConf
    <3>2. Unknown \in {Unknown} \cup 0..ConfirmationDepth /\ ~Deep(n)
      BY <2>4, <3>1 DEF Unknown, Deep
    <3> QED
      BY <2>0, <3>1, <3>2, Zenon
  <2> QED
    BY <2>1, <2>2, <2>3
<1>4. DOMAIN net' = DOMAIN net /\ \A x \in DOMAIN net : Deep(net[x]) => Deep(net'[x])
  BY <1>3
<1>5. net' \in [DOMAIN net -> {Unknown} \cup 0..ConfirmationDepth]
  BY <1>1, <1>3 DEF ChainTypes
<1>6. UNCHANGED SystemUnchanged /\ UNCHANGED solana /\ funded' = funded
  BY DEF BlockMined, PayoutReorged, Evicted
<1>7. BoundsTyped
  <2>1. CASE PayoutReorged(t)
    BY <1>1, <2>1, OperatorAssumption DEF PayoutReorged, BoundsTyped, ChainTypes
  <2> QED
    BY <2>1, FaultIsBounded, BoundsStay DEF BlockMined, Evicted
<1>8. partials' = partials
  BY <1>6 DEF SystemUnchanged
<1>9. ChainTypes'
  BY <1>1, <1>4, <1>5, <1>6, <1>7, <1>8 DEF ChainTypes, BoundsTyped, solana
<1> QED
  BY <1>4, <1>6, <1>9, NothingCompletes DEF solana

(* Solana records a completion that was attested. *)
LEMMA LandsStep ==
    ASSUME IInv, NEW t \in completing, CompletionLands(t)
    PROVE  IInv'
<1>1. ChainTypes /\ SentFine /\ t \in TxType
  BY DEF IInv, Types, ChainTypes
<1>2. /\ completing' = completing \ {t} /\ onchain' = onchain \cup {t.w}
      /\ burned' = burned /\ UNCHANGED goldcoin /\ UNCHANGED SystemUnchanged
      /\ UNCHANGED bounds
  BY DEF CompletionLands
<1>3. t.w \in burned /\ Deep(Status(t))
  BY <1>1 DEF SentFine
<1>4. t \in DOMAIN net /\ Deep(net[t])
  BY <1>3, OperatorAssumption DEF Deep, Status, Unknown
<1>5. partials' = partials /\ net' = net /\ funded' = funded /\ payout' = payout
  BY <1>2 DEF SystemUnchanged, goldcoin, rows
<1>6. ChainTypes'
  BY <1>1, <1>2, <1>3, <1>5 DEF ChainTypes, bounds
<1>7. SentFine'
  <2>1. \A x \in DOMAIN net : \E o \in Operators :
           payout'[o][x.w].signed # {} /\ Tx(o, x.w)' = x
    BY <1>1, <1>5 DEF SentFine, Tx
  <2>2. \A x \in completing' : x.w \in burned' /\ Deep(Status(x))'
    BY <1>1, <1>2, <1>5 DEF SentFine, Deep, Status
  <2>3. \A w \in onchain' : \E x \in DOMAIN net : x.w = w /\ Deep(net[x])
    BY <1>1, <1>2, <1>4 DEF SentFine
  <2> QED
    BY <1>5, <2>1, <2>2, <2>3 DEF SentFine, Deep
<1> QED
  BY <1>2, <1>5, <1>6, <1>7, WorldAlone

-----------------------------------------------------------------------------
(* Failures of the processes.                                              *)

(* A request nobody waits for any more. *)
LEMMA ClosedIsFine ==
    ASSUME IInv, Grows, NEW q \in Operators, sig'[q] = [sig[q] EXCEPT !.open = FALSE]
    PROVE  sig'[q] \in SigType /\ SignerFine(q)'
<1>1. sig[q] \in SigType /\ SignerFine(q)
  BY DEF IInv, Types
<1>2. PICK s : s = sig'[q]
  OBVIOUS
<1>3. /\ s \in SigType /\ s.pc = sig[q].pc /\ s.w = sig[q].w /\ s.open = FALSE
  BY <1>1, <1>2 DEF SigType
<1>4. s.pc # "idle" => s.w \in Withdrawals /\ st'[q][s.w] # "Absent"
  BY <1>1, <1>3 DEF SignerFine, Grows
<1> QED
  BY <1>2, <1>3, <1>4 DEF SignerFine

(* An executor that stops, at any of its awaits, keeps the invariant. *)
LEMMA StoppedStep ==
    ASSUME IInv, NEW o \in Operators, ExecutorFails(o)
    PROVE  IInv'
<1>1. /\ exe' = [exe EXCEPT ![o] = Idle] /\ UNCHANGED <<rows, partials, solana, goldcoin>>
      /\ sig' = [q \in Operators |-> IF sig[q].open /\ sig[q].from = o
                                    THEN [sig[q] EXCEPT !.open = FALSE] ELSE sig[q]]
  BY DEF ExecutorFails
<1>2. BoundsTyped
  BY FaultIsBounded DEF ExecutorFails
<1>3. Types
  BY DEF IInv
<1>4. UNCHANGED <<st, payout, coin, holder, partials, burned, onchain, completing, funded, net>>
  BY <1>1 DEF rows, solana, goldcoin
<1>5. Grows
  BY <1>4 DEF Grows
<1>6. Rested(Idle, st[o]) /\ Idle \in ExeType
  BY IdleIsRested DEF Rested
<1>7. /\ exe' \in [Operators -> ExeType] /\ exe'[o] = Idle
      /\ \A p \in Operators \ {o} : exe'[p] = exe[p]
  BY <1>1, <1>3, <1>6 DEF Types
<1>8. \A p \in Operators : ExecutorFine(p)'
  BY <1>4, <1>5, <1>6, <1>7, ExecutorKept, RestedIsFine
<1>9. ASSUME NEW q \in Operators PROVE sig'[q] \in SigType /\ SignerFine(q)'
  <2>1. CASE sig[q].open /\ sig[q].from = o
    <3>1. sig'[q] = [sig[q] EXCEPT !.open = FALSE]
      BY <1>1, <2>1
    <3> QED
      BY <1>5, <3>1, ClosedIsFine
  <2>2. CASE ~(sig[q].open /\ sig[q].from = o)
    <3>1. sig'[q] = sig[q] /\ sig[q] \in SigType /\ sig[q].from \in Operators
      BY <1>1, <1>3, <2>2 DEF Types, SigType
    <3>2. sig[q].open => exe'[sig[q].from] = exe[sig[q].from]
      BY <1>7, <2>2, <3>1
    <3> QED
      BY <1>5, <3>1, <3>2, SignerKept
  <2> QED
    BY <2>1, <2>2
<1>10. sig' \in [Operators -> SigType]
  BY <1>1, <1>9
<1>11. ChainTypes'
  BY <1>2, <1>3, <1>4 DEF Types, ChainTypes, BoundsTyped
<1>12. Types'
  BY <1>3, <1>4, <1>7, <1>10, <1>11 DEF Types, RowTypes
<1> QED
  BY <1>4, <1>5, <1>8, <1>9, <1>12, RestKept DEF IInv

(* A signer that stops between two transactions keeps the invariant. *)
LEMMA SignerStoppedStep ==
    ASSUME IInv, NEW q \in Operators, SignerFails(q)
    PROVE  IInv'
<1>1. Refuse(q) /\ UNCHANGED <<rows, partials, solana, goldcoin>>
  BY DEF SignerFails
<1>2. BoundsTyped
  BY FaultIsBounded DEF SignerFails
<1>3. Types
  BY DEF IInv
<1>4. UNCHANGED <<st, payout, coin, holder, partials, burned, onchain, completing, funded, net>>
  BY <1>1 DEF rows, solana, goldcoin
<1>5. Grows
  BY <1>4 DEF Grows
<1>6. /\ exe' \in [Operators -> ExeType] /\ sig' \in [Operators -> SigType]
      /\ \A p \in Operators : ExecutorFine(p)'
      /\ \A p \in Operators : SignerFine(p)'
  BY <1>1, <1>5, RefuseEnds
<1>7. ChainTypes'
  BY <1>2, <1>3, <1>4 DEF Types, ChainTypes, BoundsTyped
<1>8. Types'
  BY <1>3, <1>4, <1>6, <1>7 DEF Types, RowTypes
<1> QED
  BY <1>4, <1>5, <1>6, <1>8, RestKept DEF IInv

(* A round that times out keeps the invariant, late answer or not. *)
LEMMA TimeOutStep ==
    ASSUME IInv, NEW o \in Operators, NEW q \in Operators, RequestTimesOut(o, q)
    PROVE  IInv'
<1>1. /\ exe' = [exe EXCEPT ![o].refused = @ \cup {q}]
      /\ sig' = IF sig[q].open /\ sig[q].from = o
                THEN [sig EXCEPT ![q].open = FALSE] ELSE sig
      /\ UNCHANGED <<rows, partials, solana, goldcoin>>
  BY DEF RequestTimesOut
<1>2. BoundsTyped
  BY FaultIsBounded DEF RequestTimesOut
<1>3. Types
  BY DEF IInv
<1>4. UNCHANGED <<st, payout, coin, holder, partials, burned, onchain, completing, funded, net>>
  BY <1>1 DEF rows, solana, goldcoin
<1>5. Grows
  BY <1>4 DEF Grows
<1>6. exe[o].pc = "collect"
  BY AskedIsNext DEF RequestTimesOut
<1>7. exe'[o] = [exe[o] EXCEPT !.refused = @ \cup {q}]
  BY <1>1, <1>3 DEF Types
<1>8. Answered(o, q)
  BY <1>7 DEF Answered
<1>9. /\ exe'[o] \in ExeType /\ exe'[o].pc = "collect" /\ exe'[o].inputs = exe[o].inputs
      /\ exe'[o].quorum = exe[o].quorum /\ Current(o)' = Current(o)
      /\ \A r : r \in exe'[o].got \cup exe'[o].refused =>
                  r = q \/ r \in exe[o].got \cup exe[o].refused
      /\ ExecutorFine(o)'
  BY <1>5, <1>6, <1>8, AnsweredIsFine
<1>10. exe' \in [Operators -> ExeType] /\ \A p \in Operators \ {o} : exe'[p] = exe[p]
  BY <1>1, <1>3, <1>9 DEF Types
<1>11. \A p \in Operators : ExecutorFine(p)'
  BY <1>5, <1>9, <1>10, ExecutorKept
<1>12. ASSUME NEW p \in Operators PROVE sig'[p] \in SigType /\ SignerFine(p)'
  <2>1. sig[p] \in SigType /\ sig[p].from \in Operators
    BY <1>3 DEF Types, SigType
  <2>2. CASE p = q /\ sig[p].open /\ sig[p].from = o
    <3>1. sig'[p] = [sig[p] EXCEPT !.open = FALSE]
      BY <1>1, <1>3, <2>2 DEF Types
    <3> QED
      BY <1>5, <3>1, ClosedIsFine
  <2>3. CASE ~(sig[p].open /\ sig[p].from = o)
    <3>1. sig'[p] = sig[p]
      BY <1>1, <1>3, <2>3 DEF Types
    <3>2. sig[p].open => exe'[sig[p].from] = exe[sig[p].from]
      BY <1>10, <2>1, <2>3
    <3> QED
      BY <1>5, <2>1, <3>1, <3>2, SignerKept
  <2>4. CASE p # q /\ sig[p].open /\ sig[p].from = o
    <3>1. sig'[p] = sig[p] /\ SignerFine(p)
      BY <1>1, <1>3, <2>4 DEF Types, IInv
    <3>2. PICK w : w = Current(o) /\ w = Current(o)'
      BY <1>9
    <3>3. /\ w \in Withdrawals /\ st'[p][w] # "Absent" /\ sig[p].w = w
          /\ sig[p].pc # "idle" /\ exe[o].inputs = sig[p].inputs
          /\ p \in exe[o].quorum /\ p \notin exe[o].got \cup exe[o].refused
      BY <1>5, <2>4, <3>1, <3>2 DEF SignerFine, Grows
    <3>4. p \in exe'[o].quorum /\ p \notin exe'[o].got \cup exe'[o].refused
      BY <1>9, <2>4, <3>3
    <3> QED
      BY <1>9, <2>1, <2>4, <3>1, <3>2, <3>3, <3>4 DEF SignerFine
  <2> QED
    BY <2>2, <2>3, <2>4
<1>13. sig' \in [Operators -> SigType]
  <2>1. sig \in [Operators -> SigType]
    BY <1>3 DEF Types
  <2>2. sig' = [p \in Operators |-> sig'[p]]
    BY <1>1, <2>1
  <2> QED
    BY <1>12, <2>2
<1>14. ChainTypes'
  BY <1>2, <1>3, <1>4 DEF Types, ChainTypes, BoundsTyped
<1>15. Types'
  BY <1>3, <1>4, <1>10, <1>13, <1>14 DEF Types, RowTypes
<1> QED
  BY <1>4, <1>5, <1>11, <1>12, <1>15, RestKept DEF IInv

-----------------------------------------------------------------------------
(* The invariant holds at the start and every step keeps it.               *)

(* The invariant holds before anything happened. *)
LEMMA InitIsFine ==
    ASSUME Init
    PROVE  IInv
<1>1. NoPayout \in PayoutType /\ NoPayout.exists = FALSE /\ NoPayout.signed = {}
  BY OperatorAssumption DEF NoPayout, PayoutType
<1>2. /\ \A o \in Operators, w \in Withdrawals :
            st[o][w] = "Absent" /\ payout[o][w] = NoPayout
      /\ \A o \in Operators : exe[o] = Idle /\ sig[o] = Free
  BY DEF Init
<1>3. RowTypes
  BY <1>1 DEF Init, RowTypes, States
<1>4. DOMAIN net = {} /\ net = [t \in {} |-> 0]
  BY DEF Init
<1>5. net \in [DOMAIN net -> {Unknown} \cup 0..ConfirmationDepth]
  BY <1>4
<1>6. ChainTypes
  BY <1>4, <1>5, WithdrawalAssumption, OperatorAssumption DEF Init, ChainTypes
<1>7. \A s : Rested(Idle, s)
  BY IdleIsRested
<1>8. exe \in [Operators -> ExeType] /\ sig \in [Operators -> SigType]
  <2>1. Idle \in ExeType
    BY <1>7 DEF Rested
  <2> QED
    BY <2>1, FreeIsTyped DEF Init
<1>9. \A o \in Operators : ExecutorFine(o)
  BY <1>2 DEF Idle, ExecutorFine
<1>10. \A q \in Operators : SignerFine(q)
  BY <1>2 DEF Free, SignerFine
<1>11. \A o \in Operators, w \in Withdrawals : RowFine(o, w)
  BY <1>1, <1>2 DEF RowFine
<1>12. PayoutsDisjoint
  BY <1>1, <1>2 DEF PayoutsDisjoint
<1>13. SentFine /\ \A p \in partials : PartialFine(p)
  BY <1>4 DEF Init, SentFine
<1> QED
  BY <1>3, <1>6, <1>8, <1>9, <1>10, <1>11, <1>12, <1>13 DEF IInv, Types

(* Every step of an executor keeps the invariant. *)
LEMMA ExecutorSteps ==
    ASSUME IInv, NEW o \in Operators, ExecutorStep(o)
    PROVE  IInv'
<1>1. CASE \E old \in SUBSET Withdrawals : TickBegins(o, old)
  BY <1>1, TickStep
<1>2. CASE rebroadcast(o) \/ reconcile_broadcast(o) \/ build_starts(o)
  BY <1>2, AskingSteps
<1>3. CASE send_raw_transaction(o)
  BY <1>3, SendStep
<1>4. CASE transaction_confirmations(o)
  BY <1>4, AnswerStep
<1>5. CASE record_confirmations(o)
  BY <1>5, ApplyStep
<1>6. CASE validate(o) \/ build_passive(o) \/ build_ends(o) \/ sign_falls_short(o)
  BY <1>6, RestingSteps
<1>7. CASE build(o)
  BY <1>7, BuildStep
<1>8. CASE build_reserves(o)
  BY <1>8, ReserveStep
<1>9. CASE build_creates(o)
  BY <1>9, CreateStep
<1>10. CASE sign(o)
  BY <1>10, SignStep
<1>11. CASE record_signed_payout(o)
  BY <1>11, RecordStep
<1> QED
  BY <1>1, <1>2, <1>3, <1>4, <1>5, <1>6, <1>7, <1>8, <1>9, <1>10, <1>11 DEF ExecutorStep

(* Every step of a signer keeps the invariant. *)
LEMMA SignerSteps ==
    ASSUME IInv, NEW q \in Operators, SignerStep(q)
    PROVE  IInv'
BY ServingSteps, RefusedAtOnce, TakenUp DEF SignerStep, Served

(* Everything around the operators keeps the invariant. *)
LEMMA EnvironmentSteps ==
    ASSUME IInv, Environment
    PROVE  IInv'
<1>1. CASE \E w \in Withdrawals : Burn(w)
  BY <1>1, ChainSteps
<1>2. CASE \E t \in completing : CompletionLands(t)
  BY <1>2, LandsStep
<1>3. CASE \E t \in completing : CompletionDropped(t)
  BY <1>3, ChainSteps
<1>4. CASE \E u \in Utxos : Fund(u) \/ FundingReorged(u)
  BY <1>4, ChainSteps
<1>5. CASE \E t \in DOMAIN net : BlockMined(t) \/ PayoutReorged(t) \/ Evicted(t)
  BY <1>5, NetSteps
<1>6. CASE \E o \in Operators : ExecutorFails(o)
  BY <1>6, StoppedStep
<1>7. CASE \E q \in Operators : SignerFails(q)
  BY <1>7, SignerStoppedStep
<1>8. CASE \E o \in Operators :
             validate_halts(o) \/ build_halts(o) \/ sign_halts(o) \/ row_skipped(o)
  BY <1>8, RestingSteps
<1>9. CASE \E o, q \in Operators : RequestTimesOut(o, q)
  BY <1>9, TimeOutStep
<1>10. CASE \E o \in Operators, w \in Withdrawals : PayoutCorrupted(o, w)
  BY <1>10, CorruptedStep
<1> QED
  BY <1>1, <1>2, <1>3, <1>4, <1>5, <1>6, <1>7, <1>8, <1>9, <1>10 DEF Environment

(* The inductive invariant: whatever the operators' two processes, the     *)
(* completion loops, the administrators, the two chains and the faults do, *)
(* signatures, reservations, rows and sent transactions agree.             *)
THEOREM PayoutInvariant == Spec => []IInv
<1>1. Init => IInv
  BY InitIsFine
<1>2. IInv /\ [Next]_vars => IInv'
  <2> SUFFICES ASSUME IInv, [Next]_vars PROVE IInv'
    OBVIOUS
  <2>1. CASE \E o \in Operators : ExecutorStep(o)
    BY <2>1, ExecutorSteps
  <2>2. CASE \E o \in Operators : SignerStep(o)
    BY <2>2, SignerSteps
  <2>3. CASE \E o \in Operators : CompletionStep(o)
    BY <2>3, CompletionSteps
  <2>4. CASE AdminStep
    BY <2>4, AdminSteps
  <2>5. CASE Environment
    BY <2>5, EnvironmentSteps
  <2>6. CASE UNCHANGED vars
    BY <2>6, ChainSteps
  <2> QED
    BY <2>1, <2>2, <2>3, <2>4, <2>5, <2>6 DEF Next
<1> QED
  BY <1>1, <1>2, PTL DEF Spec

-----------------------------------------------------------------------------
(* What follows from it.                                                   *)

(* Every variable keeps its type, however many operators, withdrawals,     *)
(* outputs, reorgs and faults there are.                                   *)
THEOREM PipelineTypes == Spec => []TypeOK
<1>1. IInv => TypeOK
  <2> SUFFICES ASSUME IInv PROVE TypeOK
    OBVIOUS
  <2>1. Types /\ \A o \in Operators : ExecutorFine(o)
    BY DEF IInv
  <2>2. \A o \in Operators :
           /\ exe[o].pc \in {"idle", "row", "send", "status", "apply", "reserve", "building",
                             "create", "signing", "collect"}
           /\ exe[o].phase \in 1..8
           /\ exe[o].pc # "idle" <=> exe[o].todo # {}
    BY <2>1 DEF Types, ExeType, ExecutorFine
  <2>3. \A t \in DOMAIN net : net[t] \in {Unknown} \cup 0..ConfirmationDepth
    BY <2>1 DEF Types, ChainTypes
  <2> QED
    BY <2>1, <2>2, <2>3 DEF TypeOK, Types, RowTypes, ChainTypes
<1> QED
  BY <1>1, PayoutInvariant, PTL

(* Who signed a transaction the network was sent, over which inputs. *)
LEMMA SentIsSigned ==
    ASSUME IInv, NEW t \in DOMAIN net
    PROVE  /\ t.w \in Withdrawals /\ t.quorum \in QuorumsOf(t.w)
           /\ \A q \in t.quorum :
                 /\ q \in Operators
                 /\ payout[q][t.w].exists /\ payout[q][t.w].inputs = t.inputs
<1>1. Types /\ SentFine
  BY DEF IInv
<1>2. t \in TxType
  BY <1>1 DEF Types, ChainTypes
<1>3. t.w \in Withdrawals /\ t.quorum \subseteq Operators
  BY <1>2 DEF TxType
<1>4. PICK o \in Operators : payout[o][t.w].signed # {} /\ Tx(o, t.w) = t
  BY <1>1 DEF SentFine
<1>5. t.inputs = payout[o][t.w].inputs /\ t.quorum = payout[o][t.w].signed
  BY <1>4 DEF Tx
<1>6. RowFine(o, t.w)
  BY <1>3 DEF IInv
<1>7. /\ t.quorum \in QuorumsOf(t.w)
      /\ \A q \in t.quorum : [signer |-> q, w |-> t.w, inputs |-> t.inputs] \in partials
  BY <1>4, <1>5, <1>6 DEF RowFine
<1>8. ASSUME NEW q \in t.quorum
      PROVE  payout[q][t.w].exists /\ payout[q][t.w].inputs = t.inputs
  <2>1. PICK p \in partials : p = [signer |-> q, w |-> t.w, inputs |-> t.inputs]
    BY <1>7
  <2>2. PartialFine(p)
    BY <2>1 DEF IInv
  <2> QED
    BY <2>1, <2>2 DEF PartialFine
<1> QED
  BY <1>3, <1>7, <1>8

(* withdrawal_db.rs, the never-double-pay guarantee: two transactions that *)
(* were ever sent for one withdrawal have a signer in common, whose single *)
(* payout row fixes the inputs of both.                                    *)
THEOREM NeverDoublePaid == Spec => []NoDoublePay
<1>1. IInv => NoDoublePay
  <2> SUFFICES ASSUME IInv, NEW t \in DOMAIN net, NEW u \in DOMAIN net, t.w = u.w
               PROVE  t.inputs = u.inputs
    BY DEF NoDoublePay
  <2>1. /\ t.w \in Withdrawals /\ t.quorum \in QuorumsOf(t.w)
        /\ \A q \in t.quorum : payout[q][t.w].inputs = t.inputs
    BY SentIsSigned
  <2>2. /\ u.quorum \in QuorumsOf(t.w)
        /\ \A q \in u.quorum : payout[q][t.w].inputs = u.inputs
    BY SentIsSigned
  <2>3. t.quorum \cap u.quorum # {}
    BY <2>1, <2>2, QuorumAssumption
  <2> QED
    BY <2>1, <2>2, <2>3
<1> QED
  BY <1>1, PayoutInvariant, PTL

(* ADR-0013: whatever the network was sent is durable with some operator,  *)
(* which can find it again after a crash between recording and sending.    *)
THEOREM SentStaysDurable == Spec => []SentIsDurable
<1>1. IInv => SentIsDurable
  BY DEF IInv, SentFine, SentIsDurable
<1> QED
  BY <1>1, PayoutInvariant, PTL

(* payout_view.rs and reclaim_abandoned: an input somebody has signed over *)
(* stays reserved in the signer's own database until its payout is         *)
(* complete.                                                               *)
THEOREM SignedStaysHeld == Spec => []SignedInputsStayHeld
<1>1. IInv => SignedInputsStayHeld
  BY DEF IInv, PartialFine, SignedInputsStayHeld
<1> QED
  BY <1>1, PayoutInvariant, PTL

(* completion.rs: Completed, in a database and on Solana, means a payout   *)
(* buried under ConfirmationDepth blocks, for every depth.                 *)
THEOREM CompletedWasPaid == Spec => []CompletedIsPaid
<1>1. IInv => CompletedIsPaid
  BY DEF IInv, RowFine, SentFine, Deep, CompletedIsPaid
<1> QED
  BY <1>1, PayoutInvariant, PTL

(* When the quorums of different withdrawals meet as well. *)
QuorumsMeet ==
    \A v, w \in Withdrawals : \A P \in QuorumsOf(v), Q \in QuorumsOf(w) : P \cap Q # {}

(* Then the payouts of two withdrawals never compete for an input: their   *)
(* common signer has a row for each, and one database's payouts share no   *)
(* input (the UNIQUE outpoints of create_payout).                          *)
THEOREM PayoutsNeverConflict ==
    ASSUME QuorumsMeet
    PROVE  Spec => []NoConflict
<1>1. IInv => NoConflict
  <2> SUFFICES ASSUME IInv, NEW t \in DOMAIN net, NEW u \in DOMAIN net,
                      t.w # u.w
               PROVE  t.inputs \cap u.inputs = {}
    BY DEF NoConflict
  <2>1. /\ t.w \in Withdrawals /\ t.quorum \in QuorumsOf(t.w)
        /\ \A q \in t.quorum :
              q \in Operators /\ payout[q][t.w].exists /\ payout[q][t.w].inputs = t.inputs
    BY SentIsSigned
  <2>2. /\ u.w \in Withdrawals /\ u.quorum \in QuorumsOf(u.w)
        /\ \A q \in u.quorum :
              q \in Operators /\ payout[q][u.w].exists /\ payout[q][u.w].inputs = u.inputs
    BY SentIsSigned
  <2>3. PICK q : q \in t.quorum /\ q \in u.quorum
    BY <2>1, <2>2 DEF QuorumsMeet
  <2>4. payout[q][t.w].inputs \cap payout[q][u.w].inputs = {}
    BY <2>1, <2>2, <2>3 DEF IInv, PayoutsDisjoint
  <2> QED
    BY <2>1, <2>2, <2>3, <2>4
<1> QED
  BY <1>1, PayoutInvariant, PTL

-----------------------------------------------------------------------------
(* When quorums meet.                                                      *)

(* Neighbours on the ring of operators: no two steps lead to the same one. *)
LEMMA RingIsInjective ==
    ASSUME NEW a \in Operators, NEW j \in Operators, NEW k \in Operators,
           (a + j) % N = (a + k) % N
    PROVE  j = k
<1>1. N \in Nat /\ N > 0 /\ a \in Nat /\ j \in Nat /\ k \in Nat /\ j < N /\ k < N
  BY OperatorAssumption DEF Operators
<1>2. PICK c, r : c = (a + j) \div N /\ r = (a + j) % N
  OBVIOUS
<1>3. PICK d, s : d = (a + k) \div N /\ s = (a + k) % N
  OBVIOUS
<1>4. c \in Int /\ a + j = N * c + r /\ r \in 0..(N - 1)
  BY <1>1, <1>2
<1>5. d \in Int /\ a + k = N * d + s /\ s \in 0..(N - 1)
  BY <1>1, <1>3
<1>6. j - k = N * (c - d)
  BY <1>1, <1>2, <1>3, <1>4, <1>5
<1>7. c - d = 0
  BY <1>1, <1>4, <1>5, <1>6
<1> QED
  BY <1>1, <1>6, <1>7

(* designate_quorum chooses Threshold different operators. *)
LEMMA DesignatedAreEnough ==
    ASSUME NEW w \in Withdrawals
    PROVE  IsFiniteSet(designate_quorum(w)) /\ Cardinality(designate_quorum(w)) = Threshold
<1> DEFINE I == 0..(Threshold - 1)
           f == [k \in I |-> ((w % N) + k) % N]
<1>1. /\ Threshold \in Nat /\ Threshold >= 1 /\ N \in Nat /\ Threshold <= N /\ w \in Nat
      /\ I \subseteq Operators
  BY OperatorAssumption, WithdrawalAssumption DEF Operators
<1>2. w % N \in Operators
  BY <1>1 DEF Operators
<1>3. \A j, k \in I : f[j] = f[k] => j = k
  <2> SUFFICES ASSUME NEW j \in I, NEW k \in I, f[j] = f[k] PROVE j = k
    OBVIOUS
  <2>1. j \in Operators /\ k \in Operators
    BY <1>1
  <2>2. ((w % N) + j) % N = ((w % N) + k) % N
    OBVIOUS
  <2> QED
    BY <1>2, <2>1, <2>2, RingIsInjective
<1>4. designate_quorum(w) = {f[k] : k \in I}
  BY DEF designate_quorum
<1>5. f \in Bijection(I, designate_quorum(w))
  <2>1. f \in [I -> designate_quorum(w)] /\ \A t \in designate_quorum(w) : \E k \in I : f[k] = t
    BY <1>4
  <2> HIDE DEF f, I
  <2> QED
    BY <1>3, <2>1, Zenon DEF Bijection, Injection, Surjection, IsInjective
<1>6. ExistsBijection(I, designate_quorum(w))
  <2> HIDE DEF f, I
  <2> QED
    BY <1>5, Zenon DEF ExistsBijection
<1>7. IsFiniteSet(I) /\ Cardinality(I) = Threshold
  <2>1. 0 \in Int /\ Threshold - 1 \in Int
    BY <1>1
  <2>2. /\ IsFiniteSet(0..(Threshold - 1))
        /\ Cardinality(0..(Threshold - 1)) =
              IF 0 > Threshold - 1 THEN 0 ELSE (Threshold - 1) - 0 + 1
    BY <2>1, FS_Interval, Zenon
  <2> QED
    BY <1>1, <2>2
<1> QED
  <2> HIDE DEF I
  <2> QED
    BY <1>6, <1>7, FS_Bijection

(* assignment.rs: with M > N/2 two quorums always share a signer, whatever *)
(* withdrawals they are for and however payouts are re-designated, so      *)
(* QuorumAssumption and the premise of PayoutsNeverConflict both hold.     *)
THEOREM MajoritiesMeet ==
    ASSUME 2 * Threshold > N
    PROVE  QuorumsMeet
<1> SUFFICES ASSUME NEW v \in Withdrawals, NEW w \in Withdrawals,
                    NEW P \in QuorumsOf(v), NEW Q \in QuorumsOf(w)
             PROVE  P \cap Q # {}
  BY DEF QuorumsMeet
<1>1. N \in Nat /\ N > 0 /\ Threshold \in Nat
  BY OperatorAssumption
<1>2. IsFiniteSet(Operators) /\ Cardinality(Operators) = N
  <2>1. 0 \in Int /\ N - 1 \in Int
    BY <1>1
  <2>2. /\ IsFiniteSet(0..(N - 1))
        /\ Cardinality(0..(N - 1)) = IF 0 > N - 1 THEN 0 ELSE (N - 1) - 0 + 1
    BY <2>1, FS_Interval, Zenon
  <2> QED
    BY <1>1, <2>2 DEF Operators
<1>3. ASSUME NEW u \in Withdrawals, NEW R \in QuorumsOf(u)
      PROVE  R \in SUBSET Operators /\ IsFiniteSet(R) /\ Cardinality(R) = Threshold
  <2>1. CASE R = designate_quorum(u)
    BY <2>1, DesignatedAreOperators, DesignatedAreEnough
  <2>2. CASE R \in Reassignments
    <3>1. R \in SUBSET Operators /\ Cardinality(R) = Threshold
      BY <2>2, WithdrawalAssumption DEF Quorums
    <3> QED
      BY <1>2, <3>1, FS_Subset
  <2> QED
    BY <2>1, <2>2 DEF QuorumsOf
<1>4. /\ P \in SUBSET Operators /\ IsFiniteSet(P) /\ Cardinality(P) = Threshold
      /\ Q \in SUBSET Operators /\ IsFiniteSet(Q) /\ Cardinality(Q) = Threshold
  BY <1>3
<1>5. Cardinality(P \cup Q) = Cardinality(P) + Cardinality(Q) - Cardinality(P \cap Q)
  BY <1>4, FS_Union
<1>6. Cardinality(P \cup Q) <= N
  <2>1. P \cup Q \in SUBSET Operators
    BY <1>4
  <2> QED
    BY <1>2, <2>1, FS_Subset
<1>7. Cardinality({}) = 0
  BY FS_EmptySet
<1> QED
  BY <1>1, <1>4, <1>5, <1>6, <1>7
=============================================================================
