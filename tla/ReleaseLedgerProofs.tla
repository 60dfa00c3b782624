-------------------------- MODULE ReleaseLedgerProofs --------------------------
(***************************************************************************)
(* Proofs about ReleaseLedger, for every set of runs, channels and base    *)
(* versions, whether runs overlap or not: the ledger, what becomes public, *)
(* and that it implements ReleaseNumbers when runs are serialized.         *)
(***************************************************************************)
EXTENDS ReleaseLedger, TLAPS

(***************************************************************************)
(* A ledger that no run has damaged: numbers lie under the counter, every  *)
(* plan carries the base version, the channel and, for a nightly, the id   *)
(* of its run, and no two runs share a tag or a number.                    *)
(***************************************************************************)
OwnLine(r, p) == /\ p.tag.base = Base[r]
                 /\ p.tag.channel = Channel[r]
                 /\ Channel[r] = "nightly" => p.tag.sequence = r

WellFormed(state) ==
    /\ state \in Ledger
    /\ state.floor <= state.counter
    /\ \A r \in Runs : state.plans[r] # NoPlan =>
          /\ state.plans[r].number > 0 /\ state.plans[r].number <= state.counter
          /\ OwnLine(r, state.plans[r])
    /\ \A r, s \in Runs :
          r # s /\ state.plans[r] # NoPlan /\ state.plans[s] # NoPlan =>
             /\ state.plans[r].tag # state.plans[s].tag
             /\ state.plans[r].number # state.plans[s].number

(***************************************************************************)
(* What a run knows of the ledger it has read.  It does not mention the    *)
(* ledger itself: a write succeeds only if the two are equal.              *)
(***************************************************************************)
New(r) == /\ plan[r] \in Plan
          /\ plan[r].number > snap[r].counter
          /\ OwnLine(r, plan[r])
          /\ \A s \in Runs : snap[r].plans[s] # NoPlan => snap[r].plans[s].tag # plan[r].tag

Holding == {"consume", "confirm", "advance", "tag"} \cup Transacting

RunInv(r) ==
    /\ WellFormed(snap[r])
    /\ pc[r] \in Preparing => Channel[r] # "promote"
    /\ pc[r] \in {"allocate", "reserve"} => snap[r].plans[r] = NoPlan
    /\ pc[r] = "reserve" => New(r)
    /\ pc[r] = "verify" /\ Channel[r] # "promote" => plan[r] \in Plan
    /\ pc[r] \in Holding => plan[r] \in Plan
    /\ pc[r] = "advance" => /\ snap[r].floor <= plan[r].number
                            /\ plan[r].number <= snap[r].counter

Maps == /\ plan \in [Runs -> Plan \cup {NoPlan}]
        /\ pc \in [Runs -> Active \cup {"queued", "failed", "done"}]
        /\ snap \in [Runs -> Ledger]
        /\ held \in [Runs -> Runs \cup {Nobody}]
        /\ attempt \in [Runs -> 0..MaxAttempts]

Sets == /\ refs \subseteq Tag
        /\ releases \subseteq Release
        /\ shipped \subseteq Release
        /\ byHand \in 0..MaxByHand

LedgerInv == WellFormed(ledger) /\ (\A r \in Runs : RunInv(r)) /\ Maps /\ Sets
-------------------------------------------------------------------------------
\* The larger of two numbers.
LEMMA MaxOfTwo ==
    ASSUME NEW a \in Nat, NEW b \in Nat
    PROVE  Max({a, b}) \in {a, b} /\ Max({a, b}) >= a /\ Max({a, b}) >= b
<1>1. \E x \in {a, b} : \A y \in {a, b} : x >= y
  <2>1. CASE a >= b
    BY <2>1
  <2>2. CASE b >= a
    BY <2>2
  <2> QED BY <2>1, <2>2
<1> QED BY <1>1 DEF Max

LEMMA EmptyLedgerWellFormed == WellFormed(EmptyLedger)
BY DEF WellFormed, EmptyLedger, Ledger

\* Consuming a number keeps the ledger well formed.
LEMMA ConsumedWellFormed ==
    ASSUME NEW state, WellFormed(state), NEW n \in Nat, n <= state.counter
    PROVE  WellFormed([state EXCEPT !.floor = n])
BY DEF WellFormed, Ledger

\* Adding a new plan of a run keeps the ledger well formed.
LEMMA ReservedWellFormed ==
    ASSUME NEW state, WellFormed(state), NEW r \in Runs, NEW p \in Plan,
           state.plans[r] = NoPlan, p.number > state.counter, OwnLine(r, p),
           \A s \in Runs : state.plans[s] # NoPlan => state.plans[s].tag # p.tag
    PROVE  WellFormed([state EXCEPT !.counter = p.number, !.plans[r] = p])
<1> DEFINE after == [state EXCEPT !.counter = p.number, !.plans[r] = p]
<1>1. /\ state \in Ledger
      /\ p.number \in Nat /\ p.number > 0
  BY DEF WellFormed, Plan, Ledger
<1>2. /\ after.counter = p.number
      /\ after.floor = state.floor
      /\ after.plans = [state.plans EXCEPT ![r] = p]
  BY <1>1 DEF Ledger
<1>3. after \in Ledger
  BY <1>1 DEF Ledger
<1>4. \A s \in Runs : after.plans[s] = IF s = r THEN p ELSE state.plans[s]
  BY <1>1, <1>2 DEF Ledger
<1>5. after.floor <= after.counter
  BY <1>1, <1>2 DEF WellFormed, Ledger
<1>6. ASSUME NEW s \in Runs, after.plans[s] # NoPlan
      PROVE  /\ after.plans[s].number > 0 /\ after.plans[s].number <= after.counter
             /\ OwnLine(s, after.plans[s])
  <2>1. CASE s = r
    BY <1>1, <1>2, <1>4, <2>1
  <2>2. CASE s # r
    <3>1. after.plans[s] = state.plans[s] /\ state.plans[s] \in Plan
      BY <1>1, <1>4, <1>6, <2>2 DEF Ledger
    <3>2. /\ state.plans[s].number > 0 /\ state.plans[s].number <= state.counter
          /\ OwnLine(s, state.plans[s])
      BY <1>6, <3>1 DEF WellFormed
    <3> QED BY <1>1, <1>2, <3>1, <3>2 DEF Ledger, Plan
  <2> QED BY <2>1, <2>2
<1>7. ASSUME NEW s \in Runs, NEW t \in Runs, s # t,
             after.plans[s] # NoPlan, after.plans[t] # NoPlan
      PROVE  /\ after.plans[s].tag # after.plans[t].tag
             /\ after.plans[s].number # after.plans[t].number
  <2>1. ASSUME NEW u \in Runs, u # r, after.plans[u] # NoPlan
        PROVE  /\ after.plans[u].tag # p.tag
               /\ after.plans[u].number # p.number
    <3>1. after.plans[u] = state.plans[u] /\ state.plans[u] \in Plan
      BY <1>1, <1>4, <2>1 DEF Ledger
    <3>2. state.plans[u].number <= state.counter
      BY <2>1, <3>1 DEF WellFormed
    <3> QED BY <1>1, <2>1, <3>1, <3>2 DEF Ledger, Plan
  <2>2. CASE s # r /\ t # r
    BY <1>4, <1>7, <2>2 DEF WellFormed
  <2> QED BY <1>4, <1>7, <2>1, <2>2
<1> QED BY <1>3, <1>5, <1>6, <1>7 DEF WellFormed
-------------------------------------------------------------------------------
(***************************************************************************)
(* What one step of a run leaves alone.                                    *)
(***************************************************************************)
SameRun(r) == /\ pc'[r] = pc[r]
              /\ plan'[r] = plan[r]
              /\ snap'[r] = snap[r]
              /\ held'[r] = held[r]

\* A step of one run leaves what the other runs hold alone.
LEMMA OthersUnchanged ==
    ASSUME Maps, NEW r \in Runs, Run(r)
    PROVE  \A s \in Runs \ {r} : SameRun(s)
<1> USE DEF Maps, SameRun, Step, Stop, ReadState
<1>1. CASE Start(r)
  BY <1>1 DEF Start
<1>2. CASE Prepare(r)
  BY <1>2 DEF Prepare, ClosedPushCycle, ReadReservation, Allocate, Reserve
<1>3. CASE BeginPublication(r)
  BY <1>3 DEF BeginPublication, VerifyCandidate, SelectCandidate, Superseded, ReadFloor,
              Confirm, Advance
<1>4. CASE PublishPrepared(r)
  BY <1>4 DEF PublishPrepared, CreateTag, CreateRelease, CreateAmbiguous, Reconcile,
              Upload, Check, Publish
<1>5. CASE Fail(r)
  BY <1>5 DEF Fail
<1> QED BY <1>1, <1>2, <1>3, <1>4, <1>5 DEF Run

\* The sequence that follows is a number, and no tag of the line has it.
LEMMA FollowingIsNew ==
    ASSUME NEW r \in Runs, NEW tags, tags \subseteq Tag, NEW n \in Following(r, tags)
    PROVE  n \in Nat /\ [base |-> Base[r], channel |-> Channel[r], sequence |-> n] \notin tags
<1> DEFINE line == {t.sequence : t \in {u \in tags : u.base = Base[r] /\ u.channel = Channel[r]}}
<1> DEFINE tag == [base |-> Base[r], channel |-> Channel[r], sequence |-> n]
<1>1. line \subseteq Nat
  BY DEF Tag
<1>2. n \in {1} \cup {m + 1 : m \in line} /\ \A m \in line : m < n
  BY DEF Following
<1>3. n \in Nat
  BY <1>1, <1>2
<1>4. tag \in tags => n \in line
  <2> SUFFICES ASSUME tag \in tags
               PROVE  n \in line
    OBVIOUS
  <2>1. tag.base = Base[r] /\ tag.channel = Channel[r] /\ tag.sequence = n
    OBVIOUS
  <2> QED BY <2>1
<1> QED BY <1>1, <1>2, <1>3, <1>4

\* What Allocate plans is new to the ledger the run has read.
LEMMA AllocatedIsNew ==
    ASSUME LedgerInv, NEW r \in Runs, Allocate(r)
    PROVE  New(r)'
<1> DEFINE state == snap[r]
<1>1. /\ WellFormed(state)
      /\ state \in Ledger
      /\ state.plans[r] = NoPlan
      /\ snap' = snap
  BY DEF LedgerInv, RunInv, WellFormed, Allocate, Step
<1>2. PICK n \in Sequence(r, state) :
         plan' = [plan EXCEPT ![r] =
                    [tag |-> [base |-> Base[r], channel |-> Channel[r], sequence |-> n],
                     number |-> Number(state)]]
  BY DEF Allocate
<1> DEFINE tag == [base |-> Base[r], channel |-> Channel[r], sequence |-> n]
<1>3. plan'[r] = [tag |-> tag, number |-> Number(state)]
  BY <1>2 DEF LedgerInv, Maps
<1>4. Number(state) \in Nat /\ Number(state) > state.counter
  <2>1. state.counter \in Nat /\ PolicyFloor \in Nat
    BY <1>1, RunAssumption DEF Ledger
  <2> HIDE DEF state
  <2> QED BY <2>1, MaxOfTwo DEF Number
<1> DEFINE known == Occupied \cup {p.tag : p \in Reserved(state)}
<1>5. known \subseteq Tag
  <2>1. Occupied \subseteq Tag
    BY DEF LedgerInv, Sets, Occupied, Release
  <2>2. Reserved(state) \subseteq Plan
    BY <1>1 DEF Reserved, Ledger
  <2> QED BY <2>1, <2>2 DEF Plan
<1>6. n \in Nat
  BY <1>5, FollowingIsNew, RunAssumption DEF Sequence
<1>7. \A s \in Runs : state.plans[s] # NoPlan => state.plans[s].tag # tag
  <2> SUFFICES ASSUME NEW s \in Runs, state.plans[s] # NoPlan
               PROVE  state.plans[s].tag # tag
    OBVIOUS
  <2>1. CASE Channel[r] = "nightly"
    <3>1. n = r /\ s # r
      BY <1>1, <2>1 DEF Sequence
    <3>2. OwnLine(s, state.plans[s])
      BY <1>1 DEF WellFormed
    <3> QED BY <2>1, <3>1, <3>2 DEF OwnLine
  <2>2. CASE Channel[r] # "nightly"
    <3>1. tag \notin known
      BY <1>5, <2>2, FollowingIsNew DEF Sequence
    <3>2. state.plans[s].tag \in known
      BY DEF Reserved
    <3> QED BY <3>1, <3>2
  <2> QED BY <2>1, <2>2
<1>8. Channel[r] # "promote"
  BY DEF LedgerInv, RunInv, Allocate, Step, Preparing
<1>9. tag \in Tag
  BY <1>6, <1>8, RunAssumption DEF Tag, Channels
<1>10. plan'[r] \in Plan
  BY <1>3, <1>4, <1>9 DEF Plan
<1>11. OwnLine(r, plan'[r])
  BY <1>3 DEF OwnLine, Sequence
<1> HIDE DEF tag, state
<1>12. plan'[r].tag = tag /\ plan'[r].number = Number(state) /\ snap'[r] = state
  BY <1>1, <1>3 DEF state
<1> QED BY <1>4, <1>7, <1>10, <1>11, <1>12 DEF New

\* What a run that holds a plan drafts has its types.
LEMMA DraftTyped ==
    ASSUME NEW r \in Runs, plan[r] \in Plan
    PROVE  Target(r) \in Tag /\ Draft(r) \in Release
<1>1. Target(r) \in Tag
  BY RunAssumption DEF Target, Stable, Tag, Plan
<1> QED BY <1>1 DEF Draft, Release, Plan
-------------------------------------------------------------------------------
\* Only Reserve and Advance write the ledger, and both leave it well formed.
LEMMA LedgerStep ==
    ASSUME LedgerInv, NEW r \in Runs, Run(r)
    PROVE  /\ WellFormed(ledger)'
           /\ ledger'.counter >= ledger.counter
           /\ ledger'.floor >= ledger.floor
           /\ \A s \in Runs : ledger.plans[s] # NoPlan => ledger'.plans[s] = ledger.plans[s]
<1>1. WellFormed(ledger) /\ ledger \in Ledger
  BY DEF LedgerInv, WellFormed
<1>2. ledger.counter \in Nat /\ ledger.floor \in Nat
  BY <1>1 DEF Ledger
<1>3. CASE ledger' = ledger
  BY <1>1, <1>2, <1>3 DEF WellFormed
<1>4. CASE Reserve(r)
  <2>1. /\ ledger = snap[r]
        /\ ledger' = [ledger EXCEPT !.counter = plan[r].number, !.plans[r] = plan[r]]
        /\ pc[r] = "reserve"
    BY <1>4 DEF Reserve, WriteState, Step
  <2>2. New(r) /\ ledger.plans[r] = NoPlan
    BY <2>1 DEF LedgerInv, RunInv
  <2>3. WellFormed(ledger')
    BY <1>1, <2>1, <2>2, ReservedWellFormed DEF New
  <2>4. /\ ledger'.counter = plan[r].number
        /\ ledger'.floor = ledger.floor
        /\ ledger'.plans = [ledger.plans EXCEPT ![r] = plan[r]]
    BY <1>1, <2>1 DEF Ledger
  <2>5. ledger'.counter >= ledger.counter
    BY <1>2, <2>1, <2>2, <2>4 DEF New, Plan
  <2>6. \A s \in Runs : ledger.plans[s] # NoPlan => ledger'.plans[s] = ledger.plans[s]
    BY <1>1, <2>2, <2>4 DEF Ledger
  <2> QED BY <1>2, <2>3, <2>4, <2>5, <2>6 DEF WellFormed
<1>5. CASE Advance(r)
  <2>1. /\ ledger = snap[r]
        /\ ledger' = [ledger EXCEPT !.floor = plan[r].number]
        /\ pc[r] = "advance"
    BY <1>5 DEF Advance, WriteState, Step
  <2>2. plan[r] \in Plan /\ ledger.floor <= plan[r].number /\ plan[r].number <= ledger.counter
    BY <2>1 DEF LedgerInv, RunInv, Holding
  <2>3. WellFormed(ledger')
    BY <1>1, <2>1, <2>2, ConsumedWellFormed DEF Plan
  <2>4. /\ ledger'.counter = ledger.counter
        /\ ledger'.floor = plan[r].number
        /\ ledger'.plans = ledger.plans
    BY <1>1, <2>1 DEF Ledger
  <2> QED BY <1>2, <2>2, <2>3, <2>4 DEF WellFormed, Plan
<1>6. ledger' = ledger \/ Reserve(r) \/ Advance(r)
  <2>1. CASE Start(r)
    BY <2>1 DEF Start, github
  <2>2. CASE Prepare(r)
    BY <2>2 DEF Prepare, ClosedPushCycle, ReadReservation, Allocate, github
  <2>3. CASE BeginPublication(r)
    BY <2>3 DEF BeginPublication, VerifyCandidate, SelectCandidate, Superseded, ReadFloor,
                Confirm, github
  <2>4. CASE PublishPrepared(r)
    BY <2>4 DEF PublishPrepared, CreateTag, CreateRelease, CreateAmbiguous, Reconcile,
                Upload, Check, Publish, github
  <2>5. CASE Fail(r)
    BY <2>5 DEF Fail, github
  <2> QED BY <2>1, <2>2, <2>3, <2>4, <2>5 DEF Run
<1> QED BY <1>3, <1>4, <1>5, <1>6

\* A run that stops knows nothing, which is right.
LEMMA Stopped ==
    ASSUME LedgerInv, NEW r \in Runs, NEW outcome \in {"failed", "done"}, Stop(r, outcome)
    PROVE  RunInv(r)'
<1>1. snap'[r] = EmptyLedger /\ pc'[r] = outcome
  BY DEF LedgerInv, Maps, Stop
<1>2. WellFormed(snap'[r])
  BY <1>1, EmptyLedgerWellFormed
<1> QED BY <1>1, <1>2 DEF RunInv, Preparing, Holding, Transacting

\* A plan that was verified against what the run has read lies between the floor
\* and the counter.
LEMMA VerifiedBounds ==
    ASSUME NEW r \in Runs, NEW state, WellFormed(state), plan[r] \in Plan,
           Verified(r, state)
    PROVE  state.floor <= plan[r].number /\ plan[r].number <= state.counter
<1>1. state \in Ledger /\ plan[r] # NoPlan
  BY NoPlanAssumption DEF WellFormed
<1>2. plan[r].number \in Nat /\ state.floor \in Nat
  BY <1>1 DEF Plan, Ledger
<1>3. \E s \in Runs : state.plans[s] = plan[r]
  BY DEF Verified, VerifyReservation, VerifyPromotionOrder, Published, Reserved
<1>4. plan[r].number <= state.counter
  BY <1>1, <1>3 DEF WellFormed
<1>5. state.floor <= plan[r].number
  BY <1>2 DEF Verified, VerifyReservation, VerifyPromotionOrder
<1> QED BY <1>4, <1>5

\* A step of a run keeps what the run knows right.
LEMMA RunStep ==
    ASSUME LedgerInv, NEW r \in Runs, Run(r)
    PROVE  RunInv(r)'
<1> DEFINE to == pc'[r]
<1>1. /\ RunInv(r) /\ Maps
      /\ WellFormed(ledger) /\ ledger \in Ledger
      /\ WellFormed(snap[r]) /\ snap[r] \in Ledger
  BY DEF LedgerInv, RunInv, WellFormed
<1>2. CASE Start(r)
  <2>1. snap' = snap /\ to = (IF Channel[r] = "promote" THEN "verify" ELSE "prepare")
    BY <1>1, <1>2 DEF Start, Step, Maps
  <2> QED BY <1>1, <2>1 DEF RunInv, Preparing, Holding, Transacting
<1>3. CASE Prepare(r)
  <2>1. CASE ClosedPushCycle(r)
    BY <2>1, Stopped DEF ClosedPushCycle
  <2>2. CASE ReadReservation(r)
    <3>1. /\ snap'[r] = ledger
          /\ Channel[r] # "promote"
          /\ \/ to = "verify" /\ plan'[r] \in Plan
             \/ to = "allocate" /\ ledger.plans[r] = NoPlan
      BY <1>1, <2>2 DEF ReadReservation, ReadState, Step, Maps, RunInv, Preparing, Ledger
    <3> QED BY <1>1, <3>1 DEF RunInv, Preparing, Holding, Transacting
  <2>3. CASE Allocate(r)
    <3>1. /\ snap' = snap /\ to = "reserve"
          /\ Channel[r] # "promote" /\ snap[r].plans[r] = NoPlan
      BY <1>1, <2>3 DEF Allocate, Step, Maps, RunInv, Preparing
    <3>2. New(r)'
      BY <2>3, AllocatedIsNew
    <3> QED BY <1>1, <3>1, <3>2 DEF RunInv, Holding, Transacting
  <2>4. CASE Reserve(r)
    <3>1. snap' = snap /\ to = "verify" /\ plan' = plan /\ plan[r] \in Plan
      BY <1>1, <2>4 DEF Reserve, Step, Maps, RunInv, New
    <3> QED BY <1>1, <3>1 DEF RunInv, Preparing, Holding, Transacting
  <2> QED BY <1>3, <2>1, <2>2, <2>3, <2>4 DEF Prepare
<1>4. CASE BeginPublication(r)
  <2>1. CASE VerifyCandidate(r)
    <3>1. snap' = snap /\ plan' = plan /\ to = "consume"
      BY <1>1, <2>1 DEF VerifyCandidate, Step, Maps
    <3>2. plan[r] \in Plan
      BY <1>1, <2>1 DEF VerifyCandidate, Step, RunInv
    <3> QED BY <1>1, <3>1, <3>2 DEF RunInv, Preparing, Holding, Transacting
  <2>2. CASE SelectCandidate(r)
    <3>1. snap' = snap /\ to = "consume"
      BY <1>1, <2>2 DEF SelectCandidate, Step, Maps
    <3>2. plan'[r] \in Plan
      BY <1>1, <2>2 DEF SelectCandidate, Maps, Published, Reserved, Ledger
    <3> QED BY <1>1, <3>1, <3>2 DEF RunInv, Preparing, Holding, Transacting
  <2>3. CASE Superseded(r)
    BY <2>3, Stopped DEF Superseded
  <2>4. CASE ReadFloor(r)
    <3>1. snap'[r] = ledger /\ plan' = plan /\ to = "confirm" /\ plan[r] \in Plan
      BY <1>1, <2>4 DEF ReadFloor, ReadState, Step, Maps, RunInv, Holding
    <3> QED BY <1>1, <3>1 DEF RunInv, Preparing, Holding, Transacting
  <2>5. CASE Confirm(r)
    <3>1. snap' = snap /\ plan' = plan /\ to = "advance" /\ plan[r] \in Plan
      BY <1>1, <2>5 DEF Confirm, Step, Maps, RunInv, Holding
    <3>2. snap[r].floor <= plan[r].number /\ plan[r].number <= snap[r].counter
      BY <1>1, <2>5, <3>1, VerifiedBounds DEF Confirm
    <3> QED BY <1>1, <3>1, <3>2 DEF RunInv, Preparing, Holding, Transacting
  <2>6. CASE Advance(r)
    <3>1. /\ snap'[r] = [snap[r] EXCEPT !.floor = plan[r].number]
          /\ plan' = plan /\ to = "tag" /\ plan[r] \in Plan
          /\ plan[r].number <= snap[r].counter
      BY <1>1, <2>6 DEF Advance, Step, Maps, RunInv, Holding
    <3>2. WellFormed(snap'[r])
      BY <1>1, <3>1, ConsumedWellFormed DEF Plan
    <3> QED BY <3>1, <3>2 DEF RunInv, Preparing, Holding, Transacting
  <2> QED BY <1>4, <2>1, <2>2, <2>3, <2>4, <2>5, <2>6 DEF BeginPublication
<1>5. CASE PublishPrepared(r)
  <2>1. CASE Publish(r)
    BY <2>1, Stopped DEF Publish
  <2>2. CASE ~Publish(r)
    <3>1. /\ snap' = snap /\ plan' = plan /\ plan[r] \in Plan
          /\ to \in Transacting
      BY <1>1, <1>5, <2>2 DEF PublishPrepared, CreateTag, CreateRelease, CreateAmbiguous,
           Reconcile, Upload, Check, Step, Maps, RunInv, Holding, Transacting
    <3> QED BY <1>1, <3>1 DEF RunInv, Preparing, Holding, Transacting
  <2> QED BY <2>1, <2>2
<1>6. CASE Fail(r)
  BY <1>6, Stopped DEF Fail
<1> QED BY <1>2, <1>3, <1>4, <1>5, <1>6 DEF Run

\* What a run knows depends on nothing that another run changes.
LEMMA SameRunInv ==
    ASSUME NEW s \in Runs, RunInv(s), SameRun(s)
    PROVE  RunInv(s)'
BY DEF RunInv, SameRun, New

\* A step of a run keeps the types of what it holds.
LEMMA MapsStep ==
    ASSUME LedgerInv, NEW r \in Runs, Run(r)
    PROVE  Maps'
<1>1. Maps /\ RunInv(r) /\ ledger \in Ledger /\ EmptyLedger \in Ledger
  BY EmptyLedgerWellFormed DEF LedgerInv, WellFormed
<1>2. ASSUME NEW outcome \in {"failed", "done"}, Stop(r, outcome), attempt' = attempt
      PROVE  Maps'
  BY <1>1, <1>2 DEF Maps, Stop
<1>3. CASE Start(r)
  BY <1>1, <1>3, RunAssumption DEF Start, Step, Maps, Active, Preparing, Publishing
<1>4. CASE Prepare(r)
  <2>1. CASE ClosedPushCycle(r)
    BY <1>2, <2>1 DEF ClosedPushCycle
  <2>2. CASE ReadReservation(r)
    BY <1>1, <2>2 DEF ReadReservation, ReadState, Step, Maps, Ledger, Active, Preparing,
                      Publishing
  <2>3. CASE Allocate(r)
    <3>1. New(r)'
      BY <2>3, AllocatedIsNew
    <3>2. \E p : plan' = [plan EXCEPT ![r] = p]
      BY <2>3 DEF Allocate
    <3>3. plan' \in [Runs -> Plan \cup {NoPlan}]
      BY <1>1, <3>1, <3>2 DEF Maps, New
    <3> QED BY <1>1, <2>3, <3>3 DEF Allocate, Step, Maps, Active, Preparing
  <2>4. CASE Reserve(r)
    BY <1>1, <2>4 DEF Reserve, Step, Maps, Active, Publishing
  <2> QED BY <1>4, <2>1, <2>2, <2>3, <2>4 DEF Prepare
<1>5. CASE BeginPublication(r)
  <2>1. CASE VerifyCandidate(r)
    BY <1>1, <2>1 DEF VerifyCandidate, Step, Maps, Active, Publishing
  <2>2. CASE SelectCandidate(r)
    BY <1>1, <2>2 DEF SelectCandidate, Step, Maps, Active, Publishing, Ledger
  <2>3. CASE Superseded(r)
    BY <1>2, <2>3 DEF Superseded
  <2>4. CASE ReadFloor(r) \/ Confirm(r)
    BY <1>1, <2>4 DEF ReadFloor, ReadState, Confirm, Step, Maps, Active, Publishing
  <2>5. CASE Advance(r)
    <3>1. RunInv(r)' /\ pc' = [pc EXCEPT ![r] = "tag"]
      BY <1>5, <2>5, RunStep DEF Run, Advance, Step
    <3>2. snap'[r] \in Ledger
      BY <3>1 DEF RunInv, WellFormed
    <3> QED BY <1>1, <2>5, <3>1, <3>2 DEF Advance, Maps, Active, Publishing
  <2> QED BY <1>5, <2>1, <2>2, <2>3, <2>4, <2>5 DEF BeginPublication
<1>6. CASE PublishPrepared(r)
  <2>1. CASE Publish(r)
    BY <1>2, <2>1 DEF Publish
  <2>2. CASE Reconcile(r)
    <3>1. PICK release \in releases :
             release = Draft(r) /\ held' = [held EXCEPT ![r] = release.author]
      BY <2>2 DEF Reconcile
    <3>2. release.author = r
      BY <3>1 DEF Draft
    <3> QED BY <1>1, <2>2, <3>1, <3>2 DEF Reconcile, Step, Maps, Active, Publishing, Transacting
  <2>3. CASE ~Publish(r) /\ ~Reconcile(r)
    BY <1>1, <1>6, <2>3 DEF PublishPrepared, CreateTag, CreateRelease, CreateAmbiguous,
         Upload, Check, Step, Maps, Active, Publishing, Transacting
  <2> QED BY <2>1, <2>2, <2>3
<1>7. CASE Fail(r)
  BY <1>2, <1>7 DEF Fail
<1> QED BY <1>3, <1>4, <1>5, <1>6, <1>7 DEF Run

\* A step of a run keeps the types of what GitHub holds.
LEMMA SetsStep ==
    ASSUME LedgerInv, NEW r \in Runs, Run(r)
    PROVE  Sets'
<1>1. Sets /\ RunInv(r)
  BY DEF LedgerInv
<1>2. CASE UNCHANGED <<refs, releases, shipped, byHand>>
  BY <1>1, <1>2 DEF Sets
<1>3. ASSUME pc[r] \in Transacting \cup {"tag"}
      PROVE  Target(r) \in Tag /\ Draft(r) \in Release
  BY <1>1, <1>3, DraftTyped DEF RunInv, Holding
<1>4. CASE CreateTag(r)
  BY <1>1, <1>3, <1>4 DEF CreateTag, Step, Sets
<1>5. CASE CreateRelease(r) \/ CreateAmbiguous(r)
  <2>1. Draft(r) \in Release
    BY <1>3, <1>5 DEF CreateRelease, CreateAmbiguous, Step, Transacting
  <2> QED BY <1>1, <1>5, <2>1 DEF CreateRelease, CreateAmbiguous, Sets
<1>6. CASE Upload(r)
  <2>1. PICK release \in releases, arrived \in BOOLEAN :
           releases' = (releases \ {release}) \cup {[release EXCEPT !.complete = arrived]}
    BY <1>6 DEF Upload, Rewrite, Mine
  <2>2. [release EXCEPT !.complete = arrived] \in Release
    BY <1>1, <2>1 DEF Sets, Release
  <2> QED BY <1>1, <1>6, <2>1, <2>2 DEF Upload, Sets
<1>7. CASE Publish(r)
  <2>1. PICK release \in releases :
           /\ releases' = (releases \ {release}) \cup {[release EXCEPT !.public = TRUE]}
           /\ shipped' = shipped \cup {[release EXCEPT !.public = TRUE]}
    BY <1>7 DEF Publish, Rewrite, Mine
  <2>2. [release EXCEPT !.public = TRUE] \in Release
    BY <1>1, <2>1 DEF Sets, Release
  <2> QED BY <1>1, <1>7, <2>1, <2>2 DEF Publish, Sets
<1>8. CASE Start(r) \/ Prepare(r) \/ BeginPublication(r) \/ Reconcile(r) \/ Check(r) \/ Fail(r)
  <2> USE DEF github
  <2>1. CASE Start(r) \/ Fail(r) \/ Reconcile(r) \/ Check(r)
    BY <1>2, <2>1 DEF Start, Fail, Reconcile, Check
  <2>2. CASE Prepare(r)
    BY <1>2, <2>2 DEF Prepare, ClosedPushCycle, ReadReservation, Allocate, Reserve
  <2>3. CASE BeginPublication(r)
    BY <1>2, <2>3 DEF BeginPublication, VerifyCandidate, SelectCandidate, Superseded,
                      ReadFloor, Confirm, Advance
  <2> QED BY <1>8, <2>1, <2>2, <2>3
<1> QED BY <1>4, <1>5, <1>6, <1>7, <1>8 DEF Run, PublishPrepared

\* What somebody does by hand has its types.
LEMMA ByHandSets ==
    ASSUME LedgerInv, ByHand
    PROVE  Sets'
<1>1. Sets /\ Maps
  BY DEF LedgerInv
<1>2. byHand' \in 0..MaxByHand
  BY <1>1, RunAssumption DEF ByHand, Sets
<1>3. CASE DraftByHand
  <2>1. PICK r \in Runs : /\ plan[r] # NoPlan
                          /\ releases' = releases \cup
                               {[Draft(r) EXCEPT !.number = 0, !.author = Nobody]}
    BY <1>3 DEF DraftByHand
  <2>2. Draft(r) \in Release
    BY <1>1, <2>1, DraftTyped DEF Maps
  <2>3. [Draft(r) EXCEPT !.number = 0, !.author = Nobody] \in Release
    BY <2>2 DEF Release
  <2> QED BY <1>1, <1>2, <1>3, <2>1, <2>3 DEF DraftByHand, Sets
<1>4. CASE DeleteByHand
  BY <1>1, <1>2, <1>4 DEF DeleteByHand, Sets
<1> QED BY <1>3, <1>4 DEF ByHand

LEMMA InitLedgerInv == Init => LedgerInv
<1> SUFFICES ASSUME Init
             PROVE  LedgerInv
  OBVIOUS
<1>1. WellFormed(ledger) /\ (\A r \in Runs : WellFormed(snap[r])) /\ EmptyLedger \in Ledger
  BY EmptyLedgerWellFormed DEF Init, WellFormed
<1>2. \A r \in Runs : RunInv(r)
  BY <1>1 DEF Init, RunInv, Preparing, Holding, Transacting
<1>3. Maps
  BY <1>1, RunAssumption DEF Init, Maps
<1>4. Sets
  BY RunAssumption DEF Init, Sets
<1> QED BY <1>1, <1>2, <1>3, <1>4 DEF LedgerInv

LEMMA NextLedgerInv == LedgerInv /\ [Next]_vars => LedgerInv'
<1> SUFFICES ASSUME LedgerInv, [Next]_vars
             PROVE  LedgerInv'
  OBVIOUS
<1>1. ASSUME NEW r \in Runs, Run(r)
      PROVE  LedgerInv'
  <2>1. \A s \in Runs : RunInv(s)'
    <3>1. \A s \in Runs \ {r} : RunInv(s)'
      BY <1>1, OthersUnchanged, SameRunInv DEF LedgerInv
    <3> QED BY <1>1, <3>1, RunStep
  <2> QED BY <1>1, <2>1, LedgerStep, MapsStep, SetsStep DEF LedgerInv
<1>2. CASE ByHand
  <2>1. /\ WellFormed(ledger)' /\ Maps'
        /\ \A s \in Runs : SameRun(s)
    BY <1>2 DEF ByHand, DraftByHand, DeleteByHand, LedgerInv, Maps, SameRun, WellFormed
  <2>2. \A s \in Runs : RunInv(s)'
    BY <2>1, SameRunInv DEF LedgerInv
  <2> QED BY <1>2, <2>1, <2>2, ByHandSets DEF LedgerInv
<1>3. CASE UNCHANGED vars
  <2>1. /\ WellFormed(ledger)' /\ Maps' /\ Sets'
        /\ \A s \in Runs : SameRun(s)
    BY <1>3 DEF vars, github, LedgerInv, Maps, Sets, SameRun, WellFormed
  <2>2. \A s \in Runs : RunInv(s)'
    BY <2>1, SameRunInv DEF LedgerInv
  <2> QED BY <2>1, <2>2 DEF LedgerInv
<1> QED BY <1>1, <1>2, <1>3 DEF Next

LEMMA AlwaysLedgerInv == Spec => []LedgerInv
BY InitLedgerInv, NextLedgerInv, PTL DEF Spec
-------------------------------------------------------------------------------
(***************************************************************************)
(* The ledger, the releases and what every run holds have their types, and *)
(* the floor and all numbers stay under the counter, as read_state demands *)
(* of the file.                                                            *)
(***************************************************************************)
THEOREM LedgerTypeCorrect == Spec => []TypeOK
<1>1. LedgerInv => TypeOK
  BY DEF LedgerInv, WellFormed, Maps, Sets, TypeOK, Reserved
<1> QED BY <1>1, AlwaysLedgerInv, PTL

(***************************************************************************)
(* No two runs reserve the same tag or the same build number (reserve_plan *)
(* and write_state), whatever the runs are and however they overlap.       *)
(***************************************************************************)
THEOREM ReservationsUnique == Spec => []UniqueReservations
<1>1. LedgerInv => UniqueReservations
  BY DEF LedgerInv, WellFormed, UniqueReservations
<1> QED BY <1>1, AlwaysLedgerInv, PTL

(***************************************************************************)
(* The counter and the floor never go back and a reservation never changes *)
(* (write_state, begin_publication).                                       *)
(***************************************************************************)
THEOREM LedgerOnlyGrows == Spec => LedgerGrows
<1> DEFINE Grows == /\ ledger'.counter >= ledger.counter
                    /\ ledger'.floor >= ledger.floor
                    /\ \A r \in Runs : ledger.plans[r] # NoPlan =>
                                         ledger'.plans[r] = ledger.plans[r]
<1>1. LedgerInv /\ [Next]_vars => [Grows]_vars
  <2> SUFFICES ASSUME LedgerInv, Next
               PROVE  Grows
    OBVIOUS
  <2>1. ASSUME NEW r \in Runs, Run(r)
        PROVE  Grows
    BY <2>1, LedgerStep
  <2>2. CASE ByHand
    <3>1. ledger' = ledger /\ ledger.counter \in Nat /\ ledger.floor \in Nat
      BY <2>2 DEF ByHand, DraftByHand, DeleteByHand, LedgerInv, WellFormed, Ledger
    <3> QED BY <3>1
  <2> QED BY <2>1, <2>2 DEF Next
<1> QED BY <1>1, AlwaysLedgerInv, PTL DEF Spec, LedgerGrows
-------------------------------------------------------------------------------
(***************************************************************************)
(* Proofs about what becomes public in ReleaseLedger, whether runs overlap *)
(* or not, with any number of failures, reruns and releases drafted or     *)
(* deleted by hand.                                                        *)
(***************************************************************************)

\* A published release candidate of the base version.
Candidate(r, p) == /\ p \in Reserved(ledger)
                   /\ p.tag.base = Base[r]
                   /\ p.tag.channel = "rc"
                   /\ \E rc \in shipped : rc.tag = p.tag

(***************************************************************************)
(* What a run may rely on while it publishes: its plan is the reservation  *)
(* or the candidate, its number is consumed, and once the tag is created   *)
(* nobody else publishes under it.                                         *)
(***************************************************************************)
Entitled(r) ==
    /\ pc[r] \in Publishing /\ Channel[r] # "promote" => ledger.plans[r] = plan[r]
    /\ pc[r] \in Holding /\ Channel[r] = "promote" => Candidate(r, plan[r])
    /\ pc[r] \in {"tag"} \cup Transacting => plan[r].number <= ledger.floor
    /\ pc[r] \in Transacting => /\ Target(r) \in refs
                                /\ \A release \in shipped : release.tag # Target(r)

\* The draft of a run is the only one it has under its tag, carries the number of its
\* plan, and is complete once it was checked.
Drafted(r) ==
    /\ pc[r] = "create" => \A a \in releases : a.author # r \/ a.tag # Target(r)
    /\ pc[r] \in {"readback", "upload", "check", "publish"} =>
          \A a \in releases : a.author = r /\ a.tag = Target(r) => a.number = plan[r].number
    /\ pc[r] \in {"upload", "check", "publish"} => held[r] = r
    /\ pc[r] = "publish" =>
          \A a \in releases : a.author = r /\ a.tag = Target(r) => a.complete

Authored(a) == /\ a.public => a \in shipped
               /\ a.author # Nobody => /\ a.tag \in refs
                                       /\ a.number <= ledger.floor
                                       /\ Backed(a)

OneDraft == \A a, b \in releases :
               a.author # Nobody /\ a.author = b.author /\ a.tag = b.tag => a = b

DistinctTargets == \A r, s \in Runs :
    r # s /\ pc[r] \in Transacting /\ pc[s] \in Transacting => Target(r) # Target(s)

PublicationInv == /\ \A r \in Runs : Entitled(r) /\ Drafted(r)
                  /\ \A a \in releases : Authored(a)
                  /\ OneDraft
                  /\ DistinctTargets
                  /\ \A a \in shipped : a.author # Nobody
                  /\ TagsShipOnce
                  /\ ShippedIsReserved
-------------------------------------------------------------------------------
(***************************************************************************)
(* What every step keeps: reservations, numbers, tags and the history of   *)
(* public releases only grow.                                              *)
(***************************************************************************)
Grown == /\ ledger'.floor >= ledger.floor
         /\ \A s \in Runs : ledger.plans[s] # NoPlan => ledger'.plans[s] = ledger.plans[s]
         /\ refs \subseteq refs'
         /\ shipped \subseteq shipped'

\* What a release stands for is never lost.
LEMMA BackedGrows ==
    ASSUME LedgerInv, Grown
    PROVE  /\ \A p : p \in Reserved(ledger) => p \in Reserved(ledger')
           /\ \A a \in Release : a.author # Nobody /\ Backed(a) => Backed(a)'
           /\ \A r \in Runs : \A p : Candidate(r, p) => Candidate(r, p)'
<1>1. \A p : p \in Reserved(ledger) => p \in Reserved(ledger')
  BY DEF Reserved, Grown
<1>2. ASSUME NEW a \in Release, a.author # Nobody, Backed(a)
      PROVE  Backed(a)'
  <2>1. PICK p \in Reserved(ledger) :
           /\ p.number = a.number
           /\ \/ p.tag = a.tag /\ ledger.plans[a.author] = p
              \/ /\ a.tag = Stable(p.tag.base)
                 /\ p.tag.channel = "rc"
                 /\ \E rc \in shipped : rc.tag = p.tag
    BY <1>2 DEF Backed
  <2>2. p \in Reserved(ledger') /\ p # NoPlan
    BY <1>1, <2>1 DEF Reserved
  <2>3. a.author \in Runs
    BY <1>2 DEF Release
  <2> QED BY <2>1, <2>2, <2>3 DEF Backed, Grown
<1>3. ASSUME NEW r \in Runs, NEW p, Candidate(r, p)
      PROVE  Candidate(r, p)'
  BY <1>1, <1>3 DEF Candidate, Grown
<1> QED BY <1>1, <1>2, <1>3

LEMMA StepGrows ==
    ASSUME LedgerInv, NEW r \in Runs, Run(r)
    PROVE  Grown
<1>1. refs \subseteq refs' /\ shipped \subseteq shipped'
  <2> USE DEF github
  <2>1. CASE Start(r) \/ Fail(r)
    BY <2>1 DEF Start, Fail
  <2>2. CASE Prepare(r)
    BY <2>2 DEF Prepare, ClosedPushCycle, ReadReservation, Allocate, Reserve
  <2>3. CASE BeginPublication(r)
    BY <2>3 DEF BeginPublication, VerifyCandidate, SelectCandidate, Superseded, ReadFloor,
                Confirm, Advance
  <2>4. CASE PublishPrepared(r)
    BY <2>4 DEF PublishPrepared, CreateTag, CreateRelease, CreateAmbiguous, Reconcile,
                Upload, Check, Publish
  <2> QED BY <2>1, <2>2, <2>3, <2>4 DEF Run
<1> QED BY <1>1, LedgerStep DEF Grown

\* A run that publishes is entitled to the draft it creates.
LEMMA DraftBacked ==
    ASSUME LedgerInv, PublicationInv, NEW r \in Runs, pc[r] \in Transacting
    PROVE  /\ Draft(r) \in Release
           /\ Draft(r).tag = Target(r) /\ Draft(r).author = r /\ r # Nobody
           /\ Target(r) \in refs
           /\ plan[r].number <= ledger.floor
           /\ Backed(Draft(r))
<1>1. plan[r] \in Plan /\ plan[r] # NoPlan
  BY NoPlanAssumption DEF LedgerInv, RunInv, Holding
<1>2. /\ Draft(r).tag = Target(r)
      /\ Draft(r).author = r
      /\ Draft(r).number = plan[r].number
  BY DEF Draft
<1>3. Entitled(r) /\ pc[r] \in Publishing /\ pc[r] \in Holding
  BY DEF PublicationInv, Publishing, Holding
<1>4. Backed(Draft(r))
  <2>1. CASE Channel[r] = "promote"
    <3>1. Candidate(r, plan[r])
      BY <1>3, <2>1 DEF Entitled
    <3> QED BY <1>2, <2>1, <3>1 DEF Backed, Candidate, Target
  <2>2. CASE Channel[r] # "promote"
    <3>1. ledger.plans[r] = plan[r]
      BY <1>3, <2>2 DEF Entitled
    <3>2. plan[r] \in Reserved(ledger)
      BY <1>1, <3>1 DEF Reserved
    <3> QED BY <1>2, <2>2, <3>1, <3>2 DEF Backed, Target
  <2> QED BY <2>1, <2>2
<1> QED BY <1>1, <1>2, <1>3, <1>4, DraftTyped, RunAssumption DEF Entitled

\* The releases of a run that publishes are not public yet.
LEMMA MineIsDraft ==
    ASSUME LedgerInv, PublicationInv, NEW r \in Runs,
           pc[r] \in {"upload", "check", "publish"}
    PROVE  \A a \in Mine(r) : /\ a \in releases /\ a.tag = Target(r) /\ a.author = r
                              /\ ~a.public
                              /\ a.tag \in refs /\ a.number <= ledger.floor /\ Backed(a)
<1>1. /\ held[r] = r /\ r # Nobody
      /\ \A release \in shipped : release.tag # Target(r)
  BY RunAssumption DEF PublicationInv, Drafted, Entitled, Transacting
<1> QED BY <1>1 DEF Mine, PublicationInv, Authored, LedgerInv, Sets, Release
-------------------------------------------------------------------------------
(***************************************************************************)
(* What one step of a run does to the releases and to their history.       *)
(***************************************************************************)
Quiet == UNCHANGED <<refs, releases, shipped>>

LEMMA QuietOrNot ==
    ASSUME NEW r \in Runs, Run(r)
    PROVE  \/ Quiet
           \/ CreateTag(r) \/ CreateRelease(r) \/ CreateAmbiguous(r) \/ Upload(r) \/ Publish(r)
<1> USE DEF github, Quiet
<1>1. CASE Start(r) \/ Fail(r)
  BY <1>1 DEF Start, Fail
<1>2. CASE Prepare(r)
  BY <1>2 DEF Prepare, ClosedPushCycle, ReadReservation, Allocate, Reserve
<1>3. CASE BeginPublication(r)
  BY <1>3 DEF BeginPublication, VerifyCandidate, SelectCandidate, Superseded, ReadFloor,
              Confirm, Advance
<1>4. CASE PublishPrepared(r)
  BY <1>4 DEF PublishPrepared, Reconcile, Check
<1> QED BY <1>1, <1>2, <1>3, <1>4 DEF Run

\* The releases a step rewrites or adds belong to the run that takes it.
LEMMA StepReleases ==
    ASSUME LedgerInv, PublicationInv, NEW r \in Runs, Run(r)
    PROVE  /\ \A a \in releases' : \/ a \in releases
                                    \/ /\ pc[r] \in Transacting
                                       /\ a.author = r /\ a.tag = Target(r)
           /\ \A a \in shipped' : \/ a \in shipped
                                   \/ /\ pc[r] = "publish" /\ pc'[r] \in {"done", "failed"}
                                      /\ a.tag = Target(r) /\ a.author = r /\ a.complete
                                      /\ a.number = plan[r].number
                                      /\ a.tag \in refs /\ a.number <= ledger.floor
                                      /\ Backed(a)
           /\ \A a \in shipped', b \in shipped' :
                 a \notin shipped /\ b \notin shipped => a = b
<1>1. CASE Quiet \/ CreateTag(r)
  BY <1>1 DEF Quiet, CreateTag
<1>2. CASE CreateRelease(r) \/ CreateAmbiguous(r)
  <2>1. pc[r] = "create" /\ shipped' = shipped /\ releases' \subseteq releases \cup {Draft(r)}
    BY <1>2 DEF CreateRelease, CreateAmbiguous, Step
  <2>2. pc[r] \in Transacting
    BY <2>1 DEF Transacting
  <2> QED BY <2>1, <2>2, DraftBacked
<1>3. CASE Upload(r)
  <2>1. PICK a \in Mine(r), arrived \in BOOLEAN :
           releases' = (releases \ {a}) \cup {[a EXCEPT !.complete = arrived]}
    BY <1>3 DEF Upload, Rewrite
  <2>2. /\ pc[r] = "upload" /\ pc[r] \in Transacting /\ shipped' = shipped
        /\ a \in Release /\ a.author = r /\ a.tag = Target(r)
    BY <1>3, <2>1, MineIsDraft DEF Upload, Step, LedgerInv, Sets, Transacting
  <2>3. [a EXCEPT !.complete = arrived].author = r
        /\ [a EXCEPT !.complete = arrived].tag = Target(r)
    BY <2>2 DEF Release
  <2> QED BY <2>1, <2>2, <2>3
<1>4. CASE Publish(r)
  <2>1. PICK a \in Mine(r) :
           /\ releases' = (releases \ {a}) \cup {[a EXCEPT !.public = TRUE]}
           /\ shipped' = shipped \cup {[a EXCEPT !.public = TRUE]}
    BY <1>4 DEF Publish, Rewrite
  <2>2. /\ pc[r] = "publish" /\ pc[r] \in Transacting /\ pc'[r] \in {"done", "failed"}
    BY <1>4 DEF Publish, Stop, LedgerInv, Maps, Transacting
  <2>3. /\ a \in Release /\ a \in releases /\ a.author = r /\ a.tag = Target(r)
        /\ a.tag \in refs /\ a.number <= ledger.floor /\ Backed(a)
    BY <2>1, <2>2, MineIsDraft DEF LedgerInv, Sets
  <2>4. a.complete /\ a.number = plan[r].number
    BY <2>2, <2>3 DEF PublicationInv, Drafted
  <2> DEFINE b == [a EXCEPT !.public = TRUE]
  <2>5. /\ b.author = r /\ b.tag = Target(r) /\ b.complete = a.complete
        /\ b.number = a.number
    BY <2>3 DEF Release
  <2>6. Backed(b)
    BY <2>3, <2>5 DEF Backed
  <2> HIDE DEF b
  <2>7. /\ releases' = (releases \ {a}) \cup {b}
        /\ shipped' = shipped \cup {b}
    BY <2>1 DEF b
  <2> QED BY <2>2, <2>3, <2>4, <2>5, <2>6, <2>7
<1> QED BY <1>1, <1>2, <1>3, <1>4, QuietOrNot

\* Every release stays backed, and no run has two drafts of one tag.
LEMMA StepAuthored ==
    ASSUME LedgerInv, PublicationInv, NEW r \in Runs, Run(r), Grown, Sets'
    PROVE  (\A a \in releases : Authored(a))' /\ OneDraft'
<1>1. /\ ledger.floor \in Nat /\ ledger'.floor \in Nat
      /\ releases \subseteq Release
      /\ \A a \in releases : a.number \in Nat
  BY LedgerStep DEF LedgerInv, WellFormed, Ledger, Sets, Release
<1>2. \A a \in releases : Authored(a)'
  BY <1>1, BackedGrows DEF PublicationInv, Authored, Grown
<1>3. CASE Quiet \/ CreateTag(r)
  BY <1>2, <1>3 DEF Quiet, CreateTag, OneDraft, PublicationInv
<1>4. CASE CreateRelease(r) \/ CreateAmbiguous(r)
  <2>1. pc[r] = "create" /\ releases' \subseteq releases \cup {Draft(r)}
    BY <1>4 DEF CreateRelease, CreateAmbiguous, Step
  <2>2. pc[r] \in Transacting
    BY <2>1 DEF Transacting
  <2>3. \A a \in releases : a.author # r \/ a.tag # Target(r)
    BY <2>1 DEF PublicationInv, Drafted
  <2>4. /\ ~Draft(r).public
        /\ Draft(r).number = plan[r].number /\ plan[r].number \in Nat
    BY <2>2, DraftBacked DEF Draft, Release
  <2>5. Authored(Draft(r))'
    <3> DEFINE d == Draft(r)
    <3>1. /\ d \in Release /\ d.author # Nobody /\ Backed(d) /\ d.tag \in refs /\ ~d.public
          /\ d.number <= ledger.floor /\ d.number \in Nat
      BY <2>2, <2>4, DraftBacked
    <3>2. d' = d
      BY <1>4 DEF CreateRelease, CreateAmbiguous, Draft, Target
    <3> HIDE DEF d
    <3>3. Authored(d)'
      BY <1>1, <3>1, <3>2, BackedGrows DEF Authored, Grown
    <3> QED BY <3>3 DEF d
  <2>6. Draft(r)' = Draft(r)
    BY <1>4 DEF CreateRelease, CreateAmbiguous, Draft, Target
  <2>7. OneDraft'
    BY <2>1, <2>2, <2>3, DraftBacked DEF OneDraft, PublicationInv
  <2> QED BY <1>2, <2>1, <2>5, <2>6, <2>7
<1>5. ASSUME NEW a \in Mine(r), NEW b \in Release,
             pc[r] \in {"upload", "check", "publish"},
             releases' = (releases \ {a}) \cup {b},
             b.author = a.author, b.tag = a.tag, b.number = a.number,
             b.public => b \in shipped'
      PROVE  (\A c \in releases : Authored(c))' /\ OneDraft'
  <2>1. /\ a \in releases /\ a.tag = Target(r) /\ a.author = r
        /\ a.tag \in refs /\ a.number <= ledger.floor /\ Backed(a)
    BY <1>5, MineIsDraft
  <2>2. Backed(b)
    BY <1>5, <2>1 DEF Backed
  <2>3. Authored(b)'
    BY <1>1, <1>5, <2>1, <2>2, BackedGrows DEF Authored, Grown
  <2>4. OneDraft'
    BY <1>5, <2>1 DEF OneDraft, PublicationInv
  <2> QED BY <1>2, <1>5, <2>3, <2>4
<1>6. CASE Upload(r)
  <2>1. PICK a \in Mine(r), arrived \in BOOLEAN :
           releases' = (releases \ {a}) \cup {[a EXCEPT !.complete = arrived]}
    BY <1>6 DEF Upload, Rewrite
  <2> DEFINE b == [a EXCEPT !.complete = arrived]
  <2>2. pc[r] = "upload" /\ a \in Release /\ ~a.public
    BY <1>1, <1>6, <2>1, MineIsDraft DEF Upload, Step
  <2>3. /\ b \in Release /\ b.author = a.author /\ b.tag = a.tag
        /\ b.number = a.number /\ ~b.public
    BY <2>2 DEF Release
  <2> HIDE DEF b
  <2>4. releases' = (releases \ {a}) \cup {b}
    BY <2>1 DEF b
  <2> QED BY <1>5, <2>2, <2>3, <2>4
<1>7. CASE Publish(r)
  <2>1. PICK a \in Mine(r) :
           /\ releases' = (releases \ {a}) \cup {[a EXCEPT !.public = TRUE]}
           /\ shipped' = shipped \cup {[a EXCEPT !.public = TRUE]}
    BY <1>7 DEF Publish, Rewrite
  <2> DEFINE b == [a EXCEPT !.public = TRUE]
  <2>2. pc[r] = "publish" /\ a \in Release
    BY <1>1, <1>7, <2>1, MineIsDraft DEF Publish
  <2>3. /\ b \in Release /\ b.author = a.author /\ b.tag = a.tag
        /\ b.number = a.number
    BY <2>2 DEF Release
  <2> HIDE DEF b
  <2>4. /\ releases' = (releases \ {a}) \cup {b}
        /\ b \in shipped'
    BY <2>1 DEF b
  <2> QED BY <1>5, <2>2, <2>3, <2>4
<1> QED BY <1>3, <1>4, <1>6, <1>7, QuietOrNot
-------------------------------------------------------------------------------
(***************************************************************************)
(* What a run may rely on after a step of its own.                         *)
(***************************************************************************)
\* The run keeps its plan and enters no later phase.
NoFurther(s) == /\ plan'[s] = plan[s]
                /\ pc'[s] \in Publishing => pc[s] \in Publishing
                /\ pc'[s] \in Holding => pc[s] \in Holding
                /\ pc'[s] \in {"tag"} \cup Transacting => pc[s] \in {"tag"} \cup Transacting
                /\ pc'[s] \in Transacting => pc[s] \in Transacting

LEMMA EntitledKept ==
    ASSUME LedgerInv, PublicationInv, Grown, WellFormed(ledger)', NEW s \in Runs,
           NoFurther(s),
           pc'[s] \in Transacting => \A a \in shipped' : a \in shipped \/ a.tag # Target(s)
    PROVE  Entitled(s)'
<1>1. Entitled(s) /\ RunInv(s) /\ NoPlan \notin Plan
  BY NoPlanAssumption DEF PublicationInv, LedgerInv
<1>2. Target(s)' = Target(s)
  BY DEF Target, NoFurther
<1>3. pc'[s] \in Publishing /\ Channel[s] # "promote" => ledger'.plans[s] = plan[s]
  BY <1>1 DEF Entitled, RunInv, Grown, Publishing, Holding, Transacting, NoFurther
<1>4. pc'[s] \in Holding /\ Channel[s] = "promote" => Candidate(s, plan[s])'
  <2> SUFFICES ASSUME pc'[s] \in Holding, Channel[s] = "promote"
               PROVE  Candidate(s, plan[s])'
    OBVIOUS
  <2> DEFINE p == plan[s]
  <2>1. Candidate(s, p) /\ p' = p
    BY <1>1 DEF Entitled, NoFurther
  <2> HIDE DEF p
  <2>2. Candidate(s, p)'
    BY <2>1, BackedGrows DEF Candidate
  <2> QED BY <2>2 DEF p
<1>5. pc'[s] \in {"tag"} \cup Transacting => plan[s].number <= ledger'.floor
  <2> SUFFICES ASSUME pc'[s] \in {"tag"} \cup Transacting
               PROVE  plan[s].number <= ledger'.floor
    OBVIOUS
  <2>1. plan[s] \in Plan /\ plan[s].number <= ledger.floor
    BY <1>1 DEF Entitled, RunInv, Holding, NoFurther
  <2>2. plan[s].number \in Nat /\ ledger.floor \in Nat /\ ledger'.floor \in Nat
    BY <2>1 DEF Plan, LedgerInv, WellFormed, Ledger
  <2> QED BY <2>1, <2>2 DEF Grown
<1>6. pc'[s] \in Transacting =>
         /\ Target(s) \in refs'
         /\ \A release \in shipped' : release.tag # Target(s)
  BY <1>1 DEF Entitled, Grown, NoFurther
<1> QED BY <1>2, <1>3, <1>4, <1>5, <1>6 DEF Entitled, NoFurther

\* A run that stops relies on nothing.
LEMMA StoppedEntitled ==
    ASSUME Maps, NEW r \in Runs, NEW outcome \in {"failed", "done"}, Stop(r, outcome)
    PROVE  Entitled(r)' /\ Drafted(r)'
<1>1. pc'[r] = outcome
  BY DEF Maps, Stop
<1> QED BY <1>1 DEF Entitled, Drafted, Publishing, Holding, Transacting

\* The candidate a promotion selects is a published one of its base version.
LEMMA SelectedIsCandidate ==
    ASSUME LedgerInv, PublicationInv, NEW r \in Runs, SelectCandidate(r)
    PROVE  Candidate(r, plan[r])'
<1>1. PICK source \in Runs :
         /\ Channel[source] = "rc" /\ Base[source] = Base[r]
         /\ ledger.plans[source] \in Published(ledger)
         /\ plan' = [plan EXCEPT ![r] = ledger.plans[source]]
  BY DEF SelectCandidate
<1>2. /\ ledger' = ledger /\ shipped' = shipped
      /\ plan'[r] = ledger.plans[source]
  BY <1>1 DEF SelectCandidate, github, LedgerInv, Maps
<1>3. ledger.plans[source] \in Reserved(ledger)
  BY <1>1 DEF Published
<1>4. OwnLine(source, ledger.plans[source])
  BY <1>3 DEF Reserved, LedgerInv, WellFormed
<1>5. \E rc \in shipped : rc.tag = ledger.plans[source].tag
  BY <1>1 DEF Published, Public, PublicationInv, Authored
<1> QED BY <1>1, <1>2, <1>3, <1>4, <1>5 DEF Candidate, OwnLine, Reserved

LEMMA StepEntitled ==
    ASSUME LedgerInv, PublicationInv, NEW r \in Runs, Run(r), Grown, LedgerInv'
    PROVE  Entitled(r)'
<1> DEFINE from == pc[r]
           to == pc'[r]
<1> USE DEF Publishing, Holding, Transacting
<1>1. /\ Entitled(r) /\ Maps /\ RunInv(r)
      /\ ledger \in Ledger /\ snap[r] \in Ledger
      /\ WellFormed(ledger)'
  BY DEF PublicationInv, LedgerInv, WellFormed, RunInv
<1>2. CASE Start(r)
  <2>1. to = "prepare" \/ (to = "verify" /\ Channel[r] = "promote")
    BY <1>1, <1>2 DEF Start, Step, Maps
  <2> QED BY <2>1 DEF Entitled
<1>3. CASE Prepare(r)
  <2>1. CASE ClosedPushCycle(r)
    BY <1>1, <2>1, StoppedEntitled DEF ClosedPushCycle
  <2>2. CASE ReadReservation(r)
    <3>1. \/ to = "allocate"
          \/ to = "verify" /\ plan'[r] = ledger'.plans[r]
      BY <1>1, <2>2 DEF ReadReservation, Step, Maps, github
    <3> QED BY <3>1 DEF Entitled
  <2>3. CASE Allocate(r)
    <3>1. to = "reserve"
      BY <1>1, <2>3 DEF Allocate, Step, Maps
    <3> QED BY <3>1 DEF Entitled
  <2>4. CASE Reserve(r)
    <3>1. to = "verify" /\ plan' = plan /\ ledger'.plans[r] = plan[r]
      BY <1>1, <2>4 DEF Reserve, WriteState, Step, Maps, Ledger
    <3> QED BY <3>1 DEF Entitled
  <2> QED BY <1>3, <2>1, <2>2, <2>3, <2>4 DEF Prepare
<1>4. CASE BeginPublication(r)
  <2>1. CASE VerifyCandidate(r)
    <3>1. to = "consume" /\ plan' = plan /\ ledger' = ledger /\ Channel[r] # "promote"
          /\ from = "verify"
      BY <1>1, <2>1 DEF VerifyCandidate, Step, Maps, github
    <3> QED BY <1>1, <3>1 DEF Entitled
  <2>2. CASE SelectCandidate(r)
    <3>1. to = "consume" /\ Channel[r] = "promote"
      BY <1>1, <2>2 DEF SelectCandidate, Step, Maps
    <3> QED BY <2>2, <3>1, SelectedIsCandidate DEF Entitled
  <2>3. CASE Superseded(r)
    BY <1>1, <2>3, StoppedEntitled DEF Superseded
  <2>4. CASE ReadFloor(r) \/ Confirm(r)
    <3>1. NoFurther(r) /\ to \notin Transacting
      BY <1>1, <2>4 DEF ReadFloor, Confirm, Step, Maps, NoFurther
    <3> QED BY <1>1, <3>1, EntitledKept
  <2>5. CASE Advance(r)
    <3>1. /\ to = "tag" /\ from = "advance" /\ plan' = plan
          /\ ledger' = [ledger EXCEPT !.floor = plan[r].number]
      BY <1>1, <2>5 DEF Advance, WriteState, Step, Maps
    <3>2. ledger'.floor = plan[r].number /\ ledger'.plans = ledger.plans
      BY <1>1, <3>1 DEF Ledger
    <3>3. plan[r].number <= ledger'.floor
      BY <1>1, <3>1, <3>2 DEF RunInv, Plan
    <3>4. Channel[r] = "promote" => Candidate(r, plan[r])'
      <4> DEFINE p == plan[r]
      <4>1. p' = p /\ (Channel[r] = "promote" => Candidate(r, p))
        BY <1>1, <3>1 DEF Entitled
      <4> HIDE DEF p
      <4>2. Channel[r] = "promote" => Candidate(r, p)'
        BY <4>1, BackedGrows DEF Candidate
      <4> QED BY <4>2 DEF p
    <3> QED BY <1>1, <3>1, <3>2, <3>3, <3>4 DEF Entitled
  <2> QED BY <1>4, <2>1, <2>2, <2>3, <2>4, <2>5 DEF BeginPublication
<1>5. CASE PublishPrepared(r)
  <2>1. CASE Publish(r)
    BY <1>1, <2>1, StoppedEntitled DEF Publish
  <2>2. CASE CreateTag(r)
    <3>1. /\ to = "create" /\ from = "tag" /\ plan' = plan /\ ledger' = ledger
          /\ refs' = refs \cup {Target(r)} /\ Target(r) \notin refs /\ shipped' = shipped
      BY <1>1, <2>2 DEF CreateTag, Step, Maps, Occupied
    <3>2. \A a \in shipped : a.tag \in refs
      BY DEF PublicationInv, ShippedIsReserved
    <3>3. Target(r)' = Target(r)
      BY <3>1 DEF Target
    <3>4. Candidate(r, plan[r]) => Candidate(r, plan[r])'
      BY <3>1 DEF Candidate, Reserved
    <3> QED BY <1>1, <3>1, <3>2, <3>3, <3>4 DEF Entitled
  <2>3. CASE ~Publish(r) /\ ~CreateTag(r)
    <3>1. NoFurther(r) /\ shipped' = shipped
      BY <1>1, <1>5, <2>3 DEF PublishPrepared, CreateRelease, CreateAmbiguous, Reconcile,
           Upload, Check, Step, Maps, NoFurther, github
    <3> QED BY <1>1, <3>1, EntitledKept
  <2> QED BY <2>1, <2>2, <2>3
<1>6. CASE Fail(r)
  BY <1>1, <1>6, StoppedEntitled DEF Fail
<1> QED BY <1>2, <1>3, <1>4, <1>5, <1>6 DEF Run

LEMMA StepDrafted ==
    ASSUME LedgerInv, PublicationInv, NEW r \in Runs, Run(r)
    PROVE  Drafted(r)'
<1> DEFINE to == pc'[r]
           Own(a) == a.author = r /\ a.tag = Target(r)
<1>1. Drafted(r) /\ Maps
  BY DEF PublicationInv, LedgerInv
<1>2. CASE to \notin {"create", "readback", "upload", "check", "publish"}
  BY <1>2 DEF Drafted
<1>3. CASE CreateTag(r)
  <2>1. to = "create" /\ releases' = releases /\ Target(r) \notin refs /\ plan' = plan
    BY <1>1, <1>3 DEF CreateTag, Step, Maps, Occupied
  <2>2. \A a \in releases : a.author = r => a.tag \in refs
    BY RunAssumption DEF PublicationInv, Authored
  <2>3. Target(r)' = Target(r)
    BY <2>1 DEF Target
  <2> QED BY <2>1, <2>2, <2>3 DEF Drafted
<1>4. CASE CreateRelease(r) \/ CreateAmbiguous(r)
  <2>1. /\ to \in {"upload", "readback"} /\ (to = "upload" => held'[r] = r)
        /\ plan' = plan /\ releases' \subseteq releases \cup {Draft(r)}
        /\ \A a \in releases : ~Own(a)
    BY <1>1, <1>4 DEF CreateRelease, CreateAmbiguous, Step, Maps, Drafted
  <2>2. Target(r)' = Target(r)
    BY <2>1 DEF Target
  <2>3. Draft(r).number = plan[r].number
    BY DEF Draft
  <2>4. \A a \in releases' : Own(a) => a.number = plan[r].number
    BY <2>1, <2>3
  <2> QED BY <2>1, <2>2, <2>4 DEF Drafted
<1>5. CASE Reconcile(r)
  <2>1. /\ to = "upload" /\ held'[r] = Draft(r).author /\ pc[r] = "readback"
        /\ releases' = releases /\ plan' = plan
    BY <1>1, <1>5 DEF Reconcile, Step, Maps, github
  <2>2. Target(r)' = Target(r)
    BY <2>1 DEF Target
  <2> QED BY <1>1, <2>1, <2>2 DEF Drafted, Draft
<1>6. CASE Upload(r)
  <2>1. to = "check" /\ held'[r] = r /\ pc[r] = "upload" /\ plan' = plan
    BY <1>1, <1>6 DEF Upload, Step, Maps, Drafted
  <2>2. Target(r)' = Target(r)
    BY <2>1 DEF Target
  <2>3. PICK b \in Mine(r), arrived \in BOOLEAN :
           releases' = (releases \ {b}) \cup {[b EXCEPT !.complete = arrived]}
    BY <1>6 DEF Upload, Rewrite
  <2>4. /\ b \in Release /\ b \in releases /\ Own(b)
    BY <2>1, <2>3, MineIsDraft DEF LedgerInv, Sets
  <2>5. [b EXCEPT !.complete = arrived].number = b.number
    BY <2>4 DEF Release
  <2>6. \A a \in releases' : Own(a) => a.number = plan[r].number
    BY <1>1, <2>1, <2>3, <2>4, <2>5 DEF Drafted
  <2> QED BY <2>1, <2>2, <2>6 DEF Drafted
<1>7. CASE Check(r)
  <2>1. /\ to = "publish" /\ pc[r] = "check" /\ held[r] = r /\ held' = held
        /\ releases' = releases /\ plan' = plan
    BY <1>1, <1>7 DEF Check, Step, Maps, Drafted, github
  <2>2. PICK b \in releases : b.author = r /\ b.tag = Target(r) /\ b.complete
    BY <1>7, <2>1 DEF Check, Mine
  <2>3. \A a \in releases : a.author = r /\ a.tag = Target(r) => a = b
    BY <2>2, RunAssumption DEF PublicationInv, OneDraft
  <2>4. Target(r)' = Target(r)
    BY <2>1 DEF Target
  <2> QED BY <1>1, <2>1, <2>2, <2>3, <2>4 DEF Drafted
<1>8. CASE ~(CreateTag(r) \/ CreateRelease(r) \/ CreateAmbiguous(r) \/ Reconcile(r)
             \/ Upload(r) \/ Check(r))
  <2>1. to \notin {"create", "readback", "upload", "check", "publish"}
    <3> USE <1>1 DEF Step, Stop, Maps
    <3>1. CASE Start(r) \/ Fail(r)
      BY <3>1 DEF Start, Fail
    <3>2. CASE Prepare(r)
      BY <3>2 DEF Prepare, ClosedPushCycle, ReadReservation, Allocate, Reserve
    <3>3. CASE BeginPublication(r)
      BY <3>3 DEF BeginPublication, VerifyCandidate, SelectCandidate, Superseded,
                  ReadFloor, Confirm, Advance
    <3>4. CASE PublishPrepared(r)
      BY <1>8, <3>4 DEF PublishPrepared, Publish
    <3> QED BY <3>1, <3>2, <3>3, <3>4 DEF Run
  <2> QED BY <1>2, <2>1
<1> QED BY <1>3, <1>4, <1>5, <1>6, <1>7, <1>8

\* Two runs never publish under one tag: GitHub creates it for one of them.
LEMMA StepDistinct ==
    ASSUME LedgerInv, PublicationInv, NEW r \in Runs, Run(r)
    PROVE  DistinctTargets'
<1>1. \A s \in Runs \ {r} : SameRun(s)
  BY OthersUnchanged DEF LedgerInv
<1>2. \A s \in Runs \ {r} : Target(s)' = Target(s)
  BY <1>1 DEF SameRun, Target
<1>3. ASSUME pc'[r] \in Transacting, ~CreateTag(r)
      PROVE  pc[r] \in Transacting /\ plan'[r] = plan[r]
  <2> USE <1>3 DEF Step, Stop, Transacting, LedgerInv, Maps
  <2>1. PublishPrepared(r)
    <3>1. ~Start(r) /\ ~Fail(r)
      BY DEF Start, Fail
    <3>2. ~Prepare(r)
      BY DEF Prepare, ClosedPushCycle, ReadReservation, Allocate, Reserve
    <3>3. ~BeginPublication(r)
      BY DEF BeginPublication, VerifyCandidate, SelectCandidate, Superseded, ReadFloor,
             Confirm, Advance
    <3> QED BY <3>1, <3>2, <3>3 DEF Run
  <2> QED BY <2>1 DEF PublishPrepared, CreateRelease, CreateAmbiguous, Reconcile, Upload,
                      Check, Publish
<1>4. ASSUME pc'[r] \in Transacting, NEW s \in Runs \ {r}, pc[s] \in Transacting
      PROVE  Target(r)' # Target(s)
  <2>1. CASE CreateTag(r)
    <3>1. Target(r) \notin refs /\ Target(r)' = Target(r)
      BY <2>1 DEF CreateTag, Occupied, Target
    <3>2. Target(s) \in refs
      BY <1>4 DEF PublicationInv, Entitled
    <3> QED BY <3>1, <3>2
  <2>2. CASE ~CreateTag(r)
    <3>1. pc[r] \in Transacting /\ Target(r)' = Target(r)
      BY <1>3, <1>4, <2>2 DEF Target
    <3> QED BY <1>4, <3>1 DEF PublicationInv, DistinctTargets
  <2> QED BY <2>1, <2>2
<1> QED BY <1>1, <1>2, <1>4 DEF DistinctTargets, SameRun, PublicationInv

\* What becomes public is new under its tag, complete and backed.
LEMMA StepShipped ==
    ASSUME LedgerInv, PublicationInv, NEW r \in Runs, Run(r), Grown, WellFormed(ledger)'
    PROVE  TagsShipOnce' /\ ShippedIsReserved' /\ \A a \in shipped' : a.author # Nobody
<1>1. /\ TagsShipOnce /\ ShippedIsReserved
      /\ shipped \subseteq Release
      /\ \A a \in shipped : a.author # Nobody
      /\ ledger.floor \in Nat /\ ledger'.floor \in Nat
      /\ Sets'
  BY SetsStep DEF PublicationInv, LedgerInv, Sets, WellFormed, Ledger
<1>2. \A a \in shipped' : a.author # Nobody
  BY <1>1, StepReleases, RunAssumption
<1>3. \A a \in shipped' :
         /\ a \in Release /\ a.complete /\ a.tag \in refs
         /\ a.number <= ledger.floor /\ Backed(a)
  BY <1>1, StepReleases DEF ShippedIsReserved, Sets
<1>4. ShippedIsReserved'
  <2> SUFFICES ASSUME NEW a \in shipped'
               PROVE  /\ a.complete /\ a.tag \in refs'
                      /\ a.number <= ledger'.floor /\ Backed(a)'
    BY DEF ShippedIsReserved
  <2>1. a.number \in Nat
    BY <1>3 DEF Release
  <2> QED BY <1>1, <1>2, <1>3, <2>1, BackedGrows DEF Grown
<1>5. TagsShipOnce'
  <2>1. \A a \in shipped' : a \in shipped \/ (pc[r] = "publish" /\ a.tag = Target(r))
    BY StepReleases
  <2>2. pc[r] = "publish" => \A a \in shipped : a.tag # Target(r)
    BY DEF PublicationInv, Entitled, Transacting
  <2>3. \A a \in shipped', b \in shipped' : a \notin shipped /\ b \notin shipped => a = b
    BY StepReleases
  <2> QED BY <1>1, <2>1, <2>2, <2>3 DEF TagsShipOnce
<1> QED BY <1>2, <1>4, <1>5
-------------------------------------------------------------------------------
\* A step of one run leaves what another may rely on.
LEMMA OtherRun ==
    ASSUME LedgerInv, PublicationInv, NEW r \in Runs, Run(r), Grown, WellFormed(ledger)',
           NEW s \in Runs \ {r}
    PROVE  Entitled(s)' /\ Drafted(s)'
<1>1. SameRun(s)
  BY OthersUnchanged DEF LedgerInv
<1>2. pc[s] \in Transacting => \A a \in shipped' : a \in shipped \/ a.tag # Target(s)
  <2>1. pc[r] = "publish" => pc[r] \in Transacting
    BY DEF Transacting
  <2> QED BY <2>1, StepReleases DEF PublicationInv, DistinctTargets
<1>3. Entitled(s)'
  BY <1>1, <1>2, EntitledKept DEF SameRun, NoFurther
<1>4. \A a \in releases' : a.author = s => a \in releases
  BY StepReleases
<1>5. Target(s)' = Target(s)
  BY <1>1 DEF SameRun, Target
<1>6. Drafted(s)'
  BY <1>1, <1>4, <1>5 DEF PublicationInv, Drafted, SameRun
<1> QED BY <1>3, <1>6

\* Nothing done by hand gives a run a draft or makes anything public.
LEMMA ByHandPublication ==
    ASSUME LedgerInv, PublicationInv, ByHand, LedgerInv'
    PROVE  PublicationInv'
<1>1. /\ ledger' = ledger /\ refs' = refs /\ shipped' = shipped
      /\ pc' = pc /\ plan' = plan /\ held' = held
  BY DEF ByHand, DraftByHand, DeleteByHand
<1>2. \A a \in releases' : a \in releases \/ (a.author = Nobody /\ ~a.public)
  <2>1. CASE DraftByHand
    <3>1. PICK r \in Runs : releases' = releases \cup
                              {[Draft(r) EXCEPT !.number = 0, !.author = Nobody]}
      BY <2>1 DEF DraftByHand
    <3> QED BY <3>1 DEF Draft
  <2>2. CASE DeleteByHand
    BY <2>2 DEF DeleteByHand
  <2> QED BY <2>1, <2>2 DEF ByHand
<1>3. \A r \in Runs : Entitled(r)' /\ Drafted(r)'
  BY <1>1, <1>2, RunAssumption
     DEF PublicationInv, Entitled, Drafted, Target, Candidate, Reserved
<1>4. (\A a \in releases : Authored(a))' /\ OneDraft'
  BY <1>1, <1>2 DEF PublicationInv, Authored, OneDraft, Backed, Reserved
<1>5. DistinctTargets' /\ TagsShipOnce' /\ ShippedIsReserved'
      /\ \A a \in shipped' : a.author # Nobody
  BY <1>1 DEF PublicationInv, DistinctTargets, Target, TagsShipOnce, ShippedIsReserved,
              Backed, Reserved
<1> QED BY <1>3, <1>4, <1>5 DEF PublicationInv

LEMMA InitPublicationInv == Init => PublicationInv
BY DEF Init, PublicationInv, Entitled, Drafted, Publishing, Holding, Transacting, OneDraft,
       DistinctTargets, TagsShipOnce, ShippedIsReserved

LEMMA NextPublicationInv ==
    LedgerInv /\ LedgerInv' /\ PublicationInv /\ [Next]_vars => PublicationInv'
<1> SUFFICES ASSUME LedgerInv, LedgerInv', PublicationInv, [Next]_vars
             PROVE  PublicationInv'
  OBVIOUS
<1>1. ASSUME NEW r \in Runs, Run(r)
      PROVE  PublicationInv'
  <2>1. Grown /\ WellFormed(ledger)' /\ Sets'
    BY <1>1, StepGrows DEF LedgerInv
  <2>2. \A s \in Runs : Entitled(s)' /\ Drafted(s)'
    <3>1. \A s \in Runs \ {r} : Entitled(s)' /\ Drafted(s)'
      BY <1>1, <2>1, OtherRun
    <3> QED BY <1>1, <2>1, <3>1, StepEntitled, StepDrafted
  <2>3. (\A a \in releases : Authored(a))' /\ OneDraft'
    BY <1>1, <2>1, StepAuthored
  <2>4. DistinctTargets' /\ TagsShipOnce' /\ ShippedIsReserved'
        /\ \A a \in shipped' : a.author # Nobody
    BY <1>1, <2>1, StepDistinct, StepShipped
  <2> QED BY <2>2, <2>3, <2>4 DEF PublicationInv
<1>2. CASE ByHand
  BY <1>2, ByHandPublication
<1>3. CASE UNCHANGED vars
  BY <1>3 DEF vars, github, PublicationInv, Entitled, Drafted, Authored, OneDraft, Target,
       DistinctTargets, TagsShipOnce, ShippedIsReserved, Backed, Candidate, Reserved
<1> QED BY <1>1, <1>2, <1>3 DEF Next

LEMMA AlwaysPublicationInv == Spec => []PublicationInv
BY InitPublicationInv, NextPublicationInv, AlwaysLedgerInv, PTL DEF Spec
-------------------------------------------------------------------------------
(***************************************************************************)
(* No tag becomes public twice, whatever runs overlap and whatever is      *)
(* deleted (_create_tag_and_release).                                      *)
(***************************************************************************)
THEOREM TagsOnce == Spec => []TagsShipOnce
<1>1. PublicationInv => TagsShipOnce
  BY DEF PublicationInv
<1> QED BY <1>1, AlwaysPublicationInv, PTL

(***************************************************************************)
(* What is public is complete, consumed and backed by a reservation or a   *)
(* published candidate (begin_publication, _publish_prepared).             *)
(***************************************************************************)
THEOREM ShippedReserved == Spec => []ShippedIsReserved
<1>1. PublicationInv => ShippedIsReserved
  BY DEF PublicationInv
<1> QED BY <1>1, AlwaysPublicationInv, PTL

(***************************************************************************)
(* A run uploads into, checks and publishes no draft but its own           *)
(* (_reconcile_created_release).                                           *)
(***************************************************************************)
THEOREM DraftsOwned == Spec => []OwnDraft
<1>1. PublicationInv => OwnDraft
  BY DEF PublicationInv, Drafted, OwnDraft
<1> QED BY <1>1, AlwaysPublicationInv, PTL
-------------------------------------------------------------------------------
(***************************************************************************)
(* With the concurrency group, one run is active at a time; its number was *)
(* compared with a floor that lies above everything public, and nothing    *)
(* became public since.                                                    *)
(***************************************************************************)
Ahead(r, a) == \/ a.number < plan[r].number
               \/ Channel[r] = "promote" /\ a.number = plan[r].number

OneActive == \A r, s \in Runs : r # s /\ pc[r] \in Active => pc[s] \notin Active

OrderInv ==
    /\ OneActive
    /\ \A r \in Runs :
          /\ pc[r] = "advance" /\ Channel[r] # "promote" => plan[r].number > snap[r].floor
          /\ pc[r] \in {"tag"} \cup Transacting => \A a \in shipped : Ahead(r, a)

\* Once a run has consumed its number, everything public lies behind it.
LEMMA AdvancedIsAhead ==
    ASSUME LedgerInv, PublicationInv, OrderInv, NEW r \in Runs, Advance(r)
    PROVE  \A a \in shipped : Ahead(r, a)'
<1>1. /\ pc[r] = "advance" /\ ledger = snap[r] /\ shipped' = shipped /\ plan' = plan
      /\ snap[r].floor <= plan[r].number
      /\ plan[r] \in Plan
  BY DEF Advance, WriteState, Step, LedgerInv, RunInv, Holding
<1>2. Channel[r] # "promote" => plan[r].number > ledger.floor
  BY <1>1 DEF OrderInv
<1>3. \A a \in shipped : a.number <= ledger.floor /\ a.number \in Nat
  BY DEF PublicationInv, ShippedIsReserved, LedgerInv, Sets, Release
<1>4. ledger.floor \in Nat /\ plan[r].number \in Nat
  BY <1>1 DEF LedgerInv, WellFormed, Ledger, Plan
<1> QED BY <1>1, <1>2, <1>3, <1>4 DEF Ahead

\* A run that acts is active, unless it starts.
LEMMA ActsWhenActive ==
    ASSUME NEW r \in Runs, Run(r), ~Start(r)
    PROVE  pc[r] \in Active
<1> USE DEF Step, Active, Preparing, Publishing, Transacting
<1>1. CASE Prepare(r)
  BY <1>1 DEF Prepare, ClosedPushCycle, ReadReservation, Allocate, Reserve
<1>2. CASE BeginPublication(r)
  BY <1>2 DEF BeginPublication, VerifyCandidate, SelectCandidate, Superseded, ReadFloor,
              Confirm, Advance
<1>3. CASE PublishPrepared(r)
  BY <1>3 DEF PublishPrepared, CreateTag, CreateRelease, CreateAmbiguous, Reconcile,
              Upload, Check, Publish
<1> QED BY <1>1, <1>2, <1>3 DEF Run, Fail

\* The group admits one run at a time.
LEMMA StepOneActive ==
    ASSUME Grouped, LedgerInv, OneActive, NEW r \in Runs, Run(r)
    PROVE  OneActive'
<1>1. \A s \in Runs \ {r} : pc'[s] = pc[s]
  BY OthersUnchanged DEF LedgerInv, SameRun
<1>2. CASE Start(r)
  <2>1. \A s \in Runs : pc[s] \notin Active
    BY <1>2 DEF Start, MayStart
  <2> QED BY <1>1, <2>1 DEF OneActive
<1>3. CASE ~Start(r)
  BY <1>1, <1>3, ActsWhenActive DEF OneActive
<1> QED BY <1>2, <1>3

LEMMA StepOrder ==
    ASSUME Grouped, LedgerInv, PublicationInv, OrderInv, NEW r \in Runs, Run(r)
    PROVE  OrderInv'
<1> DEFINE to == pc'[r]
<1>1. OneActive' /\ Maps
  BY StepOneActive DEF OrderInv, LedgerInv
<1>2. ASSUME NEW s \in Runs \ {r}
      PROVE  pc'[s] \notin {"advance", "tag"} \cup Transacting
  <2>1. pc'[s] = pc[s]
    BY OthersUnchanged DEF LedgerInv, SameRun
  <2>2. pc[r] \in Active => pc[s] \notin Active
    BY DEF OrderInv, OneActive
  <2>3. pc[r] \in Active \/ pc[s] \notin Active
    BY ActsWhenActive DEF Start, MayStart
  <2> QED BY <2>1, <2>2, <2>3 DEF Active, Publishing
<1>3. to = "advance" /\ Channel[r] # "promote" => plan'[r].number > snap'[r].floor
  <2> SUFFICES ASSUME to = "advance", Channel[r] # "promote"
               PROVE  plan'[r].number > snap'[r].floor
    OBVIOUS
  <2>1. Confirm(r)
    <3> USE <1>1 DEF Step, Stop, Maps, Transacting
    <3>1. ~Start(r) /\ ~Fail(r)
      BY DEF Start, Fail
    <3>2. ~Prepare(r)
      BY DEF Prepare, ClosedPushCycle, ReadReservation, Allocate, Reserve
    <3>3. ~PublishPrepared(r)
      BY DEF PublishPrepared, CreateTag, CreateRelease, CreateAmbiguous, Reconcile, Upload,
             Check, Publish
    <3>4. BeginPublication(r)
      BY <3>1, <3>2, <3>3 DEF Run
    <3> QED BY <3>4 DEF BeginPublication, VerifyCandidate, SelectCandidate, Superseded,
                        ReadFloor, Advance
  <2> QED BY <2>1 DEF Confirm, Verified, VerifyReservation
<1>4. to \in {"tag"} \cup Transacting => \A a \in shipped' : Ahead(r, a)'
  <2> SUFFICES ASSUME to \in {"tag"} \cup Transacting
               PROVE  \A a \in shipped' : Ahead(r, a)'
    OBVIOUS
  <2>1. CASE Advance(r)
    BY <2>1, AdvancedIsAhead DEF Advance
  <2>2. CASE ~Advance(r)
    <3>1. pc[r] \in {"tag"} \cup Transacting /\ plan' = plan /\ shipped' = shipped
      <4> USE <1>1 DEF Step, Stop, Maps, Transacting
      <4>1. ~Start(r) /\ ~Fail(r)
        BY DEF Start, Fail
      <4>2. ~Prepare(r)
        BY DEF Prepare, ClosedPushCycle, ReadReservation, Allocate, Reserve
      <4>3. ~BeginPublication(r)
        BY <2>2 DEF BeginPublication, VerifyCandidate, SelectCandidate, Superseded,
                    ReadFloor, Confirm
      <4>4. PublishPrepared(r)
        BY <4>1, <4>2, <4>3 DEF Run
      <4> QED BY <4>4 DEF PublishPrepared, CreateTag, CreateRelease, CreateAmbiguous,
                          Reconcile, Upload, Check, Publish, github
    <3> QED BY <3>1 DEF OrderInv, Ahead
  <2> QED BY <2>1, <2>2
<1> QED BY <1>1, <1>2, <1>3, <1>4 DEF OrderInv

LEMMA AlwaysOrderInv ==
    ASSUME Grouped
    PROVE  Spec => []OrderInv
<1>1. Init => OrderInv
  BY DEF Init, OrderInv, OneActive, Active, Preparing, Publishing, Transacting
<1>2. LedgerInv /\ PublicationInv /\ OrderInv /\ [Next]_vars => OrderInv'
  <2> SUFFICES ASSUME LedgerInv, PublicationInv, OrderInv, [Next]_vars
               PROVE  OrderInv'
    OBVIOUS
  <2>1. CASE ByHand \/ UNCHANGED vars
    BY <2>1 DEF ByHand, DraftByHand, DeleteByHand, vars, github, OrderInv, OneActive, Ahead
  <2> QED BY <2>1, StepOrder DEF Next
<1> QED BY <1>1, <1>2, AlwaysLedgerInv, AlwaysPublicationInv, PTL DEF Spec

\* What a run makes public is newer than everything public, or its stable copy.
LEMMA PublishesInOrder ==
    ASSUME LedgerInv, PublicationInv, OrderInv, NEW r \in Runs, Run(r),
           NEW new \in shipped' \ shipped, NEW old \in shipped
    PROVE  \/ old.number < new.number
           \/ old.number = new.number /\ new.tag = Stable(old.tag.base)
<1>1. pc[r] = "publish" /\ new.tag = Target(r) /\ new.number = plan[r].number
  BY StepReleases
<1>2. Ahead(r, old)
  BY <1>1 DEF OrderInv, Transacting
<1>3. CASE Channel[r] = "promote" /\ old.number = plan[r].number
  <2>1. Candidate(r, plan[r])
    BY <1>1, <1>3 DEF PublicationInv, Entitled, Holding, Transacting
  <2>2. PICK p \in Reserved(ledger) :
           p.number = old.number /\ (p.tag = old.tag \/ old.tag = Stable(p.tag.base))
    BY DEF PublicationInv, ShippedIsReserved, Backed
  <2>3. p = plan[r]
    BY <1>3, <2>1, <2>2 DEF Candidate, Reserved, LedgerInv, WellFormed
  <2>4. old.tag.base = Base[r]
    BY <2>1, <2>2, <2>3 DEF Candidate, Stable
  <2> QED BY <1>1, <1>3, <2>4 DEF Target
<1> QED BY <1>1, <1>2, <1>3 DEF Ahead

(***************************************************************************)
(* With the workflow's concurrency group in force, nothing older than what *)
(* is or was public becomes public, except the stable copy of the newest,  *)
(* though runs fail and are rerun and releases are deleted                 *)
(* (begin_publication, verify_promotion_order).                            *)
(***************************************************************************)
THEOREM PublicationOrdered ==
    ASSUME Grouped
    PROVE  Spec => NoDowngrade
<1> DEFINE InOrder == \A new \in shipped' \ shipped : \A old \in shipped :
                         \/ old.number < new.number
                         \/ old.number = new.number /\ new.tag = Stable(old.tag.base)
<1>1. LedgerInv /\ PublicationInv /\ OrderInv /\ [Next]_vars => [InOrder]_vars
  <2> SUFFICES ASSUME LedgerInv, PublicationInv, OrderInv, Next
               PROVE  InOrder
    OBVIOUS
  <2>1. CASE ByHand
    BY <2>1 DEF ByHand, DraftByHand, DeleteByHand
  <2> QED BY <2>1, PublishesInOrder DEF Next
<1> QED BY <1>1, AlwaysOrderInv, AlwaysLedgerInv, AlwaysPublicationInv, PTL DEF Spec, NoDowngrade
-------------------------------------------------------------------------------
(***************************************************************************)
(* ReleaseLedger implements ReleaseNumbers when the workflow serializes    *)
(* its runs, for every set of runs and every assignment of channels.       *)
(***************************************************************************)

\* The refinement mapping.
issued == [r \in Runs |-> IF ledger.plans[r] = NoPlan THEN 0 ELSE ledger.plans[r].number]
Entry(release) == [number |-> release.number, stable |-> release.tag.channel = "stable"]
published == {[number |-> release.number, stable |-> release.tag.channel = "stable"] :
                 release \in shipped}

\* Writing a reservation issues a number larger than all that were issued.
LEMMA ReserveIssues ==
    ASSUME LedgerInv, NEW r \in Runs, Reserve(r)
    PROVE  /\ issued[r] = 0 /\ issued'[r] \in Nat
           /\ \A s \in Runs : issued'[r] > issued[s]
           /\ issued' = [issued EXCEPT ![r] = issued'[r]]
<1>1. /\ ledger = snap[r] /\ pc[r] = "reserve"
      /\ ledger' = [ledger EXCEPT !.counter = plan[r].number, !.plans[r] = plan[r]]
      /\ WellFormed(ledger) /\ ledger \in Ledger
  BY DEF Reserve, WriteState, Step, LedgerInv, WellFormed
<1>2. /\ New(r) /\ ledger.plans[r] = NoPlan
      /\ plan[r] \in Plan /\ plan[r] # NoPlan /\ plan[r].number \in Nat
      /\ plan[r].number > ledger.counter
  BY <1>1, NoPlanAssumption DEF LedgerInv, RunInv, New, Plan
<1>3. ledger'.plans = [ledger.plans EXCEPT ![r] = plan[r]]
  BY <1>1 DEF Ledger
<1>4. \A s \in Runs : ledger.plans[s] = NoPlan \/ ledger.plans[s] \in Plan
  BY <1>1 DEF Ledger
<1>5. \A s \in Runs : issued[s] \in Nat /\ issued[s] <= ledger.counter
  BY <1>1, <1>4 DEF issued, WellFormed, Ledger, Plan
<1>6. issued'[r] = plan[r].number /\ \A s \in Runs \ {r} : issued'[s] = issued[s]
  BY <1>1, <1>2, <1>3 DEF issued, Ledger
<1>7. issued[r] = 0 /\ issued'[r] \in Nat
  BY <1>2, <1>6 DEF issued
<1>8. \A s \in Runs : issued'[r] > issued[s]
  BY <1>1, <1>2, <1>5, <1>6 DEF Ledger
<1>9. issued' = [issued EXCEPT ![r] = issued'[r]]
  BY <1>6 DEF issued
<1> QED BY <1>7, <1>8, <1>9

\* No other step of a run issues a number.
LEMMA OnlyReserveIssues ==
    ASSUME LedgerInv, NEW r \in Runs, Run(r), ~Reserve(r)
    PROVE  issued' = issued
<1>1. ledger \in Ledger
  BY DEF LedgerInv, WellFormed
<1>2. ledger'.plans = ledger.plans
  <2>1. CASE Start(r) \/ Fail(r)
    BY <2>1 DEF Start, Fail, github
  <2>2. CASE Prepare(r)
    BY <2>2 DEF Prepare, ClosedPushCycle, ReadReservation, Allocate, github
  <2>3. CASE Advance(r)
    <3>1. ledger' = [ledger EXCEPT !.floor = plan[r].number]
      BY <2>3 DEF Advance, WriteState
    <3> QED BY <1>1, <3>1 DEF Ledger
  <2>4. CASE BeginPublication(r) /\ ~Advance(r)
    BY <2>4 DEF BeginPublication, VerifyCandidate, SelectCandidate, Superseded, ReadFloor,
                Confirm, github
  <2>5. CASE PublishPrepared(r)
    BY <2>5 DEF PublishPrepared, CreateTag, CreateRelease, CreateAmbiguous, Reconcile,
                Upload, Check, Publish, github
  <2> QED BY <2>1, <2>2, <2>3, <2>4, <2>5 DEF Run
<1> QED BY <1>2 DEF issued

\* What becomes public is the number of its run, or the stable copy of the largest.
LEMMA NewIsPublishedOrPromoted ==
    ASSUME LedgerInv, PublicationInv, OrderInv, NEW r \in Runs, Run(r),
           NEW new \in shipped' \ shipped
    PROVE  \/ /\ issued[r] # 0 /\ Entry(new) = [number |-> issued[r], stable |-> FALSE]
              /\ \A old \in published : old.number < issued[r]
           \/ \E candidate \in published :
                 /\ ~candidate.stable
                 /\ \A old \in published : old.number <= candidate.number
                 /\ Entry(new) = [number |-> candidate.number, stable |-> TRUE]
<1>1. pc[r] = "publish" /\ new.tag = Target(r) /\ new.number = plan[r].number
  BY StepReleases
<1>2. /\ pc[r] \in Publishing /\ pc[r] \in Holding /\ pc[r] \in Transacting
      /\ plan[r] \in Plan /\ plan[r] # NoPlan
  BY <1>1, NoPlanAssumption DEF Publishing, Holding, Transacting, LedgerInv, RunInv
<1>3. \A old \in shipped : Ahead(r, old)
  BY <1>2 DEF OrderInv
<1>4. plan[r].number \in Nat /\ \A old \in shipped : old.number \in Nat
  BY <1>2 DEF Plan, LedgerInv, Sets, Release
<1>5. CASE Channel[r] # "promote"
  <2>1. ledger.plans[r] = plan[r]
    BY <1>2, <1>5 DEF PublicationInv, Entitled
  <2>2. OwnLine(r, plan[r]) /\ plan[r].number > 0
    BY <1>2, <2>1 DEF LedgerInv, WellFormed
  <2>3. issued[r] = plan[r].number /\ issued[r] # 0
    BY <1>2, <1>4, <2>1, <2>2 DEF issued
  <2>4. new.tag.channel # "stable"
    BY <1>1, <1>5, <2>2, RunAssumption DEF Target, OwnLine, Channels
  <2>5. \A old \in published : old.number < issued[r]
    BY <1>3, <1>5, <2>3 DEF published, Ahead
  <2> QED BY <1>1, <2>3, <2>4, <2>5 DEF Entry
<1>6. CASE Channel[r] = "promote"
  <2>1. Candidate(r, plan[r])
    BY <1>2, <1>6 DEF PublicationInv, Entitled
  <2>2. PICK rc \in shipped : rc.tag = plan[r].tag
    BY <2>1 DEF Candidate
  <2>3. rc.tag.channel = "rc"
    BY <2>1, <2>2 DEF Candidate
  <2>4. rc.number = plan[r].number
    <3>1. PICK p \in Reserved(ledger) :
             /\ p.number = rc.number
             /\ p.tag = rc.tag \/ rc.tag = Stable(p.tag.base)
      BY DEF PublicationInv, ShippedIsReserved, Backed
    <3>2. p.tag = plan[r].tag
      BY <2>2, <2>3, <3>1 DEF Stable
    <3> QED BY <2>1, <3>1, <3>2 DEF Candidate, Reserved, LedgerInv, WellFormed
  <2> DEFINE candidate == Entry(rc)
  <2>5. candidate = [number |-> plan[r].number, stable |-> FALSE]
    BY <2>3, <2>4 DEF Entry
  <2>6. candidate \in published
    BY DEF published, Entry
  <2>7. \A old \in published : old.number <= plan[r].number
    BY <1>3, <1>4 DEF published, Ahead
  <2>8. Entry(new) = [number |-> plan[r].number, stable |-> TRUE]
    <3>1. new.number = plan[r].number /\ (new.tag.channel = "stable") = TRUE
      BY <1>1, <1>6 DEF Target, Stable
    <3> QED BY <3>1, Zenon DEF Entry
  <2> HIDE DEF candidate
  <2>9. Entry(new) = [number |-> candidate.number, stable |-> TRUE]
    BY <2>5, <2>8
  <2>10. ~candidate.stable /\ \A old \in published : old.number <= candidate.number
    BY <2>5, <2>7
  <2> QED BY <2>6, <2>9, <2>10
<1> QED BY <1>5, <1>6

\* Either nothing becomes public, or one release does.
LEMMA PublishedGrows ==
    ASSUME LedgerInv, PublicationInv, NEW r \in Runs, Run(r)
    PROVE  \/ published' = published
           \/ \E new \in shipped' \ shipped : published' = published \cup {Entry(new)}
<1>1. shipped \subseteq shipped'
  BY StepGrows DEF Grown
<1>2. CASE shipped' = shipped
  BY <1>2 DEF published
<1>3. CASE shipped' # shipped
  <2>1. PICK new \in shipped' \ shipped : TRUE
    BY <1>1, <1>3
  <2>2. shipped' = shipped \cup {new}
    BY <1>1, <2>1, StepReleases
  <2>3. published' = published \cup {Entry(new)}
    BY <2>2 DEF published, Entry
  <2> QED BY <2>1, <2>3
<1> QED BY <1>2, <1>3
-------------------------------------------------------------------------------
(***************************************************************************)
(* The release engine keeps its promise: with the workflow's concurrency   *)
(* group in force, numbers are issued once in ascending order, published   *)
(* in ascending order, and promoted only while they are the largest        *)
(* (reserve_plan, begin_publication, promote).                             *)
(***************************************************************************)
THEOREM LedgerImplementsNumbers ==
    ASSUME Grouped
    PROVE  Spec => ImplementsNumbers
<1>1. Init => Numbers!Init
  BY DEF Init, EmptyLedger, Numbers!Init
<1>2. LedgerInv /\ PublicationInv /\ OrderInv /\ [Next]_vars => [Numbers!Next]_(Numbers!vars)
  <2> SUFFICES ASSUME LedgerInv, PublicationInv, OrderInv, [Next]_vars
               PROVE  Numbers!Next \/ (issued' = issued /\ published' = published)
    BY DEF Numbers!vars, issued, published
  <2>1. CASE ByHand \/ UNCHANGED vars
    BY <2>1 DEF ByHand, DraftByHand, DeleteByHand, vars, github, issued, published
  <2>2. ASSUME NEW r \in Runs, Run(r)
        PROVE  Numbers!Next \/ (issued' = issued /\ published' = published)
    <3>1. CASE Reserve(r)
      <4>1. published' = published
        BY <3>1 DEF Reserve, published
      <4>2. Numbers!Issue(r)
        BY <3>1, <4>1, ReserveIssues DEF Numbers!Issue, issued, published
      <4> QED BY <4>2 DEF Numbers!Next
    <3>2. CASE ~Reserve(r)
      <4>1. issued' = issued
        BY <2>2, <3>2, OnlyReserveIssues
      <4>2. CASE published' = published
        BY <4>1, <4>2
      <4>3. CASE published' # published
        <5>1. PICK new \in shipped' \ shipped : published' = published \cup {Entry(new)}
          BY <2>2, <4>3, PublishedGrows
        <5>2. CASE /\ issued[r] # 0 /\ Entry(new) = [number |-> issued[r], stable |-> FALSE]
                   /\ \A old \in published : old.number < issued[r]
          <6>1. Numbers!Publish(r)
            BY <4>1, <5>1, <5>2 DEF Numbers!Publish, issued, published
          <6> QED BY <6>1 DEF Numbers!Next
        <5>3. ASSUME NEW candidate \in published,
                     ~candidate.stable,
                     \A old \in published : old.number <= candidate.number,
                     Entry(new) = [number |-> candidate.number, stable |-> TRUE]
              PROVE  Numbers!Next
          <6>1. Numbers!Promote(candidate)
            BY <4>1, <5>1, <5>3 DEF Numbers!Promote, issued, published
          <6> QED BY <6>1 DEF Numbers!Next, published
        <5> QED BY <2>2, <5>2, <5>3, NewIsPublishedOrPromoted
      <4> QED BY <4>2, <4>3
    <3> QED BY <3>1, <3>2
  <2> QED BY <2>1, <2>2 DEF Next
<1> QED BY <1>1, <1>2, AlwaysOrderInv, AlwaysLedgerInv, AlwaysPublicationInv, PTL
        DEF Spec, ImplementsNumbers, Numbers!Spec
===============================================================================
