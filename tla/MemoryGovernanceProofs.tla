----------------------- MODULE MemoryGovernanceProofs -----------------------
(***************************************************************************)
(* Proofs about MemoryGovernance.  For any number of handlers: the types,  *)
(* that rivals are left both approved only by a handler that was stopped,  *)
(* and that a conflict is listed once.  When handlers run one at a time (a *)
(* run shows that two are enough to break it): that the ledger is          *)
(* append-only and a readable history, and that resolutions have their     *)
(* reviews.                                                                *)
(***************************************************************************)
EXTENDS MemoryGovernance, FiniteSetTheorems, TLAPS

\* What a handler holds at each of its steps.
RequestOK(r) ==
    /\ r.pc \in {"save_scan", "save_latest"} => r.op = "scan"
    /\ r.pc \in {"read_status", "read_ledger", "save_ledger"} =>
            r.op \in {"review", "resolve"} /\ r.decisions # <<>>
    /\ r.pc = "save_ledger" => r.held \in Seq(Event)
    /\ r.pc = "save_resolutions" => r.held \in Seq(Resolution)
    /\ r.pc \in {"read_resolutions", "save_resolutions"} => r.op = "resolve"
    /\ r.op = "resolve" => Len(r.pair) = 2

TypeInv ==
    /\ TypeOK
    /\ \A w \in Workers : worker[w] # Idle => RequestOK(worker[w])

LEMMA EffectiveType ==
  ASSUME NEW claim \in Claims, NEW events \in Seq(Event)
  PROVE  Effective(claim, events) \in Statuses
<1>. DEFINE IsLatest(i) == /\ events[i].claim = claim
                           /\ \A j \in DOMAIN events : events[j].claim = claim => j <= i
            last == CHOOSE i \in DOMAIN events : IsLatest(i)
<1>1. CASE \E i \in DOMAIN events : IsLatest(i)
  <2>1. last \in DOMAIN events
    BY <1>1
  <2>2. events[last] \in Event
    BY <2>1
  <2>3. events[last].new \in Statuses
    BY <2>2 DEF Event
  <2>. QED  BY <1>1, <2>3 DEF Effective
<1>2. CASE ~\E i \in DOMAIN events : IsLatest(i)
  <2>1. Effective(claim, events) = Status[claim]
    BY <1>2 DEF Effective
  <2>. QED  BY <2>1, ConstantsAssumption
<1>. QED  BY <1>1, <1>2

\* Giving one worker a proper request, or none, keeps the others'.
LEMMA WorkerFrame ==
  ASSUME TypeInv, NEW w \in Workers, NEW r \in {Idle} \cup Busy, r # Idle => RequestOK(r),
         worker' = [worker EXCEPT ![w] = r]
  PROVE  /\ worker' \in [Workers -> {Idle} \cup Busy]
         /\ \A v \in Workers : worker'[v] # Idle => RequestOK(worker'[v])
<1>1. worker \in [Workers -> {Idle} \cup Busy]
  BY DEF TypeInv, TypeOK
<1>2. worker' \in [Workers -> {Idle} \cup Busy]
  BY <1>1
<1>3. ASSUME NEW v \in Workers, worker'[v] # Idle PROVE RequestOK(worker'[v])
  <2>1. CASE v = w
    BY <1>1, <1>3, <2>1
  <2>2. CASE v # w
    <3>1. worker'[v] = worker[v] /\ worker[v] # Idle
      BY <1>1, <1>3, <2>2
    <3>2. RequestOK(worker[v])
      BY <3>1 DEF TypeInv
    <3>. QED  BY <3>1, <3>2
  <2>. QED  BY <2>1, <2>2
<1>. QED  BY <1>2, <1>3

LEMMA AtPc ==
  ASSUME TypeInv, NEW w \in Workers, worker[w].pc \in Pcs
  PROVE  worker[w] # Idle /\ worker[w] \in Busy /\ RequestOK(worker[w])
<1>1. worker[w] # Idle
  BY DEF Idle, Pcs
<1>. QED  BY <1>1 DEF TypeInv, TypeOK

LEMMA ServeType ==
  ASSUME TypeInv, NEW w \in Workers, NEW op \in Ops, NEW pc \in Pcs, NEW scan \in Scans,
         NEW pair \in Seq(Claims), NEW decisions \in Seq(Decision),
         RequestOK([pc |-> pc, op |-> op, id |-> requests + 1, scan |-> scan, pair |-> pair,
                    decisions |-> decisions, previous |-> "candidate", held |-> <<>>]),
         Serve(w, op, pc, scan, pair, decisions)
  PROVE  TypeInv'
<1>. DEFINE r == [pc |-> pc, op |-> op, id |-> requests + 1, scan |-> scan, pair |-> pair,
                  decisions |-> decisions, previous |-> "candidate", held |-> <<>>]
<1>1. requests \in Nat /\ requests + 1 \in Nat
  BY DEF TypeInv, TypeOK
<1>2. <<>> \in Seq(Event) /\ "candidate" \in Statuses
  BY DEF Statuses
<1>3. r \in Busy
  BY <1>1, <1>2 DEF Busy
<1>4. worker' = [worker EXCEPT ![w] = r]
  BY DEF Serve
<1>5. /\ worker' \in [Workers -> {Idle} \cup Busy]
      /\ \A v \in Workers : worker'[v] # Idle => RequestOK(worker'[v])
  <2>. HIDE DEF r
  <2>. QED  BY <1>3, <1>4, WorkerFrame DEF r
<1>6. requests' \in Nat /\ UNCHANGED <<stores, aborts>>
  BY <1>1 DEF Serve
<1>. QED  BY <1>5, <1>6 DEF TypeInv, TypeOK, stores, RequestOK

LEMMA RequestType ==
  ASSUME TypeInv, NEW w \in Workers, Request(w)
  PROVE  TypeInv'
<1>. USE DEF Ops, Pcs
<1>1. ASSUME NEW scan \in Scans, Scan(w, scan) PROVE TypeInv'
  <2>1. Serve(w, "scan", "save_scan", scan, <<>>, <<>>)
    BY <1>1 DEF Scan
  <2>2. <<>> \in Seq(Claims) /\ <<>> \in Seq(Decision)
    OBVIOUS
  <2>. QED  BY <2>1, <2>2, ServeType DEF RequestOK
<1>2. ASSUME NEW scan \in Scans, NEW claim \in Claims, NEW new \in Decisions,
             ReviewClaim(w, scan, claim, new)
      PROVE  TypeInv'
  <2>. DEFINE decisions == <<[claim |-> claim, new |-> new]>>
  <2>1. Serve(w, "review", "read_status", scan, <<>>, decisions)
    BY <1>2 DEF ReviewClaim
  <2>2. [claim |-> claim, new |-> new] \in Decision
    BY ConstantsAssumption DEF Decision
  <2>3. decisions \in Seq(Decision) /\ decisions # <<>> /\ <<>> \in Seq(Claims)
    BY <2>2
  <2>. HIDE DEF decisions
  <2>. QED  BY <2>1, <2>3, ServeType DEF RequestOK
<1>3. ASSUME NEW scan \in Scans, NEW winner \in Claims, NEW loser \in Claims,
             ResolveConflict(w, scan, winner, loser)
      PROVE  TypeInv'
  <2>. DEFINE decisions == <<[claim |-> winner, new |-> "approved"],
                             [claim |-> loser, new |-> "rejected"]>>
              pair == <<winner, loser>>
  <2>1. Serve(w, "resolve", "read_status", scan, pair, decisions)
    BY <1>3 DEF ResolveConflict
  <2>2. [claim |-> winner, new |-> "approved"] \in Decision
        /\ [claim |-> loser, new |-> "rejected"] \in Decision
    BY DEF Decision, Statuses
  <2>3. decisions \in Seq(Decision) /\ decisions # <<>>
    BY <2>2
  <2>4. pair \in Seq(Claims) /\ Len(pair) = 2
    OBVIOUS
  <2>. HIDE DEF decisions, pair
  <2>. QED  BY <2>1, <2>3, <2>4, ServeType DEF RequestOK
<1>. QED  BY <1>1, <1>2, <1>3 DEF Request

\* The event a handler adds to the ledger it holds.
ReviewEvent(w) == [request |-> worker[w].id, claim |-> worker[w].decisions[1].claim,
                   previous |-> worker[w].previous, new |-> worker[w].decisions[1].new]

LEMMA HeadType ==
  ASSUME NEW decisions \in Seq(Decision), decisions # <<>>
  PROVE  /\ decisions[1] \in Decision
         /\ decisions[1].claim \in Claims /\ decisions[1].new \in Statuses
         /\ Tail(decisions) \in Seq(Decision)
<1>1. decisions[1] \in Decision
  OBVIOUS
<1>2. Tail(decisions) \in Seq(Decision)
  OBVIOUS
<1>. QED  BY <1>1, <1>2 DEF Decision

LEMMA SaveLedgerForm ==
  ASSUME TypeInv, NEW w \in Workers, SaveLedger(w)
  PROVE  /\ worker[w].held \in Seq(Event) /\ ReviewEvent(w) \in Event
         /\ ledger' = Append(worker[w].held, ReviewEvent(w))
         /\ UNCHANGED <<scans, latest, resolutions, bounds>>
         /\ \/ Return(w)
            \/ /\ worker[w].op = "resolve"
               /\ worker' = [worker EXCEPT
                    ![w].decisions = Tail(worker[w].decisions),
                    ![w].pc = IF Tail(worker[w].decisions) = <<>> THEN "read_resolutions"
                              ELSE "read_status"]
<1>1. worker[w] \in Busy /\ RequestOK(worker[w]) /\ worker[w].pc = "save_ledger"
  BY AtPc DEF SaveLedger, At, Pcs
<1>2. /\ worker[w].held \in Seq(Event) /\ worker[w].decisions \in Seq(Decision)
      /\ worker[w].decisions # <<>> /\ worker[w].id \in Nat /\ worker[w].previous \in Statuses
      /\ worker[w].op \in {"review", "resolve"}
  BY <1>1 DEF Busy, RequestOK
<1>3. worker[w].decisions[1].claim \in Claims /\ worker[w].decisions[1].new \in Statuses
  BY <1>2, HeadType
<1>4. ReviewEvent(w) \in Event
  BY <1>2, <1>3 DEF ReviewEvent, Event
<1>. QED  BY <1>2, <1>4 DEF SaveLedger, ReviewEvent

LEMMA StepType ==
  ASSUME TypeInv, NEW w \in Workers, Step(w)
  PROVE  TypeInv'
<1>. DEFINE self == worker[w]
<1>0. self \in Busy /\ RequestOK(self) /\ self.pc \in Pcs
  <2>1. self.pc \in Pcs
    BY DEF Step, SaveScan, SaveLatest, ReadStatus, ReadLedger, SaveLedger, ReadResolutions,
           SaveResolutions, At, Pcs
  <2>. QED  BY <2>1, AtPc
<1>1. /\ self.scan \in Scans /\ self.id \in Nat /\ self.pair \in Seq(Claims)
      /\ self.decisions \in Seq(Decision) /\ self.previous \in Statuses
      /\ self.held \in Seq(Event) \cup Seq(Resolution) /\ self.op \in Ops
  BY <1>0 DEF Busy
<1>2. worker \in [Workers -> {Idle} \cup Busy]
  BY DEF TypeInv, TypeOK
<1>3. ASSUME Return(w)
      PROVE  /\ worker' \in [Workers -> {Idle} \cup Busy]
             /\ \A v \in Workers : worker'[v] # Idle => RequestOK(worker'[v])
  BY <1>3, WorkerFrame DEF Return
<1>4. ASSUME NEW pc \in Pcs, NEW decisions \in Seq(Decision), NEW previous \in Statuses,
             NEW held \in Seq(Event) \cup Seq(Resolution),
             RequestOK([self EXCEPT !.pc = pc, !.decisions = decisions, !.previous = previous,
                                    !.held = held]),
             worker' = [worker EXCEPT ![w] =
                        [self EXCEPT !.pc = pc, !.decisions = decisions, !.previous = previous,
                                     !.held = held]]
      PROVE  /\ worker' \in [Workers -> {Idle} \cup Busy]
             /\ \A v \in Workers : worker'[v] # Idle => RequestOK(worker'[v])
  <2>. DEFINE r == [self EXCEPT !.pc = pc, !.decisions = decisions, !.previous = previous,
                                !.held = held]
  <2>1. r \in Busy
    BY <1>0 DEF Busy
  <2>. HIDE DEF r
  <2>. QED  BY <1>4, <2>1, WorkerFrame DEF r
<1>. DEFINE Next4(pc, decisions, previous, held) ==
              [self EXCEPT !.pc = pc, !.decisions = decisions, !.previous = previous,
                           !.held = held]
<1>5. ASSUME NEW pc, NEW decisions, NEW previous, NEW held
      PROVE  /\ Next4(pc, decisions, previous, held).pc = pc
             /\ Next4(pc, decisions, previous, held).decisions = decisions
             /\ Next4(pc, decisions, previous, held).held = held
             /\ Next4(pc, decisions, previous, held).op = self.op
             /\ Next4(pc, decisions, previous, held).pair = self.pair
  BY <1>0 DEF Busy
<1>6. CASE SaveScan(w)
  <2>1. worker' = [worker EXCEPT ![w] =
                     Next4("save_latest", self.decisions, self.previous, self.held)]
    BY <1>0, <1>2, <1>6 DEF SaveScan, GoTo, Busy
  <2>2. RequestOK(Next4("save_latest", self.decisions, self.previous, self.held))
    <3>. HIDE DEF Next4
    <3>. QED  BY <1>0, <1>5, <1>6 DEF SaveScan, At, RequestOK
  <2>. QED  BY <1>1, <1>4, <1>6, <2>1, <2>2 DEF SaveScan, TypeInv, TypeOK, bounds, Pcs
<1>7. CASE SaveLatest(w)
  BY <1>1, <1>3, <1>7 DEF SaveLatest, TypeInv, TypeOK, bounds
<1>8. CASE ReadStatus(w)
  <2>. DEFINE status == Effective(self.decisions[1].claim, ledger)
  <2>1. self.decisions # <<>> /\ self.op \in {"review", "resolve"}
    BY <1>0, <1>8 DEF ReadStatus, At, RequestOK
  <2>2. status \in Statuses
    BY <1>1, <2>1, HeadType, EffectiveType DEF TypeInv, TypeOK
  <2>. HIDE DEF status
  <2>3. worker' = [worker EXCEPT ![w] = Next4("read_ledger", self.decisions, status, self.held)]
    BY <1>0, <1>2, <1>8 DEF ReadStatus, Busy, status
  <2>4. RequestOK(Next4("read_ledger", self.decisions, status, self.held))
    <3>. HIDE DEF Next4
    <3>. QED  BY <1>0, <1>5, <2>1 DEF RequestOK
  <2>. QED  BY <1>1, <1>4, <1>8, <2>2, <2>3, <2>4
            DEF ReadStatus, TypeInv, TypeOK, bounds, stores, Pcs
<1>9. CASE ReadLedger(w)
  <2>1. self.decisions # <<>> /\ self.op \in {"review", "resolve"} /\ ledger \in Seq(Event)
    BY <1>0, <1>9 DEF ReadLedger, At, RequestOK, TypeInv, TypeOK
  <2>2. worker' = [worker EXCEPT ![w] =
                     Next4("save_ledger", self.decisions, self.previous, ledger)]
    BY <1>0, <1>2, <1>9 DEF ReadLedger, Busy
  <2>3. RequestOK(Next4("save_ledger", self.decisions, self.previous, ledger))
    <3>. HIDE DEF Next4
    <3>. QED  BY <1>0, <1>5, <2>1 DEF RequestOK
  <2>. QED  BY <1>1, <1>4, <1>9, <2>1, <2>2, <2>3
            DEF ReadLedger, TypeInv, TypeOK, bounds, stores, Pcs
<1>10. CASE SaveLedger(w)
  <2>1. /\ ledger' \in Seq(Event) /\ scans' = scans /\ latest' = latest
        /\ resolutions' = resolutions /\ requests' = requests /\ aborts' = aborts
    <3>1. /\ self.held \in Seq(Event) /\ ReviewEvent(w) \in Event
          /\ ledger' = Append(self.held, ReviewEvent(w))
          /\ UNCHANGED <<scans, latest, resolutions, bounds>>
      BY <1>10, SaveLedgerForm
    <3>. HIDE DEF self
    <3>. QED  BY <3>1 DEF bounds
  <2>2. CASE Return(w)
    BY <1>3, <2>1, <2>2 DEF TypeInv, TypeOK
  <2>3. CASE /\ self.op = "resolve"
             /\ worker' = [worker EXCEPT
                    ![w].decisions = Tail(self.decisions),
                    ![w].pc = IF Tail(self.decisions) = <<>> THEN "read_resolutions"
                              ELSE "read_status"]
    <3>. DEFINE rest == Tail(self.decisions)
                pc == IF rest = <<>> THEN "read_resolutions" ELSE "read_status"
    <3>1. rest \in Seq(Decision)
      BY <1>0, <1>1, <1>10, HeadType DEF SaveLedger, At, RequestOK
    <3>2. pc \in Pcs /\ (pc = "read_status" => rest # <<>>) /\ pc \in {"read_resolutions", "read_status"}
      BY DEF Pcs
    <3>. HIDE DEF rest, pc
    <3>3. worker' = [worker EXCEPT ![w] = Next4(pc, rest, self.previous, self.held)]
      BY <1>0, <1>2, <2>3 DEF Busy, rest, pc
    <3>4. RequestOK(Next4(pc, rest, self.previous, self.held))
      <4>. HIDE DEF Next4
      <4>. QED  BY <1>0, <1>5, <2>3, <3>2 DEF RequestOK
    <3>. QED  BY <1>1, <1>4, <2>1, <3>1, <3>2, <3>3, <3>4 DEF TypeInv, TypeOK
  <2>. QED  BY <1>10, <2>2, <2>3, SaveLedgerForm
<1>11. CASE ReadResolutions(w)
  <2>1. self.op = "resolve" /\ resolutions \in Seq(Resolution)
    BY <1>0, <1>11 DEF ReadResolutions, At, RequestOK, TypeInv, TypeOK
  <2>2. worker' = [worker EXCEPT ![w] =
                     Next4("save_resolutions", self.decisions, self.previous, resolutions)]
    BY <1>0, <1>2, <1>11 DEF ReadResolutions, Busy
  <2>3. RequestOK(Next4("save_resolutions", self.decisions, self.previous, resolutions))
    <3>. HIDE DEF Next4
    <3>. QED  BY <1>0, <1>5, <2>1 DEF RequestOK
  <2>. QED  BY <1>1, <1>4, <1>11, <2>1, <2>2, <2>3
            DEF ReadResolutions, TypeInv, TypeOK, bounds, stores, Pcs
<1>12. CASE SaveResolutions(w)
  <2>. DEFINE resolution == [request |-> self.id, winner |-> self.pair[1], loser |-> self.pair[2]]
  <2>1. self.held \in Seq(Resolution) /\ Len(self.pair) = 2
    BY <1>0, <1>12 DEF SaveResolutions, At, RequestOK
  <2>2. self.pair[1] \in Claims /\ self.pair[2] \in Claims
    BY <1>1, <2>1
  <2>3. resolution \in Resolution
    BY <1>1, <2>2 DEF Resolution
  <2>4. resolutions' \in Seq(Resolution)
    <3>. HIDE DEF resolution
    <3>1. resolutions' = Append(self.held, resolution)
      BY <1>12 DEF SaveResolutions, resolution
    <3>. QED  BY <2>1, <2>3, <3>1
  <2>. QED  BY <1>3, <1>12, <2>4 DEF SaveResolutions, TypeInv, TypeOK, bounds
<1>. QED  BY <1>6, <1>7, <1>8, <1>9, <1>10, <1>11, <1>12 DEF Step

LEMMA TypeAlways == Spec => []TypeInv
<1>1. Init => TypeInv
  BY DEF Init, TypeInv, TypeOK
<1>2. ASSUME TypeInv, [Next]_vars PROVE TypeInv'
  <2>1. CASE UNCHANGED vars
    BY <1>2, <2>1 DEF vars, stores, TypeInv, TypeOK, RequestOK
  <2>2. ASSUME NEW w \in Workers, Abort(w) PROVE TypeInv'
    <3>1. /\ worker' \in [Workers -> {Idle} \cup Busy]
          /\ \A v \in Workers : worker'[v] # Idle => RequestOK(worker'[v])
      BY <1>2, <2>2, WorkerFrame DEF Abort, Return
    <3>2. UNCHANGED stores /\ requests' = requests /\ aborts' \in Nat
      BY <1>2, <2>2 DEF Abort, TypeInv, TypeOK
    <3>. QED  BY <1>2, <3>1, <3>2 DEF stores, TypeInv, TypeOK
  <2>. QED  BY <1>2, <2>1, <2>2, RequestType, StepType DEF Next
<1>. QED  BY <1>1, <1>2, PTL DEF Spec

\* Scans, ledgers and handlers have their types, whatever interleaves: what a
\* handler appends to is always a ledger.
THEOREM TypeCorrect == Spec => []TypeOK
<1>1. TypeInv => TypeOK
  BY DEF TypeInv
<1>. QED  BY <1>1, TypeAlways, PTL

-----------------------------------------------------------------------------
(* Handlers that run one at a time *)

\* What the only handler there is holds of the ledger is still true when it
\* writes.
AloneInv ==
    /\ \A w \in Workers :
        /\ worker[w].pc \in {"read_ledger", "save_ledger"} =>
                worker[w].previous = Effective(worker[w].decisions[1].claim, ledger)
        /\ worker[w].pc = "save_ledger" => worker[w].held = ledger
    /\ LedgerChains

LEMMA AppendFacts ==
  ASSUME NEW s \in Seq(Event), NEW e \in Event
  PROVE  /\ Len(Append(s, e)) = Len(s) + 1
         /\ \A i \in 1..Len(s) : Append(s, e)[i] = s[i]
         /\ Append(s, e)[Len(s) + 1] = e
         /\ DOMAIN Append(s, e) = 1..(Len(s) + 1)
         /\ \A i \in 1..(Len(s) + 1) :
                SubSeq(Append(s, e), 1, i - 1) = SubSeq(s, 1, i - 1)
         /\ SubSeq(s, 1, Len(s)) = s
  OBVIOUS

LEMMA ChainsGrow ==
  ASSUME TypeInv, AloneInv, NEW e \in Event, ledger' = Append(ledger, e),
         e.previous = Effective(e.claim, ledger)
  PROVE  LedgerChains'
<1>0. ledger \in Seq(Event) /\ Len(ledger) \in Nat /\ DOMAIN ledger = 1..Len(ledger)
  BY DEF TypeInv, TypeOK
<1>1. ASSUME NEW i \in DOMAIN ledger'
      PROVE  ledger'[i].previous = Effective(ledger'[i].claim, SubSeq(ledger', 1, i - 1))
  <2>1. i \in 1..(Len(ledger) + 1) /\ SubSeq(ledger', 1, i - 1) = SubSeq(ledger, 1, i - 1)
    BY <1>0, <1>1, AppendFacts
  <2>2. CASE i = Len(ledger) + 1
    <3>1. SubSeq(ledger, 1, i - 1) = ledger /\ ledger'[i] = e
      BY <1>0, <2>2, AppendFacts
    <3>. QED  BY <2>1, <3>1
  <2>3. CASE i # Len(ledger) + 1
    <3>1. i \in DOMAIN ledger /\ ledger'[i] = ledger[i]
      BY <1>0, <2>1, <2>3, AppendFacts
    <3>2. ledger[i].previous = Effective(ledger[i].claim, SubSeq(ledger, 1, i - 1))
      BY <3>1 DEF AloneInv, LedgerChains
    <3>. QED  BY <2>1, <3>1, <3>2
  <2>. QED  BY <2>2, <2>3
<1>. QED  BY <1>1 DEF LedgerChains, Effective

LEMMA AloneStep ==
  ASSUME \A v, w \in Workers : v = w, TypeInv, AloneInv, [Next]_vars
  PROVE  AloneInv' /\ (ledger' # ledger => \E e \in Event : ledger' = Append(ledger, e))
<1>0. worker \in [Workers -> {Idle} \cup Busy]
  BY DEF TypeInv, TypeOK
<1>. DEFINE Fresh == \A v \in Workers :
                /\ worker'[v].pc \in {"read_ledger", "save_ledger"} =>
                        worker'[v].previous = Effective(worker'[v].decisions[1].claim, ledger')
                /\ worker'[v].pc = "save_ledger" => worker'[v].held = ledger'
<1>1. ASSUME ledger' = ledger, Fresh PROVE AloneInv'
  <2>1. LedgerChains'
    <3>1. LedgerChains
      BY DEF AloneInv
    <3>. QED  BY <1>1, <3>1 DEF LedgerChains
  <2>. QED  BY <1>1, <2>1 DEF AloneInv
<1>2. CASE UNCHANGED vars
  <2>1. ledger' = ledger /\ worker' = worker
    BY <1>2 DEF vars, stores
  <2>2. Fresh
    BY <2>1 DEF AloneInv
  <2>. QED  BY <1>1, <2>1, <2>2
<1>3. ASSUME NEW w \in Workers, ledger' = ledger,
             worker'[w].pc \notin {"read_ledger", "save_ledger"}
      PROVE  AloneInv'
  BY <1>1, <1>3
<1>4. ASSUME NEW w \in Workers, Return(w) PROVE worker'[w].pc = "idle"
  BY <1>0, <1>4 DEF Return, Idle
<1>5. ASSUME NEW w \in Workers, Request(w) PROVE AloneInv' /\ ledger' = ledger
  <2>1. ASSUME NEW op, NEW pc \in {"save_scan", "read_status"}, NEW scan, NEW pair, NEW decisions,
               Serve(w, op, pc, scan, pair, decisions)
        PROVE  ledger' = ledger /\ worker'[w].pc \notin {"read_ledger", "save_ledger"}
    BY <1>0, <2>1 DEF Serve, stores
  <2>2. ledger' = ledger /\ worker'[w].pc \notin {"read_ledger", "save_ledger"}
    BY <1>5, <2>1 DEF Request, Scan, ReviewClaim, ResolveConflict
  <2>. QED  BY <1>3, <2>2
<1>6. ASSUME NEW w \in Workers, Abort(w) PROVE AloneInv' /\ ledger' = ledger
  BY <1>3, <1>4, <1>6 DEF Abort, stores
<1>7. ASSUME NEW w \in Workers, SaveScan(w) \/ SaveLatest(w) \/ ReadResolutions(w) \/ SaveResolutions(w)
      PROVE  AloneInv' /\ ledger' = ledger
  <2>1. worker[w] \in Busy
    BY <1>7, AtPc DEF SaveScan, SaveLatest, ReadResolutions, SaveResolutions, At, Pcs
  <2>2. ledger' = ledger
    BY <1>7 DEF SaveScan, SaveLatest, ReadResolutions, SaveResolutions, stores
  <2>3. worker'[w].pc \notin {"read_ledger", "save_ledger"}
    BY <1>0, <1>4, <1>7, <2>1 DEF SaveScan, SaveLatest, ReadResolutions, SaveResolutions, GoTo, Busy
  <2>. QED  BY <1>3, <2>2, <2>3
<1>8. ASSUME NEW w \in Workers, ReadStatus(w) PROVE AloneInv' /\ ledger' = ledger
  <2>1. worker[w] \in Busy
    BY <1>8, AtPc DEF ReadStatus, At, Pcs
  <2>2. /\ ledger' = ledger /\ worker'[w].pc = "read_ledger"
        /\ worker'[w].decisions = worker[w].decisions
        /\ worker'[w].previous = Effective(worker[w].decisions[1].claim, ledger)
    BY <1>0, <1>8, <2>1 DEF ReadStatus, stores, Busy
  <2>3. Fresh
    BY <2>2
  <2>. QED  BY <1>1, <2>2, <2>3
<1>9. ASSUME NEW w \in Workers, ReadLedger(w) PROVE AloneInv' /\ ledger' = ledger
  <2>1. worker[w] \in Busy /\ worker[w].pc = "read_ledger"
    BY <1>9, AtPc DEF ReadLedger, At, Pcs
  <2>2. /\ ledger' = ledger /\ worker'[w].held = ledger
        /\ worker'[w].decisions = worker[w].decisions
        /\ worker'[w].previous = worker[w].previous
    BY <1>0, <1>9, <2>1 DEF ReadLedger, stores, Busy
  <2>3. worker[w].previous = Effective(worker[w].decisions[1].claim, ledger)
    BY <2>1 DEF AloneInv
  <2>4. Fresh
    BY <2>2, <2>3
  <2>. QED  BY <1>1, <2>2, <2>4
<1>10. ASSUME NEW w \in Workers, SaveLedger(w)
       PROVE  AloneInv' /\ \E e \in Event : ledger' = Append(ledger, e)
  <2>1. worker[w] \in Busy /\ worker[w].pc = "save_ledger"
    BY <1>10, AtPc DEF SaveLedger, At, Pcs
  <2>2. /\ worker[w].held = ledger
        /\ worker[w].previous = Effective(worker[w].decisions[1].claim, ledger)
    BY <2>1 DEF AloneInv
  <2>3. ReviewEvent(w) \in Event /\ ledger' = Append(ledger, ReviewEvent(w))
    BY <1>10, <2>2, SaveLedgerForm
  <2>4. ReviewEvent(w).previous = Effective(ReviewEvent(w).claim, ledger)
    BY <2>2 DEF ReviewEvent
  <2>5. LedgerChains'
    BY <2>3, <2>4, ChainsGrow
  <2>6. worker'[w].pc \notin {"read_ledger", "save_ledger"}
    <3>1. CASE Return(w)
      BY <1>4, <3>1
    <3>2. CASE ~Return(w)
      <4>. DEFINE rest == Tail(worker[w].decisions)
                  pc == IF rest = <<>> THEN "read_resolutions" ELSE "read_status"
      <4>1. worker' = [worker EXCEPT ![w].decisions = rest, ![w].pc = pc]
        BY <1>10, <3>2, SaveLedgerForm
      <4>2. pc \in {"read_resolutions", "read_status"}
        OBVIOUS
      <4>. HIDE DEF rest, pc
      <4>3. worker'[w].pc = pc
        BY <1>0, <2>1, <4>1 DEF Busy
      <4>. QED  BY <4>2, <4>3
    <3>. QED  BY <3>1, <3>2
  <2>7. Fresh
    BY <2>6
  <2>. QED  BY <2>3, <2>5, <2>7 DEF AloneInv, Effective
<1>. QED  BY <1>2, <1>5, <1>6, <1>7, <1>8, <1>9, <1>10 DEF Next, Step, vars, stores

LEMMA AloneAlways ==
  ASSUME \A v, w \in Workers : v = w
  PROVE  Spec => [](TypeInv /\ AloneInv)
<1>1. Init => AloneInv
  BY DEF Init, AloneInv, LedgerChains, Idle
<1>2. TypeInv /\ AloneInv /\ [Next]_vars => AloneInv'
  BY AloneStep
<1>. QED  BY <1>1, <1>2, TypeAlways, PTL DEF Spec

\* When handlers run one at a time the ledger is append-only ...
THEOREM AppendOnlyAlone ==
  ASSUME \A v, w \in Workers : v = w
  PROVE  Spec => LedgerIsAppendOnly
<1>1. TypeInv /\ AloneInv /\ [Next]_vars =>
        [/\ Len(ledger') = Len(ledger) + 1
         /\ \A i \in 1..Len(ledger) : ledger'[i] = ledger[i]]_ledger
  <2>. SUFFICES ASSUME TypeInv, AloneInv, [Next]_vars, ledger' # ledger
                PROVE  /\ Len(ledger') = Len(ledger) + 1
                       /\ \A i \in 1..Len(ledger) : ledger'[i] = ledger[i]
    OBVIOUS
  <2>1. PICK e \in Event : ledger' = Append(ledger, e)
    BY AloneStep
  <2>2. ledger \in Seq(Event)
    BY DEF TypeInv, TypeOK
  <2>. QED  BY <2>1, <2>2, AppendFacts
<1>. QED  BY <1>1, AloneAlways, PTL DEF Spec, LedgerIsAppendOnly

\* ... and each event comes from the status the event before it left, so that
\* the ledger of a claim is its history.
THEOREM ChainsAlone ==
  ASSUME \A v, w \in Workers : v = w
  PROVE  Spec => []LedgerChains
<1>1. AloneInv => LedgerChains
  BY DEF AloneInv
<1>. QED  BY <1>1, AloneAlways, PTL

-----------------------------------------------------------------------------
(* The plan of a resolution *)

Reviewing == {"read_status", "read_ledger", "save_ledger"}
Recording == {"read_resolutions", "save_resolutions"}

Approve(claim) == [claim |-> claim, new |-> "approved"]
Reject(claim) == [claim |-> claim, new |-> "rejected"]

\* A handler that resolves a conflict has both its reviews before it, or the
\* loser's only.
PlanOK(r) ==
    r.op = "resolve" =>
        /\ {r.pair[1], r.pair[2]} \in Rivals
        /\ r.pc \in Reviewing =>
            r.decisions \in {<<Approve(r.pair[1]), Reject(r.pair[2])>>, <<Reject(r.pair[2])>>}

Plans == \A w \in Workers : worker[w] # Idle => PlanOK(worker[w])

\* What a step leaves alone: the other handlers, and which request its handler
\* serves.
LEMMA StepForm ==
  ASSUME TypeInv, NEW w \in Workers, Step(w)
  PROVE  /\ worker[w] # Idle
         /\ worker'[w] # Idle =>
                /\ worker'[w].op = worker[w].op
                /\ worker'[w].id = worker[w].id
                /\ worker'[w].pair = worker[w].pair
         /\ \A v \in Workers : v # w => worker'[v] = worker[v]
<1>1. worker \in [Workers -> {Idle} \cup Busy]
  BY DEF TypeInv, TypeOK
<1>2. worker[w] # Idle /\ worker[w] \in Busy
  <2>1. worker[w].pc \in Pcs
    BY DEF Step, SaveScan, SaveLatest, ReadStatus, ReadLedger, SaveLedger, ReadResolutions,
           SaveResolutions, At, Pcs
  <2>. QED  BY <2>1, AtPc
<1>3. ASSUME Return(w) PROVE worker'[w] = Idle /\ \A v \in Workers : v # w => worker'[v] = worker[v]
  BY <1>1, <1>3 DEF Return
<1>4. CASE SaveScan(w) \/ ReadStatus(w) \/ ReadLedger(w) \/ ReadResolutions(w)
  BY <1>1, <1>2, <1>4 DEF SaveScan, ReadStatus, ReadLedger, ReadResolutions, GoTo, Busy
<1>5. CASE SaveLatest(w) \/ SaveResolutions(w)
  BY <1>2, <1>3, <1>5 DEF SaveLatest, SaveResolutions
<1>6. CASE SaveLedger(w) /\ ~Return(w)
  <2>. DEFINE rest == Tail(worker[w].decisions)
              pc == IF rest = <<>> THEN "read_resolutions" ELSE "read_status"
  <2>1. worker' = [worker EXCEPT ![w].decisions = rest, ![w].pc = pc]
    BY <1>6, SaveLedgerForm
  <2>. HIDE DEF rest, pc
  <2>. QED  BY <1>1, <1>2, <2>1 DEF Busy
<1>. QED  BY <1>2, <1>3, <1>4, <1>5, <1>6 DEF Step

\* What is before the handler after a step of a review.
LEMMA ReviewForm ==
  ASSUME TypeInv, NEW w \in Workers, Step(w), worker'[w] # Idle, worker[w].op = "resolve"
  PROVE  \/ /\ worker[w].pc \in {"read_status", "read_ledger"}
            /\ worker'[w].decisions = worker[w].decisions
            /\ worker'[w].pc \in {"read_ledger", "save_ledger"}
            /\ UNCHANGED stores
         \/ /\ SaveLedger(w)
            /\ worker'[w].decisions = Tail(worker[w].decisions)
            /\ worker'[w].pc = IF Tail(worker[w].decisions) = <<>> THEN "read_resolutions"
                               ELSE "read_status"
         \/ /\ ReadResolutions(w)
            /\ worker'[w].pc = "save_resolutions"
            /\ worker'[w].held = resolutions
<1>1. worker \in [Workers -> {Idle} \cup Busy]
  BY DEF TypeInv, TypeOK
<1>2. worker[w] \in Busy /\ RequestOK(worker[w])
  <2>1. worker[w].pc \in Pcs
    BY DEF Step, SaveScan, SaveLatest, ReadStatus, ReadLedger, SaveLedger, ReadResolutions,
           SaveResolutions, At, Pcs
  <2>. QED  BY <2>1, AtPc
<1>3. ~Return(w)
  BY <1>1 DEF Return
<1>4. CASE SaveScan(w) \/ SaveLatest(w) \/ SaveResolutions(w)
  BY <1>2, <1>3, <1>4 DEF SaveScan, SaveLatest, SaveResolutions, At, RequestOK
<1>5. CASE ReadStatus(w) \/ ReadLedger(w)
  BY <1>1, <1>2, <1>5 DEF ReadStatus, ReadLedger, At, Busy
<1>6. CASE SaveLedger(w)
  <2>. DEFINE rest == Tail(worker[w].decisions)
              pc == IF rest = <<>> THEN "read_resolutions" ELSE "read_status"
  <2>1. worker' = [worker EXCEPT ![w].decisions = rest, ![w].pc = pc]
    BY <1>3, <1>6, SaveLedgerForm
  <2>2. worker'[w].decisions = rest /\ worker'[w].pc = pc
    <3>. HIDE DEF rest, pc
    <3>. QED  BY <1>1, <1>2, <2>1 DEF Busy
  <2>. QED  BY <1>6, <2>2
<1>7. CASE ReadResolutions(w)
  BY <1>1, <1>2, <1>7 DEF ReadResolutions, Busy
<1>. QED  BY <1>4, <1>5, <1>6, <1>7 DEF Step

LEMMA TailFacts ==
  ASSUME NEW d, NEW e
  PROVE  Tail(<<d, e>>) = <<e>> /\ Tail(<<e>>) = <<>> /\ <<e>> # <<>> /\ <<d, e>> # <<e>>
         /\ <<d, e>>[1] = d /\ <<e>>[1] = e /\ Len(<<d, e>>) = 2 /\ Len(<<e>>) = 1
  OBVIOUS

LEMMA StepPlan ==
  ASSUME TypeInv, NEW w \in Workers, Step(w), PlanOK(worker[w]), worker'[w] # Idle
  PROVE  PlanOK(worker'[w])
<1>. DEFINE p == worker[w].pair
            d == worker[w].decisions
<1>1. worker'[w].op = worker[w].op /\ worker'[w].pair = p
  BY StepForm
<1>2. SUFFICES ASSUME worker[w].op = "resolve", worker'[w].pc \in Reviewing
               PROVE  worker'[w].decisions \in {<<Approve(p[1]), Reject(p[2])>>, <<Reject(p[2])>>}
  BY <1>1 DEF PlanOK
<1>3. worker[w].pc \in Reviewing => d \in {<<Approve(p[1]), Reject(p[2])>>, <<Reject(p[2])>>}
  BY <1>2 DEF PlanOK
<1>4. CASE worker[w].pc \in {"read_status", "read_ledger"} /\ worker'[w].decisions = d
  BY <1>3, <1>4 DEF Reviewing
<1>5. CASE /\ SaveLedger(w)
           /\ worker'[w].decisions = Tail(d)
           /\ worker'[w].pc = IF Tail(d) = <<>> THEN "read_resolutions" ELSE "read_status"
  <2>1. worker[w].pc \in Reviewing
    BY <1>5 DEF SaveLedger, At, Reviewing
  <2>2. d # <<Reject(p[2])>>
    BY <1>2, <1>5, TailFacts DEF Reviewing
  <2>3. d = <<Approve(p[1]), Reject(p[2])>>
    BY <1>3, <2>1, <2>2
  <2>4. Tail(d) = <<Reject(p[2])>>
    BY <2>3, TailFacts
  <2>. QED  BY <1>5, <2>4
<1>6. CASE worker'[w].pc = "save_resolutions"
  BY <1>2, <1>6 DEF Reviewing
<1>. QED  BY <1>2, <1>4, <1>5, <1>6, ReviewForm

\* A request starts with both reviews before it, and the others go on.
LEMMA RequestForm ==
  ASSUME TypeInv, NEW w \in Workers, Request(w)
  PROVE  /\ UNCHANGED stores /\ worker[w] = Idle
         /\ worker'[w] # Idle
         /\ worker'[w].pc \in {"save_scan", "read_status"}
         /\ worker'[w].op = "resolve" =>
                /\ {worker'[w].pair[1], worker'[w].pair[2]} \in Rivals
                /\ worker'[w].decisions =
                        <<Approve(worker'[w].pair[1]), Reject(worker'[w].pair[2])>>
         /\ worker'[w].op = "review" =>
                \E claim \in Claims, new \in Decisions :
                    worker'[w].decisions = <<[claim |-> claim, new |-> new]>>
         /\ \A v \in Workers : v # w => worker'[v] = worker[v]
<1>0. worker \in [Workers -> {Idle} \cup Busy]
  BY DEF TypeInv, TypeOK
<1>1. ASSUME NEW op, NEW pc \in {"save_scan", "read_status"}, NEW scan, NEW pair, NEW decisions,
             Serve(w, op, pc, scan, pair, decisions)
      PROVE  /\ UNCHANGED stores /\ worker[w] = Idle /\ worker'[w] # Idle
             /\ worker'[w].pc = pc /\ worker'[w].op = op /\ worker'[w].pair = pair
             /\ worker'[w].decisions = decisions
             /\ \A v \in Workers : v # w => worker'[v] = worker[v]
  <2>1. worker'[w] = [pc |-> pc, op |-> op, id |-> requests + 1, scan |-> scan, pair |-> pair,
                      decisions |-> decisions, previous |-> "candidate", held |-> <<>>]
    BY <1>0, <1>1 DEF Serve
  <2>2. worker'[w] # Idle
    BY <2>1 DEF Idle
  <2>. QED  BY <1>0, <1>1, <2>1, <2>2 DEF Serve
<1>2. ASSUME NEW scan \in Scans, Scan(w, scan)
      PROVE  Serve(w, "scan", "save_scan", scan, <<>>, <<>>)
  BY <1>2 DEF Scan
<1>3. ASSUME NEW scan \in Scans, NEW winner \in Claims, NEW loser \in Claims,
             ResolveConflict(w, scan, winner, loser)
      PROVE  /\ Serve(w, "resolve", "read_status", scan, <<winner, loser>>,
                      <<Approve(winner), Reject(loser)>>)
             /\ {winner, loser} \in Rivals
  BY <1>3 DEF ResolveConflict, Approve, Reject
<1>4. CASE \E scan \in Scans : Scan(w, scan)
  <2>1. PICK scan \in Scans : Scan(w, scan)
    BY <1>4
  <2>. QED  BY <1>1, <1>2, <2>1
<1>5. CASE \E scan \in Scans, claim \in Claims, new \in Decisions : ReviewClaim(w, scan, claim, new)
  <2>1. PICK scan \in Scans, claim \in Claims, new \in Decisions : ReviewClaim(w, scan, claim, new)
    BY <1>5
  <2>2. Serve(w, "review", "read_status", scan, <<>>, <<[claim |-> claim, new |-> new]>>)
    BY <2>1 DEF ReviewClaim
  <2>3. /\ UNCHANGED stores /\ worker[w] = Idle /\ worker'[w] # Idle
        /\ worker'[w].pc = "read_status" /\ worker'[w].op = "review"
        /\ worker'[w].decisions = <<[claim |-> claim, new |-> new]>>
        /\ \A v \in Workers : v # w => worker'[v] = worker[v]
    <3>. DEFINE decisions == <<[claim |-> claim, new |-> new]>>
    <3>. HIDE DEF decisions
    <3>. QED  BY <1>1, <2>2 DEF decisions
  <2>. QED  BY <2>3
<1>6. CASE \E scan \in Scans, winner, loser \in Claims : ResolveConflict(w, scan, winner, loser)
  <2>1. PICK scan \in Scans, winner \in Claims, loser \in Claims :
            ResolveConflict(w, scan, winner, loser)
    BY <1>6
  <2>2. /\ worker'[w].pair = <<winner, loser>> /\ UNCHANGED stores /\ worker[w] = Idle
        /\ worker'[w] # Idle /\ worker'[w].pc = "read_status" /\ worker'[w].op = "resolve"
        /\ worker'[w].decisions = <<Approve(winner), Reject(loser)>>
        /\ \A v \in Workers : v # w => worker'[v] = worker[v]
    <3>. DEFINE decisions == <<Approve(winner), Reject(loser)>>
                pair == <<winner, loser>>
    <3>1. Serve(w, "resolve", "read_status", scan, pair, decisions)
      BY <1>3, <2>1
    <3>. HIDE DEF decisions, pair
    <3>. QED  BY <1>1, <3>1 DEF decisions, pair
  <2>3. worker'[w].pair[1] = winner /\ worker'[w].pair[2] = loser /\ {winner, loser} \in Rivals
    <3>1. worker'[w].pair = <<winner, loser>>
      BY <2>2
    <3>2. worker'[w].pair[1] = winner /\ worker'[w].pair[2] = loser
      BY ONLY <3>1
    <3>. QED  BY <1>3, <2>1, <3>2
  <2>4. /\ {worker'[w].pair[1], worker'[w].pair[2]} \in Rivals
        /\ worker'[w].decisions = <<Approve(worker'[w].pair[1]), Reject(worker'[w].pair[2])>>
    BY <2>2, <2>3
  <2>5. UNCHANGED stores /\ worker[w] = Idle /\ worker'[w] # Idle
        /\ worker'[w].pc \in {"save_scan", "read_status"} /\ worker'[w].op # "review"
        /\ \A v \in Workers : v # w => worker'[v] = worker[v]
    BY <2>2
  <2>. QED  BY <2>4, <2>5
<1>. QED  BY <1>4, <1>5, <1>6 DEF Request

LEMMA PlansAlways == Spec => [](TypeInv /\ Plans)
<1>1. Init => Plans
  BY DEF Init, Plans
<1>2. ASSUME TypeInv, Plans, [Next]_vars PROVE Plans'
  <2>1. CASE UNCHANGED vars
    BY <1>2, <2>1 DEF vars, Plans
  <2>2. ASSUME NEW w \in Workers, Request(w) \/ Step(w) \/ Abort(w) PROVE Plans'
    <3>1. \A v \in Workers : v # w => worker'[v] = worker[v]
      <4>1. CASE Abort(w)
        BY <1>2, <4>1 DEF Abort, Return, TypeInv, TypeOK
      <4>. QED  BY <1>2, <2>2, <4>1, StepForm, RequestForm
    <3>2. worker'[w] # Idle => PlanOK(worker'[w])
      <4>1. CASE Request(w)
        BY <1>2, <4>1, RequestForm DEF PlanOK
      <4>2. CASE Step(w)
        <5>1. PlanOK(worker[w])
          BY <1>2, <4>2, StepForm DEF Plans
        <5>. QED  BY <1>2, <4>2, <5>1, StepPlan
      <4>3. CASE Abort(w)
        BY <1>2, <4>3 DEF Abort, Return, TypeInv, TypeOK
      <4>. QED  BY <2>2, <4>1, <4>2, <4>3
    <3>3. ASSUME NEW v \in Workers, worker'[v] # Idle PROVE PlanOK(worker'[v])
      <4>1. CASE v # w
        BY <1>2, <3>1, <3>3, <4>1 DEF Plans
      <4>. QED  BY <3>2, <3>3, <4>1
    <3>. QED  BY <3>3 DEF Plans
  <2>. QED  BY <1>2, <2>1, <2>2 DEF Next
<1>. QED  BY <1>1, <1>2, TypeAlways, PTL DEF Spec

-----------------------------------------------------------------------------
(* Request ids *)

\* The resolution that request id wrote is in the file, or in a copy of the file
\* that a handler is about to write back.
OnFile(id) ==
    \/ \E k \in DOMAIN resolutions : resolutions[k].request = id
    \/ \E w \in Workers : /\ worker[w] # Idle /\ worker[w].pc = "save_resolutions"
                          /\ \E k \in DOMAIN worker[w].held : worker[w].held[k].request = id

\* Requests have different ids, and one that is still reviewing is not on file.
IdsInv ==
    /\ \A w \in Workers : worker[w] # Idle => worker[w].id <= requests
    /\ \A v, w \in Workers : v # w /\ worker[v] # Idle /\ worker[w] # Idle =>
            worker[v].id # worker[w].id
    /\ \A id \in Nat : OnFile(id) => id <= requests
    /\ \A w \in Workers : worker[w] # Idle /\ worker[w].pc \in Reviewing => ~OnFile(worker[w].id)

LEMMA FreshId ==
  ASSUME TypeInv, NEW w \in Workers, Request(w)
  PROVE  requests' = requests + 1 /\ worker'[w].id = requests + 1
<1>1. ASSUME NEW op, NEW pc, NEW scan, NEW pair, NEW decisions,
             Serve(w, op, pc, scan, pair, decisions)
      PROVE  requests' = requests + 1 /\ worker'[w].id = requests + 1
  <2>1. worker'[w] = [pc |-> pc, op |-> op, id |-> requests + 1, scan |-> scan, pair |-> pair,
                      decisions |-> decisions, previous |-> "candidate", held |-> <<>>]
    BY <1>1 DEF Serve, TypeInv, TypeOK
  <2>. QED  BY <1>1, <2>1 DEF Serve
<1>2. \E op, pc, scan, pair, decisions : Serve(w, op, pc, scan, pair, decisions)
  BY Zenon DEF Request, Scan, ReviewClaim, ResolveConflict
<1>. QED  BY <1>1, <1>2

\* Whoever moves, the other handlers stay; a handler stays what it was.
LEMMA OthersStay ==
  ASSUME TypeInv, NEW w \in Workers, Request(w) \/ Step(w) \/ Abort(w)
  PROVE  /\ \A v \in Workers : v # w => worker'[v] = worker[v]
         /\ Abort(w) => worker'[w] = Idle
<1>1. CASE Abort(w)
  BY <1>1 DEF Abort, Return, TypeInv, TypeOK
<1>. QED  BY <1>1, StepForm, RequestForm

\* Where a handler comes from when it is about to save, or still reviewing.
LEMMA StepPc ==
  ASSUME TypeInv, NEW w \in Workers, Step(w), worker'[w] # Idle
  PROVE  /\ worker'[w].pc = "save_resolutions" => worker'[w].held = resolutions
         /\ worker'[w].pc \in Recording => worker[w].pc \in Recording \/ SaveLedger(w)
         /\ worker'[w].pc \in Reviewing => worker[w].pc \in Reviewing
<1>1. worker'[w].op = worker[w].op /\ RequestOK(worker'[w])
  BY StepForm, StepType DEF TypeInv
<1>2. worker[w] \in Busy /\ RequestOK(worker[w])
  BY StepForm DEF TypeInv, TypeOK
<1>3. CASE worker[w].op = "resolve"
  BY <1>3, ReviewForm DEF Recording, Reviewing, ReadResolutions, SaveLedger, At
<1>4. CASE worker[w].op # "resolve"
  BY <1>1, <1>2, <1>4 DEF RequestOK, Recording, Reviewing, Busy, Pcs
<1>. QED  BY <1>3, <1>4

\* Only the save of a resolution puts its request on file.
LEMMA OnFileStep ==
  ASSUME TypeInv, NEW w \in Workers, Request(w) \/ Step(w) \/ Abort(w),
         NEW id, OnFile(id)'
  PROVE  OnFile(id) \/ (SaveResolutions(w) /\ id = worker[w].id)
<1>1. ASSUME NEW k \in DOMAIN resolutions', resolutions'[k].request = id
      PROVE  OnFile(id) \/ (SaveResolutions(w) /\ id = worker[w].id)
  <2>1. CASE SaveResolutions(w)
    <3>. DEFINE record == [request |-> worker[w].id, winner |-> worker[w].pair[1],
                           loser |-> worker[w].pair[2]]
                held == worker[w].held
    <3>1. worker[w] # Idle /\ worker[w].pc = "save_resolutions" /\ held \in Seq(Resolution)
      BY <2>1, AtPc DEF SaveResolutions, At, Pcs, RequestOK
    <3>2. resolutions' = Append(held, record) /\ record.request = worker[w].id
      BY <2>1 DEF SaveResolutions
    <3>. HIDE DEF record
    <3>3. resolutions'[k] = record \/ (k \in DOMAIN held /\ resolutions'[k] = held[k])
      <4>. HIDE DEF held
      <4>. QED  BY <1>1, <3>1, <3>2
    <3>. QED  BY <1>1, <2>1, <3>1, <3>2, <3>3 DEF OnFile
  <2>2. CASE ~SaveResolutions(w)
    <3>1. resolutions' = resolutions
      BY <2>2, RequestForm DEF Step, SaveScan, SaveLatest, ReadStatus, ReadLedger, SaveLedger,
                               ReadResolutions, Abort, stores
    <3>. QED  BY <1>1, <3>1 DEF OnFile
  <2>. QED  BY <2>1, <2>2
<1>2. ASSUME NEW v \in Workers, worker'[v] # Idle, worker'[v].pc = "save_resolutions",
             NEW k \in DOMAIN worker'[v].held, worker'[v].held[k].request = id
      PROVE  OnFile(id)
  <2>1. CASE worker'[v] = worker[v]
    BY <1>2, <2>1 DEF OnFile
  <2>2. CASE worker'[v] # worker[v]
    <3>1. v = w /\ ~Abort(w) /\ ~Request(w)
      BY <1>2, <2>2, OthersStay, RequestForm
    <3>2. worker'[w].held = resolutions
      BY <1>2, <3>1, StepPc
    <3>. QED  BY <1>2, <3>1, <3>2 DEF OnFile
  <2>. QED  BY <2>1, <2>2
<1>. QED  BY <1>1, <1>2 DEF OnFile

LEMMA IdsAlways == Spec => [](TypeInv /\ Plans /\ IdsInv)
<1>1. Init => IdsInv
  BY DEF Init, IdsInv, OnFile
<1>2. ASSUME TypeInv, IdsInv, [Next]_vars PROVE IdsInv'
  <2>1. CASE UNCHANGED vars
    BY <1>2, <2>1 DEF vars, stores, IdsInv, OnFile
  <2>2. ASSUME NEW w \in Workers, Request(w) \/ Step(w) \/ Abort(w) PROVE IdsInv'
    <3>0. /\ requests \in Nat /\ requests' \in Nat
          /\ \A v \in Workers : worker[v] # Idle => worker[v].id \in Nat
      BY <1>2, <2>2, RequestType, StepType DEF TypeInv, TypeOK, Busy, Abort
    <3>1. requests <= requests' /\ (Request(w) => worker'[w].id = requests' /\ requests < requests')
      <4>1. CASE Request(w)
        BY <1>2, <3>0, <4>1, FreshId
      <4>2. CASE Step(w) \/ Abort(w)
        <5>1. requests' = requests
          BY <4>2 DEF Step, SaveScan, SaveLatest, ReadStatus, ReadLedger, SaveLedger,
                      ReadResolutions, SaveResolutions, Abort, bounds
        <5>2. ~Request(w)
          BY <1>2, <3>0, <5>1, FreshId
        <5>. QED  BY <3>0, <5>1, <5>2
      <4>. QED  BY <2>2, <4>1, <4>2
    <3>2. \A v \in Workers : v # w => worker'[v] = worker[v]
      BY <1>2, <2>2, OthersStay
    <3>3. worker'[w] # Idle =>
              \/ Request(w)
              \/ Step(w) /\ worker[w] # Idle /\ worker'[w].id = worker[w].id
      BY <1>2, <2>2, OthersStay, StepForm
    <3>4. \A v \in Workers : worker'[v] # Idle => worker'[v].id <= requests'
      BY <1>2, <3>0, <3>1, <3>2, <3>3 DEF IdsInv
    <3>5. ASSUME NEW u \in Workers, NEW v \in Workers, u # v, worker'[u] # Idle, worker'[v] # Idle
          PROVE  worker'[u].id # worker'[v].id
      <4>1. CASE u # w /\ v # w
        BY <1>2, <3>2, <3>5, <4>1 DEF IdsInv
      <4>2. CASE Request(w) /\ (u = w \/ v = w)
        BY <1>2, <3>0, <3>1, <3>2, <3>5, <4>2 DEF IdsInv
      <4>3. CASE ~Request(w) /\ (u = w \/ v = w)
        BY <1>2, <3>2, <3>3, <3>5, <4>3 DEF IdsInv
      <4>. QED  BY <4>1, <4>2, <4>3
    <3>6. ASSUME NEW id \in Nat, OnFile(id)' PROVE id <= requests'
      <4>1. OnFile(id) \/ (SaveResolutions(w) /\ id = worker[w].id)
        BY <1>2, <2>2, <3>6, OnFileStep
      <4>2. CASE OnFile(id)
        BY <1>2, <3>0, <3>1, <4>2 DEF IdsInv
      <4>3. CASE SaveResolutions(w) /\ id = worker[w].id
        <5>1. worker[w] # Idle
          BY <1>2, <4>3, AtPc DEF SaveResolutions, At, Pcs
        <5>. QED  BY <1>2, <3>0, <3>1, <4>3, <5>1 DEF IdsInv
      <4>. QED  BY <4>1, <4>2, <4>3
    <3>7. ASSUME NEW v \in Workers, worker'[v] # Idle, worker'[v].pc \in Reviewing,
                 NEW id, id = worker'[v].id
          PROVE  ~OnFile(id)'
      <4>. SUFFICES ASSUME OnFile(id)' PROVE FALSE
        OBVIOUS
      <4>0. OnFile(id) \/ (SaveResolutions(w) /\ id = worker[w].id)
        BY <1>2, <2>2, OnFileStep
      <4>1. SaveResolutions(w) => worker[w] # Idle /\ worker[w].pc \notin Reviewing
        BY <1>2, AtPc DEF SaveResolutions, At, Pcs, Reviewing
      <4>2. CASE v # w
        BY <1>2, <3>2, <3>7, <4>0, <4>1, <4>2 DEF IdsInv
      <4>3. CASE v = w /\ Request(w)
        BY <1>2, <3>0, <3>1, <3>7, <4>0, <4>1, <4>3, RequestForm DEF IdsInv
      <4>4. CASE v = w /\ ~Request(w)
        <5>1. worker[w] # Idle /\ worker[w].id = id /\ worker[w].pc \in Reviewing
          BY <1>2, <3>3, <3>7, <4>4, StepPc
        <5>. QED  BY <1>2, <4>0, <4>1, <5>1 DEF IdsInv
      <4>. QED  BY <4>2, <4>3, <4>4
    <3>8. (\A v \in Workers : worker[v] # Idle /\ worker[v].pc \in Reviewing =>
              ~OnFile(worker[v].id))'
      BY <3>7 DEF OnFile
    <3>. QED  BY <3>4, <3>5, <3>6, <3>8 DEF IdsInv, OnFile
  <2>. QED  BY <1>2, <2>1, <2>2 DEF Next
<1>. QED  BY <1>1, <1>2, PlansAlways, PTL DEF Spec

-----------------------------------------------------------------------------
(* Resolutions in parallel *)

LEMMA LastDecides ==
  ASSUME NEW s \in Seq(Event), s # <<>>
  PROVE  /\ s[Len(s)] \in Event
         /\ Effective(s[Len(s)].claim, s) = s[Len(s)].new
<1>. DEFINE claim == s[Len(s)].claim
            IsLatest(i) == /\ s[i].claim = claim
                           /\ \A j \in DOMAIN s : s[j].claim = claim => j <= i
<1>1. /\ Len(s) \in DOMAIN s /\ Len(s) \in Nat /\ DOMAIN s = 1..Len(s)
      /\ s[Len(s)] \in Event
  OBVIOUS
<1>2. IsLatest(Len(s))
  BY <1>1
<1>3. ASSUME NEW i \in DOMAIN s, IsLatest(i) PROVE i = Len(s)
  BY <1>1, <1>3
<1>4. Len(s) = CHOOSE i \in DOMAIN s : IsLatest(i)
  <2>. HIDE DEF IsLatest
  <2>. QED  BY <1>1, <1>2, <1>3
<1>. QED  BY <1>1, <1>2, <1>4 DEF Effective

\* A handler that has approved the winner and has yet to reject the loser.
Halfway(r) ==
    /\ r.op = "resolve"
    /\ r.pc \in Reviewing
    /\ r.decisions = <<Reject(r.pair[2])>>

\* Request id has approved its winner and will not be on file before it has
\* rejected the loser: its handler is half-way, or was stopped there.
HalfDone(id) ==
    /\ ~OnFile(id)
    /\ \A w \in Workers : worker[w] # Idle /\ worker[w].pc \in Recording => worker[w].id # id
    /\ \/ aborts > 0
       \/ \E w \in Workers : worker[w] # Idle /\ Halfway(worker[w]) /\ worker[w].id = id

\* Every resolution ends with a rejection: unless the one that wrote last has
\* come half-way only, the ledger ends with the rejection of a rival, whatever
\* was lost before it.
EndsRejecting ==
    ledger # <<>> =>
        LET last == ledger[Len(ledger)]
        IN  /\ \E pair \in Rivals : last.claim \in pair
            /\ \/ last.new = "rejected"
               \/ last.new = "approved" /\ HalfDone(last.request)

\* A step that leaves the ledger alone leaves who is half-way alone.
LEMMA HalfwayStays ==
  ASSUME TypeInv, Plans, NEW w \in Workers, Step(w), worker[w] # Idle, Halfway(worker[w]),
         ~SaveLedger(w)
  PROVE  worker'[w] # Idle /\ Halfway(worker'[w])
<1>1. worker \in [Workers -> {Idle} \cup Busy]
  BY DEF TypeInv, TypeOK
<1>2. worker[w] \in Busy
  BY DEF TypeInv, TypeOK
<1>3. ReadStatus(w) \/ ReadLedger(w)
  BY DEF Step, SaveScan, SaveLatest, ReadResolutions, SaveResolutions, At, Halfway, Reviewing
<1>4. worker'[w] # Idle
  <2>1. worker'[w].pc \in {"read_ledger", "save_ledger"}
    BY <1>1, <1>2, <1>3 DEF ReadStatus, ReadLedger, Busy
  <2>. QED  BY <2>1 DEF Idle
<1>5. /\ worker'[w].pc \in {"read_ledger", "save_ledger"}
      /\ worker'[w].decisions = worker[w].decisions
  BY <1>1, <1>2, <1>3 DEF ReadStatus, ReadLedger, Busy
<1>6. worker'[w].op = worker[w].op /\ worker'[w].pair = worker[w].pair
  BY <1>4, StepForm
<1>. QED  BY <1>4, <1>5, <1>6 DEF Halfway, Reviewing

\* What is half done stays so until a handler writes the ledger again.
LEMMA HalfDoneStays ==
  ASSUME TypeInv, Plans, NEW w \in Workers,
         Request(w) \/ (Step(w) /\ ~SaveLedger(w)) \/ Abort(w), NEW id, HalfDone(id)
  PROVE  HalfDone(id)'
<1>1. \A v \in Workers : v # w => worker'[v] = worker[v]
  BY OthersStay
<1>2. ~OnFile(id)'
  <2>1. SaveResolutions(w) => worker[w] # Idle /\ worker[w].pc \in Recording
    BY AtPc DEF SaveResolutions, At, Pcs, Recording
  <2>. QED  BY <2>1, OnFileStep DEF HalfDone
<1>3. ASSUME NEW v \in Workers, worker'[v] # Idle, worker'[v].pc \in Recording
      PROVE  worker'[v].id # id
  <2>1. CASE v # w
    BY <1>1, <1>3, <2>1 DEF HalfDone
  <2>2. CASE v = w
    <3>1. Step(w) /\ ~SaveLedger(w)
      BY <1>3, <2>2, OthersStay, RequestForm DEF Recording
    <3>2. worker[w] # Idle /\ worker[w].id = worker'[w].id /\ worker[w].pc \in Recording
      BY <1>3, <2>2, <3>1, StepForm, StepPc
    <3>. QED  BY <2>2, <3>2 DEF HalfDone
  <2>. QED  BY <2>1, <2>2
<1>4. \/ aborts' > 0
      \/ \E v \in Workers : worker'[v] # Idle /\ Halfway(worker'[v]) /\ worker'[v].id = id
  <2>0. aborts \in Nat
    BY DEF TypeInv, TypeOK
  <2>1. CASE Abort(w)
    BY <2>0, <2>1 DEF Abort
  <2>2. CASE ~Abort(w)
    <3>1. aborts' = aborts
      <4>1. Request(w) => aborts' = aborts
        BY DEF Request, Scan, ReviewClaim, ResolveConflict, Serve
      <4>. QED  BY <2>2, <4>1 DEF Step, SaveScan, SaveLatest, ReadStatus, ReadLedger,
                                  ReadResolutions, SaveResolutions, bounds
    <3>2. ASSUME NEW v \in Workers, worker[v] # Idle, Halfway(worker[v]), worker[v].id = id
          PROVE  worker'[v] # Idle /\ Halfway(worker'[v]) /\ worker'[v].id = id
      <4>1. CASE v # w
        BY <1>1, <3>2, <4>1
      <4>2. CASE v = w
        <5>1. Step(w) /\ ~SaveLedger(w)
          BY <2>2, <3>2, <4>2, RequestForm
        <5>. QED  BY <3>2, <4>2, <5>1, HalfwayStays, StepForm
      <4>. QED  BY <4>1, <4>2
    <3>. QED  BY <3>1, <3>2 DEF HalfDone
  <2>. QED  BY <2>1, <2>2
<1>5. (\A v \in Workers : worker[v] # Idle /\ worker[v].pc \in Recording => worker[v].id # id)'
  BY <1>3
<1>. QED  BY <1>2, <1>4, <1>5 DEF HalfDone, OnFile, Halfway

LEMMA SaveLedgerEnds ==
  ASSUME TypeInv, Plans, IdsInv, NEW w \in Workers, SaveLedger(w), worker[w].op = "resolve"
  PROVE  EndsRejecting'
<1>. DEFINE p == worker[w].pair
            d == worker[w].decisions
<1>1. worker[w] # Idle /\ worker[w] \in Busy /\ worker[w].pc = "save_ledger"
  BY AtPc DEF SaveLedger, At, Pcs
<1>2. {p[1], p[2]} \in Rivals /\ d \in {<<Approve(p[1]), Reject(p[2])>>, <<Reject(p[2])>>}
  BY <1>1 DEF Plans, PlanOK, Reviewing
<1>3. worker[w].held \in Seq(Event) /\ ReviewEvent(w) \in Event
      /\ ledger' = Append(worker[w].held, ReviewEvent(w))
  BY SaveLedgerForm
<1>4. ledger'[Len(ledger')] = ReviewEvent(w)
  BY <1>3
<1>5. worker \in [Workers -> {Idle} \cup Busy]
  BY DEF TypeInv, TypeOK
<1>6. CASE d = <<Reject(p[2])>>
  <2>1. d[1] = Reject(p[2])
    BY <1>6, TailFacts
  <2>2. ReviewEvent(w).new = "rejected" /\ ReviewEvent(w).claim = p[2]
    BY <2>1 DEF ReviewEvent, Reject
  <2>. QED  BY <1>2, <1>4, <2>2 DEF EndsRejecting
<1>7. CASE d = <<Approve(p[1]), Reject(p[2])>>
  <2>1. Tail(d) = <<Reject(p[2])>> /\ Tail(d) # <<>> /\ d[1] = Approve(p[1])
    BY <1>7, TailFacts
  <2>2. /\ worker' = [worker EXCEPT ![w].decisions = Tail(d), ![w].pc = "read_status"]
    BY <1>1, <2>1 DEF SaveLedger
  <2>3. worker'[w].pc = "read_status" /\ worker'[w].decisions = Tail(d)
    BY <1>1, <1>5, <2>2 DEF Busy
  <2>4. worker'[w] # Idle
    BY <2>3 DEF Idle
  <2>5. /\ worker'[w].op = "resolve" /\ worker'[w].pair = p /\ worker'[w].id = worker[w].id
        /\ \A v \in Workers : v # w => worker'[v] = worker[v]
    BY <2>4, StepForm DEF Step
  <2>6. Halfway(worker'[w])
    BY <2>1, <2>3, <2>5 DEF Halfway, Reviewing
  <2>7. PICK id : id = worker[w].id
    OBVIOUS
  <2>8. ~OnFile(id)'
    <3>1. ~OnFile(id)
      BY <1>1, <2>7 DEF IdsInv, Reviewing
    <3>2. ~SaveResolutions(w)
      BY <1>1 DEF SaveResolutions, At
    <3>. QED  BY <3>1, <3>2, OnFileStep DEF Step
  <2>9. \A v \in Workers : worker'[v] # Idle /\ worker'[v].pc \in Recording => worker'[v].id # id
    BY <1>1, <2>3, <2>5, <2>7 DEF IdsInv, Recording
  <2>10. HalfDone(id)'
    BY <2>4, <2>5, <2>6, <2>7, <2>8, <2>9 DEF HalfDone, OnFile, Halfway
  <2>11. ReviewEvent(w).new = "approved" /\ ReviewEvent(w).claim = p[1]
         /\ ReviewEvent(w).request = id
    BY <2>1, <2>7 DEF ReviewEvent, Approve
  <2>12. PICK e : e = ReviewEvent(w)
    OBVIOUS
  <2>. QED  BY <1>2, <1>4, <2>10, <2>11, <2>12 DEF EndsRejecting, HalfDone, OnFile, Halfway
<1>. QED  BY <1>2, <1>6, <1>7

\* Nothing but resolutions writes the ledger.
NoReviews == \A w \in Workers : worker[w] # Idle => worker[w].op # "review"

LEMMA EndsAlways ==
  ASSUME Decisions = {}
  PROVE  Spec => [](TypeInv /\ Plans /\ IdsInv /\ NoReviews /\ EndsRejecting)
<1>1. Init => NoReviews /\ EndsRejecting
  BY DEF Init, NoReviews, EndsRejecting
<1>2. ASSUME TypeInv, Plans, IdsInv, NoReviews, EndsRejecting, [Next]_vars
      PROVE  NoReviews' /\ EndsRejecting'
  <2>1. CASE UNCHANGED vars
    BY <1>2, <2>1 DEF vars, stores, NoReviews, EndsRejecting, HalfDone, OnFile
  <2>2. ASSUME NEW w \in Workers, Request(w) \/ Step(w) \/ Abort(w)
        PROVE  NoReviews' /\ EndsRejecting'
    <3>1. NoReviews'
      <4>1. \A v \in Workers : v # w => worker'[v] = worker[v]
        BY <1>2, <2>2, OthersStay
      <4>2. worker'[w] # Idle => worker'[w].op # "review"
        BY <1>2, <2>2, OthersStay, RequestForm, StepForm DEF NoReviews
      <4>. QED  BY <1>2, <4>1, <4>2 DEF NoReviews
    <3>2. CASE SaveLedger(w)
      <4>1. worker[w] # Idle /\ worker[w].op = "resolve"
        BY <1>2, <3>2, AtPc DEF SaveLedger, At, Pcs, RequestOK, NoReviews
      <4>. QED  BY <1>2, <3>1, <3>2, <4>1, SaveLedgerEnds
    <3>3. CASE ~SaveLedger(w)
      <4>1. ledger' = ledger
        BY <1>2, <2>2, <3>3, RequestForm
           DEF Step, SaveScan, SaveLatest, ReadStatus, ReadLedger, ReadResolutions,
               SaveResolutions, Abort, stores
      <4>2. \A id : HalfDone(id) => HalfDone(id)'
        BY <1>2, <2>2, <3>3, HalfDoneStays
      <4>3. EndsRejecting'
        <5>. SUFFICES ASSUME ledger # <<>> PROVE EndsRejecting'
          BY <4>1 DEF EndsRejecting
        <5>1. PICK last : last = ledger[Len(ledger)]
          OBVIOUS
        <5>2. last = ledger'[Len(ledger')]
          BY <4>1, <5>1
        <5>3. \/ last.new = "rejected"
              \/ last.new = "approved" /\ HalfDone(last.request)'
          BY <1>2, <4>2, <5>1 DEF EndsRejecting
        <5>. QED  BY <1>2, <5>1, <5>2, <5>3 DEF EndsRejecting, HalfDone, OnFile, Halfway
      <4>. QED  BY <3>1, <4>3
    <3>. QED  BY <3>2, <3>3
  <2>. QED  BY <1>2, <2>1, <2>2 DEF Next
<1>. QED  BY <1>1, <1>2, IdsAlways, PTL DEF Spec

\* Handlers that resolve the one conflict there is, any number of them in any
\* interleaving, for either side, do not leave both claims approved, although
\* they lose each other's events: the last of them ends with a rejection.  Only
\* where the last to write was stopped half-way may both be approved.
THEOREM RivalsApart ==
  ASSUME \A p, q \in Rivals : p = q,
         \A pair \in Rivals : \E claim \in pair : Status[claim] # "approved",
         Decisions = {}
  PROVE  Spec => []RivalsApartUnlessHalfWay
<1>1. TypeInv /\ EndsRejecting => RivalsApartUnlessHalfWay
  <2>. SUFFICES ASSUME TypeInv, EndsRejecting, Idling, ~LeftHalfWay, NEW pair \in Rivals
                PROVE  \E claim \in pair : Effective(claim, ledger) # "approved"
    BY DEF RivalsApartUnlessHalfWay
  <2>1. CASE ledger = <<>>
    <3>1. PICK claim \in pair : Status[claim] # "approved"
      OBVIOUS
    <3>2. DOMAIN ledger = {}
      BY <2>1
    <3>3. Effective(claim, ledger) = Status[claim]
      BY <3>2 DEF Effective
    <3>. QED  BY <3>1, <3>3
  <2>2. CASE ledger # <<>>
    <3>. DEFINE last == ledger[Len(ledger)]
    <3>1. last.claim \in pair /\ (last.new = "rejected" \/ (last.new = "approved" /\ HalfDone(last.request)))
      BY <2>2 DEF EndsRejecting
    <3>2. ~(last.new = "approved" /\ HalfDone(last.request))
      BY <2>2 DEF LeftHalfWay, HalfDone, OnFile, Idling
    <3>3. Effective(last.claim, ledger) = "rejected"
      BY <2>2, <3>1, <3>2, LastDecides DEF TypeInv, TypeOK
    <3>. QED  BY <3>1, <3>3
  <2>. QED  BY <2>1, <2>2
<1>. QED  BY <1>1, EndsAlways, PTL

-----------------------------------------------------------------------------
(* Resolutions one at a time *)

Written(events, id, claim, new) ==
    \E i \in DOMAIN events :
        events[i].request = id /\ events[i].claim = claim /\ events[i].new = new

Backed(events, id, winner, loser) ==
    \E i, j \in DOMAIN events :
        /\ i < j
        /\ events[i].request = id /\ events[i].claim = winner /\ events[i].new = "approved"
        /\ events[j].request = id /\ events[j].claim = loser /\ events[j].new = "rejected"

\* How far the ledger and the resolutions have come with a request.
ProgressOK(r, events, records) ==
    r.op = "resolve" =>
        /\ Halfway(r) => Written(events, r.id, r.pair[1], "approved")
        /\ r.pc \in Recording => Backed(events, r.id, r.pair[1], r.pair[2])
        /\ r.pc = "save_resolutions" => r.held = records

BackedInv ==
    /\ \A w \in Workers : worker[w] # Idle => ProgressOK(worker[w], ledger, resolutions)
    /\ ResolutionIsBacked

LEMMA WrittenStays ==
  ASSUME NEW s \in Seq(Event), NEW e \in Event, NEW id, NEW claim, NEW new,
         Written(s, id, claim, new)
  PROVE  Written(Append(s, e), id, claim, new)
<1>1. PICK i \in DOMAIN s : s[i].request = id /\ s[i].claim = claim /\ s[i].new = new
  BY DEF Written
<1>2. i \in DOMAIN Append(s, e) /\ Append(s, e)[i] = s[i]
  BY AppendFacts
<1>. QED  BY <1>1, <1>2 DEF Written

LEMMA BackedStays ==
  ASSUME NEW s \in Seq(Event), NEW e \in Event, NEW id, NEW winner, NEW loser,
         Backed(s, id, winner, loser)
  PROVE  Backed(Append(s, e), id, winner, loser)
<1>1. PICK i \in DOMAIN s, j \in DOMAIN s :
        /\ i < j
        /\ s[i].request = id /\ s[i].claim = winner /\ s[i].new = "approved"
        /\ s[j].request = id /\ s[j].claim = loser /\ s[j].new = "rejected"
  BY DEF Backed
<1>2. /\ i \in DOMAIN Append(s, e) /\ Append(s, e)[i] = s[i]
      /\ j \in DOMAIN Append(s, e) /\ Append(s, e)[j] = s[j]
  BY AppendFacts
<1>. QED  BY <1>1, <1>2 DEF Backed

\* The rejection of the loser is the second of the two reviews.
LEMMA BackedNow ==
  ASSUME NEW s \in Seq(Event), NEW e \in Event, NEW id, NEW winner, NEW loser,
         Written(s, id, winner, "approved"),
         e.request = id, e.claim = loser, e.new = "rejected"
  PROVE  Backed(Append(s, e), id, winner, loser)
<1>1. PICK i \in DOMAIN s : s[i].request = id /\ s[i].claim = winner /\ s[i].new = "approved"
  BY DEF Written
<1>2. /\ i \in DOMAIN Append(s, e) /\ Append(s, e)[i] = s[i]
      /\ Len(s) + 1 \in DOMAIN Append(s, e) /\ Append(s, e)[Len(s) + 1] = e
      /\ i < Len(s) + 1
  BY AppendFacts
<1>. QED  BY <1>1, <1>2 DEF Backed

LEMMA SaveLedgerProgress ==
  ASSUME TypeInv, AloneInv, Plans, BackedInv, NEW w \in Workers, SaveLedger(w),
         worker[w].op = "resolve", worker'[w] # Idle
  PROVE  ProgressOK(worker'[w], ledger', resolutions')
<1>. DEFINE p == worker[w].pair
            d == worker[w].decisions
            id == worker[w].id
<1>0. worker \in [Workers -> {Idle} \cup Busy]
  BY DEF TypeInv, TypeOK
<1>1. worker[w] # Idle /\ worker[w] \in Busy /\ worker[w].pc = "save_ledger"
  BY AtPc DEF SaveLedger, At, Pcs
<1>2. d \in {<<Approve(p[1]), Reject(p[2])>>, <<Reject(p[2])>>}
  BY <1>1 DEF Plans, PlanOK, Reviewing
<1>3. ledger \in Seq(Event) /\ ReviewEvent(w) \in Event /\ ledger' = Append(ledger, ReviewEvent(w))
  BY <1>1, SaveLedgerForm DEF AloneInv, TypeInv, TypeOK
<1>4. worker'[w].op = "resolve" /\ worker'[w].id = id /\ worker'[w].pair = p
  BY StepForm DEF Step
<1>5. /\ worker'[w].decisions = Tail(d)
      /\ worker'[w].pc = IF Tail(d) = <<>> THEN "read_resolutions" ELSE "read_status"
  <2>1. ~Return(w)
    BY <1>0 DEF Return
  <2>. DEFINE rest == Tail(d)
              pc == IF rest = <<>> THEN "read_resolutions" ELSE "read_status"
  <2>2. worker' = [worker EXCEPT ![w].decisions = rest, ![w].pc = pc]
    BY <2>1, SaveLedgerForm
  <2>3. worker'[w].decisions = rest /\ worker'[w].pc = pc
    <3>. HIDE DEF rest, pc
    <3>. QED  BY <1>0, <1>1, <2>2 DEF Busy
  <2>. QED  BY <2>3
<1>6. CASE d = <<Reject(p[2])>>
  <2>1. d[1] = Reject(p[2]) /\ Tail(d) = <<>>
    BY <1>6, TailFacts
  <2>2. /\ ReviewEvent(w).new = "rejected" /\ ReviewEvent(w).claim = p[2]
        /\ ReviewEvent(w).request = id
    BY <2>1 DEF ReviewEvent, Reject
  <2>3. Written(ledger, id, p[1], "approved")
    BY <1>1, <1>6 DEF BackedInv, ProgressOK, Halfway, Reviewing
  <2>4. Backed(ledger', id, p[1], p[2])
    BY <1>3, <2>2, <2>3, BackedNow
  <2>5. worker'[w].pc = "read_resolutions"
    BY <1>5, <2>1
  <2>. QED  BY <1>4, <2>4, <2>5 DEF ProgressOK, Halfway, Reviewing
<1>7. CASE d = <<Approve(p[1]), Reject(p[2])>>
  <2>1. d[1] = Approve(p[1]) /\ Tail(d) # <<>>
    BY <1>7, TailFacts
  <2>2. /\ ReviewEvent(w).new = "approved" /\ ReviewEvent(w).claim = p[1]
        /\ ReviewEvent(w).request = id
    BY <2>1 DEF ReviewEvent, Approve
  <2>3. Written(ledger', id, p[1], "approved")
    <3>. DEFINE i == Len(ledger) + 1
    <3>1. i \in DOMAIN ledger' /\ ledger'[i] = ReviewEvent(w)
      BY <1>3, AppendFacts
    <3>. HIDE DEF i
    <3>. QED  BY <2>2, <3>1 DEF Written
  <2>4. worker'[w].pc = "read_status"
    BY <1>5, <2>1
  <2>. QED  BY <1>4, <2>3, <2>4 DEF ProgressOK, Recording
<1>. QED  BY <1>2, <1>6, <1>7

LEMMA BackedStep ==
  ASSUME \A v, w \in Workers : v = w, TypeInv, AloneInv, Plans, BackedInv, [Next]_vars
  PROVE  BackedInv'
<1>0. /\ worker \in [Workers -> {Idle} \cup Busy]
      /\ ledger \in Seq(Event) /\ resolutions \in Seq(Resolution)
  BY DEF TypeInv, TypeOK
<1>1. \/ ledger' = ledger
      \/ \E e \in Event : ledger' = Append(ledger, e)
  BY AloneStep
<1>2. ASSUME NEW id, NEW claim, NEW new, Written(ledger, id, claim, new)
      PROVE  Written(ledger', id, claim, new)
  BY <1>0, <1>1, <1>2, WrittenStays
<1>3. ASSUME NEW id, NEW winner, NEW loser, Backed(ledger, id, winner, loser)
      PROVE  Backed(ledger', id, winner, loser)
  BY <1>0, <1>1, <1>3, BackedStays
<1>4. ASSUME resolutions' = resolutions PROVE ResolutionIsBacked'
  <2>1. ASSUME NEW k \in DOMAIN resolutions'
        PROVE  Backed(ledger', resolutions'[k].request, resolutions'[k].winner,
                      resolutions'[k].loser)
    <3>1. Backed(ledger, resolutions[k].request, resolutions[k].winner, resolutions[k].loser)
      BY <1>4, <2>1 DEF BackedInv, ResolutionIsBacked, Backed
    <3>. QED  BY <1>3, <1>4, <3>1
  <2>. QED  BY <2>1 DEF ResolutionIsBacked, Backed
<1>5. ASSUME NEW w \in Workers, resolutions' = resolutions,
             worker'[w] # Idle => ProgressOK(worker'[w], ledger', resolutions')
      PROVE  BackedInv'
  BY <1>4, <1>5 DEF BackedInv
<1>6. CASE UNCHANGED vars
  BY <1>6 DEF vars, stores, BackedInv, ResolutionIsBacked
<1>7. ASSUME NEW w \in Workers, Request(w) PROVE BackedInv'
  <2>1. /\ UNCHANGED stores /\ worker'[w].pc \in {"save_scan", "read_status"}
        /\ worker'[w].op = "resolve" =>
                worker'[w].decisions = <<Approve(worker'[w].pair[1]), Reject(worker'[w].pair[2])>>
    BY <1>7, RequestForm
  <2>2. ProgressOK(worker'[w], ledger', resolutions')
    BY <2>1, TailFacts DEF ProgressOK, Halfway, Recording
  <2>. QED  BY <1>5, <2>1, <2>2 DEF stores
<1>8. ASSUME NEW w \in Workers, Abort(w) PROVE BackedInv'
  BY <1>0, <1>5, <1>8 DEF Abort, Return, stores
<1>9. ASSUME NEW w \in Workers, SaveResolutions(w) PROVE BackedInv'
  <2>. DEFINE r == worker[w]
              record == [request |-> r.id, winner |-> r.pair[1], loser |-> r.pair[2]]
  <2>1. r # Idle /\ r \in Busy /\ r.op = "resolve" /\ r.pc = "save_resolutions"
    BY <1>9, AtPc DEF SaveResolutions, At, Pcs, RequestOK
  <2>2. Backed(ledger, r.id, r.pair[1], r.pair[2]) /\ r.held = resolutions
    BY <2>1 DEF BackedInv, ProgressOK, Recording
  <2>3. worker'[w] = Idle /\ ledger' = ledger
    BY <1>0, <1>9 DEF SaveResolutions, Return
  <2>4. resolutions' = Append(resolutions, record)
    BY <1>9, <2>2 DEF SaveResolutions
  <2>5. /\ record.request = r.id /\ record.winner = r.pair[1] /\ record.loser = r.pair[2]
    OBVIOUS
  <2>. HIDE DEF record
  <2>6. ASSUME NEW k \in DOMAIN resolutions'
        PROVE  Backed(ledger', resolutions'[k].request, resolutions'[k].winner,
                      resolutions'[k].loser)
    <3>1. CASE k \in DOMAIN resolutions
      <4>1. resolutions'[k] = resolutions[k]
        BY <1>0, <2>4, <3>1
      <4>. QED  BY <2>3, <3>1, <4>1 DEF BackedInv, ResolutionIsBacked, Backed
    <3>2. CASE k \notin DOMAIN resolutions
      <4>1. resolutions'[k] = record
        BY <1>0, <2>4, <2>6, <3>2
      <4>. QED  BY <2>2, <2>3, <2>5, <4>1
    <3>. QED  BY <3>1, <3>2
  <2>7. ResolutionIsBacked'
    BY <2>6 DEF ResolutionIsBacked, Backed
  <2>. QED  BY <2>3, <2>7 DEF BackedInv
<1>10. ASSUME NEW w \in Workers, Step(w), ~SaveResolutions(w) PROVE BackedInv'
  <2>1. resolutions' = resolutions
    BY <1>10 DEF Step, SaveScan, SaveLatest, ReadStatus, ReadLedger, SaveLedger, ReadResolutions,
                 stores
  <2>2. SUFFICES ASSUME worker'[w] # Idle, worker'[w].op = "resolve"
                 PROVE  ProgressOK(worker'[w], ledger', resolutions')
    BY <1>5, <2>1 DEF ProgressOK
  <2>3. /\ worker[w] # Idle /\ worker[w].op = "resolve" /\ worker'[w].id = worker[w].id
        /\ worker'[w].pair = worker[w].pair
    BY <1>10, <2>2, StepForm
  <2>4. ProgressOK(worker[w], ledger, resolutions)
    BY <2>3 DEF BackedInv
  <2>5. CASE /\ worker[w].pc \in {"read_status", "read_ledger"}
             /\ worker'[w].decisions = worker[w].decisions
             /\ worker'[w].pc \in {"read_ledger", "save_ledger"}
    <3>1. Halfway(worker'[w]) => Halfway(worker[w])
      BY <2>3, <2>5 DEF Halfway, Reviewing
    <3>. QED  BY <1>2, <2>3, <2>4, <2>5, <3>1 DEF ProgressOK, Recording
  <2>6. CASE SaveLedger(w)
    BY <2>2, <2>3, <2>6, SaveLedgerProgress
  <2>7. CASE /\ ReadResolutions(w)
             /\ worker'[w].pc = "save_resolutions"
             /\ worker'[w].held = resolutions
    <3>1. Backed(ledger, worker[w].id, worker[w].pair[1], worker[w].pair[2])
      BY <2>3, <2>4, <2>7 DEF ReadResolutions, At, ProgressOK, Recording
    <3>. QED  BY <1>3, <2>1, <2>3, <2>7, <3>1 DEF ProgressOK, Halfway, Reviewing
  <2>. QED  BY <1>10, <2>2, <2>3, <2>5, <2>6, <2>7, ReviewForm
<1>. QED  BY <1>6, <1>7, <1>8, <1>9, <1>10 DEF Next

\* When handlers run one at a time a resolution is on file only with the
\* winner's approval and then the loser's rejection in the ledger, wherever
\* handlers were stopped.
THEOREM BackedAlone ==
  ASSUME \A v, w \in Workers : v = w
  PROVE  Spec => []ResolutionIsBacked
<1>1. Init => BackedInv
  BY DEF Init, BackedInv, ResolutionIsBacked
<1>2. TypeInv /\ AloneInv /\ Plans /\ BackedInv /\ [Next]_vars => BackedInv'
  BY BackedStep
<1>3. BackedInv => ResolutionIsBacked
  BY DEF BackedInv
<1>. QED  BY <1>1, <1>2, <1>3, AloneAlways, PlansAlways, PTL DEF Spec

-----------------------------------------------------------------------------
(* The report of conflicts *)

LEMMA ClaimsFinite == IsFiniteSet(Claims)
<1>1. /\ IdOrder \in Seq(Claims)
      /\ \A claim \in Claims : \E i \in DOMAIN IdOrder : IdOrder[i] = claim
  BY ConstantsAssumption
<1>2. Len(IdOrder) \in Nat /\ IdOrder \in [1..Len(IdOrder) -> Claims]
  BY <1>1
<1>3. IdOrder \in Surjection(1..Len(IdOrder), Claims)
  BY <1>1, <1>2 DEF Surjection
<1>4. IsFiniteSet(1..Len(IdOrder))
  BY <1>2, FS_Interval
<1>. QED  BY <1>3, <1>4, FS_Surjection

\* In a list of some claims one of two claims is before the other.
LEMMA PlacesDiffer ==
  ASSUME NEW listed \in SUBSET Claims, NEW a \in listed, NEW b \in listed, a # b
  PROVE  Place(IdOrder, listed, a) < Place(IdOrder, listed, b) <=>
            ~(Place(IdOrder, listed, b) < Place(IdOrder, listed, a))
<1>. DEFINE UpTo(claim) == {c \in listed : \E i, j \in DOMAIN IdOrder :
                                              i <= j /\ IdOrder[i] = c /\ IdOrder[j] = claim}
<1>1. /\ IdOrder \in Seq(Claims)
      /\ \A claim \in Claims : \E i \in DOMAIN IdOrder : IdOrder[i] = claim
      /\ \A i, j \in DOMAIN IdOrder : IdOrder[i] = IdOrder[j] => i = j
  BY ConstantsAssumption
<1>2. \A i \in DOMAIN IdOrder : i \in Nat
  BY <1>1
<1>3. IsFiniteSet(listed)
  BY ClaimsFinite, FS_Subset
<1>4. ASSUME NEW x \in listed, NEW y \in listed, x # y,
             NEW i \in DOMAIN IdOrder, NEW j \in DOMAIN IdOrder,
             IdOrder[i] = x, IdOrder[j] = y, i < j
      PROVE  /\ Cardinality(UpTo(x)) \in Nat /\ Cardinality(UpTo(y)) \in Nat
             /\ Cardinality(UpTo(x)) < Cardinality(UpTo(y))
  <2>1. UpTo(x) \subseteq UpTo(y)
    BY <1>1, <1>2, <1>4
  <2>2. y \in UpTo(y) /\ y \notin UpTo(x)
    BY <1>1, <1>2, <1>4
  <2>3. UpTo(y) \subseteq listed
    OBVIOUS
  <2>. HIDE DEF UpTo
  <2>4. IsFiniteSet(UpTo(y)) /\ IsFiniteSet(UpTo(x))
    BY <1>3, <2>1, <2>3, FS_Subset
  <2>5. Cardinality(UpTo(x)) <= Cardinality(UpTo(y)) /\ Cardinality(UpTo(x)) # Cardinality(UpTo(y))
    BY <2>1, <2>2, <2>4, FS_Subset
  <2>. QED  BY <2>4, <2>5, FS_CardinalityType
<1>5. PICK i, j \in DOMAIN IdOrder : IdOrder[i] = a /\ IdOrder[j] = b
  BY <1>1
<1>6. i < j \/ j < i
  BY <1>2, <1>5
<1>7. Place(IdOrder, listed, a) = Cardinality(UpTo(a)) /\ Place(IdOrder, listed, b) = Cardinality(UpTo(b))
  BY DEF Place
<1>8. CASE i < j
  <2>. HIDE DEF UpTo
  <2>. QED  BY <1>4, <1>5, <1>7, <1>8
<1>9. CASE j < i
  <2>. HIDE DEF UpTo
  <2>. QED  BY <1>4, <1>5, <1>7, <1>9
<1>. QED  BY <1>6, <1>8, <1>9

\* For any claims, reviews and handlers, the report of a stored scan has each
\* pair of active rivals once and nothing else, as conflicts() takes its left
\* claims from the order in which the claims are stored.
THEOREM ConflictsListed == Spec => []ConflictsAreListedOnce
<1>1. TypeOK => ConflictsAreListedOnce
  <2>. SUFFICES ASSUME TypeOK, NEW scan \in scans, NEW pair \in Rivals
                PROVE  /\ (\A claim \in pair : claim \in Content[scan] /\ Active(claim)) <=>
                              \E row \in ConflictReport(scan) : {row.left, row.right} = pair
                       /\ \A p, q \in ConflictReport(scan) :
                              {p.left, p.right} = pair /\ {q.left, q.right} = pair => p = q
    BY DEF ConflictsAreListedOnce
  <2>. DEFINE active == {c \in Content[scan] : Active(c)}
              InFront(l, r) == Place(IdOrder, active, l) < Place(IdOrder, active, r)
  <2>1. active \in SUBSET Claims
    BY ConstantsAssumption DEF TypeOK
  <2>2. PICK a, b \in Claims : a # b /\ pair = {a, b}
    BY ConstantsAssumption
  <2>3. (\A claim \in pair : claim \in Content[scan] /\ Active(claim)) <=> a \in active /\ b \in active
    BY <2>2
  <2>4. ConflictReport(scan) = {row \in [left : active, right : active] :
                                  {row.left, row.right} \in Rivals /\ InFront(row.left, row.right)}
    BY DEF ConflictReport, StoredOrder
  <2>. HIDE DEF active
  <2>5. a \in active /\ b \in active => (InFront(a, b) <=> ~InFront(b, a))
    BY <2>1, <2>2, PlacesDiffer
  <2>. HIDE DEF InFront
  <2>6. \A l, r \in active :
            LET row == [left |-> l, right |-> r]
            IN  pair = {l, r} /\ InFront(l, r) => row \in ConflictReport(scan) /\ {row.left, row.right} = pair
    BY <2>4
  <2>7. ASSUME NEW row \in ConflictReport(scan), {row.left, row.right} = pair
        PROVE  /\ a \in active /\ b \in active
               /\ \/ InFront(a, b) /\ row = [left |-> a, right |-> b]
                  \/ InFront(b, a) /\ row = [left |-> b, right |-> a]
    <3>1. /\ row.left \in active /\ row.right \in active /\ InFront(row.left, row.right)
          /\ row = [left |-> row.left, right |-> row.right]
      BY <2>4
    <3>2. (row.left = a /\ row.right = b) \/ (row.left = b /\ row.right = a)
      BY <2>2, <2>7
    <3>. QED  BY <3>1, <3>2
  <2>8. a \in active /\ b \in active => \E row \in ConflictReport(scan) : {row.left, row.right} = pair
    BY <2>2, <2>5, <2>6
  <2>9. \A p, q \in ConflictReport(scan) :
            {p.left, p.right} = pair /\ {q.left, q.right} = pair => p = q
    BY <2>5, <2>7
  <2>. QED  BY <2>3, <2>7, <2>8, <2>9
<1>. QED  BY <1>1, TypeCorrect, PTL
=============================================================================
