---------------------------- MODULE OutputsProofs ----------------------------
(***************************************************************************)
(* Proofs about Outputs, for any number of handlers, requests, edits and   *)
(* stops: the types, that verdicts are final, that rows have their files,  *)
(* that a judge sees what was scored, that a pass meets its profile, and   *)
(* that a review keeps every changed file.                                 *)
(***************************************************************************)
EXTENDS Outputs, EvidenceGraphProofs

-----------------------------------------------------------------------------
(* What stores and handlers hold: the types *)

Kinds == {"generate", "evaluate", "judge"}

Generating == {"draft", "review", "testgen"}

Evaluating == {"evaluate", "retrieval"}

Ops == Generating \cup Evaluating \cup {"judge"}

\* n is the number of the latest request.
IsKey(key, n) ==
    /\ key = [path |-> key.path, run |-> key.run, case |-> key.case]
    /\ key.path \subseteq 0..n /\ key.run \subseteq 0..n
    /\ \A a, b \in key.run : a = b

IsScorecard(c, n) ==
    /\ c = [type |-> c.type, key |-> c.key, text |-> c.text, sources |-> c.sources, profile |-> c.profile,
            verdict |-> c.verdict, judge |-> c.judge]
    /\ IsKey(c.key, n) /\ c.text \in DOMAIN Text /\ c.judge \subseteq DOMAIN Text

Stored(store, n) == DOMAIN store \subseteq 1..n /\ \A id \in DOMAIN store : IsScorecard(store[id], n)

\* The steps of each operation.
Steps(op) ==
    CASE op = "draft" -> {"complete", "artifact", "log"}
      [] op = "review" -> {"trail", "pack", "preview", "complete", "artifact", "log"}
      [] op = "testgen" -> {"artifact", "log"}
      [] op = "retrieval" -> {"trail", "pack", "score", "json", "report", "row", "log_judge", "log"}
      [] OTHER -> {"load", "judge", "json", "report", "row", "log_judge", "log"}

\* A handler at step pc of the request that v is.
Moved(v, pc, text, from, card) ==
    [pc |-> pc, op |-> v.op, id |-> v.id, evaluation |-> v.evaluation, text |-> text,
     sources |-> from, kept |-> v.kept, ask |-> v.ask, card |-> card]

IsRequest(v, n) ==
    /\ v = Moved(v, v.pc, v.text, v.sources, v.card)
    /\ v.op \in Ops /\ v.pc \in Steps(v.op)
    /\ v.id \in 2..n /\ v.evaluation \in 1..n
    /\ v.text \subseteq DOMAIN Text
    /\ \A c \in v.card : IsScorecard(c, n)
    /\ \A c, d \in v.card : c = d
    /\ v.op = "evaluate" => \A ask \in v.ask : IsKey(ask.key, n)
    /\ v.op = "retrieval" => v.ask \subseteq Retrievals
    /\ \A ask, other \in v.ask : ask = other
    /\ v.op # "judge" => v.evaluation = v.id

StoresTyped ==
    /\ DOMAIN artifacts \subseteq 0..Latest /\ \A p \in DOMAIN artifacts : artifacts[p] \in DOMAIN Text
    /\ changed \subseteq 0..Latest /\ version \in DOMAIN Case /\ version >= 1
    /\ DOMAIN contexts \subseteq (0..Latest) \X {"trail", "pack", "preview"}
    /\ \A r \in audit : r.run \in 0..Latest
    /\ \A r, s \in audit : r.use = s.use /\ r.run = s.run => r = s
    /\ \A r \in audit : (r.use = "analysis" => r.run = 0) /\ (r.use \in WritesArtifact => r.run # 0)
    /\ Stored(rows, Latest) /\ Stored(jsons, Latest) /\ Stored(reports, Latest)

-----------------------------------------------------------------------------
(* What holds between stores and handlers: the inductive invariant *)

Written == DOMAIN artifacts \cup changed

\* The number of a handler is in the stores only after its last write.
FreshOf(v) ==
    /\ v.op \in Generating => (v.pc = "log" <=> v.id \in Written)
    /\ v.op \in Evaluating => (v.pc \in {"log_judge", "log"} <=> v.id \in DOMAIN rows)
    /\ v.op = "judge" => v.evaluation \in DOMAIN rows

SavedContexts(pc) ==
    CASE pc = "trail" -> {}
      [] pc = "pack" -> {"trail"}
      [] pc = "preview" -> {"trail", "pack"}
      [] OTHER -> {"trail", "pack", "preview"}

\* What a handler has written by now, and the scorecard it judges.
RecordsOf(v) ==
    /\ v.op = "review" => {v.id} \X SavedContexts(v.pc) \subseteq DOMAIN contexts
    /\ \A c \in v.card :
         /\ v.op = "judge" => c.text = rows[v.evaluation].text /\ c.verdict = rows[v.evaluation].verdict
         /\ v.pc \in {"report", "row"} => v.evaluation \in DOMAIN jsons /\ jsons[v.evaluation].verdict = c.verdict
         /\ v.pc = "row" => v.evaluation \in DOMAIN reports /\ reports[v.evaluation].verdict = c.verdict

TextOf(type, v) == Case[v][IF type \in DOMAIN Case[v] THEN type ELSE "requirement_case"]

Excused(text, c) ==
    \/ text = c.text
    \/ c.key.path \cap changed # {}
    \/ c.key.path = {} /\ version > 1

\* The text of a scorecard is still its artifact's, unless that has changed,
\* or the first version's of the case.
TargetKept(c) ==
    /\ c.key.path \subseteq Written
    /\ \A p \in c.key.path \ changed : artifacts[p] = c.text
    /\ c.key.path = {} => c.key.run \subseteq {0}
    /\ c.key.path = {} /\ version = 1 => c.text = TextOf(c.type, 1)
    /\ \A text \in c.judge : Excused(text, c)

JudgeOf(v) ==
    /\ \A c \in v.card : TargetKept(c)
    /\ v.pc = "judge" => \A text \in v.text, c \in v.card : Excused(text, c)
    /\ v.op = "retrieval" /\ v.pc = "score" =>
            \/ 0 \in changed
            \/ 0 \in DOMAIN artifacts /\ \A ask \in v.ask : artifacts[0] = ask.pack.text

HandlerInv(v) == IsRequest(v, Latest) /\ FreshOf(v) /\ RecordsOf(v) /\ JudgeOf(v)

RowsKept == \A id \in DOMAIN rows : TargetKept(rows[id])

WorkersInv ==
    /\ worker = [w \in Workers |-> worker[w]]
    /\ \A w \in Workers : worker[w] = Idle \/ HandlerInv(worker[w])
    /\ \A v, w \in Workers : v # w /\ worker[v] # Idle /\ worker[w] # Idle => worker[v].id # worker[w].id

IInv == requests \in [Kinds -> Nat] /\ StoresTyped /\ RecordsHaveFiles /\ RowsKept /\ WorkersInv

RowsStay ==
    \A id \in DOMAIN rows :
        id \in DOMAIN rows' /\ rows'[id].text = rows[id].text /\ rows'[id].verdict = rows[id].verdict

Kept == IInv' /\ RowsStay

\* What any step does to the stores, n being the number of who takes it.
Later(n) ==
    /\ Latest' >= Latest /\ version' >= version
    /\ changed \subseteq changed' /\ Written \subseteq Written' /\ Written' \subseteq Written \cup {0, n}
    /\ \A p \in Written \ changed' : p \in DOMAIN artifacts' /\ artifacts'[p] = artifacts[p]
    /\ DOMAIN contexts \subseteq DOMAIN contexts'
    /\ DOMAIN rows \subseteq DOMAIN rows' /\ DOMAIN rows' \subseteq DOMAIN rows \cup {n}
    /\ DOMAIN jsons \subseteq DOMAIN jsons' /\ DOMAIN reports \subseteq DOMAIN reports'
    /\ \A id \in DOMAIN rows : rows'[id].text = rows[id].text /\ rows'[id].verdict = rows[id].verdict
    /\ \A id \in DOMAIN jsons : id \in DOMAIN rows \/ id # n => jsons'[id].verdict = jsons[id].verdict
    /\ \A id \in DOMAIN reports : id \in DOMAIN rows \/ id # n => reports'[id].verdict = reports[id].verdict

-----------------------------------------------------------------------------
(* Lemmas about the operators *)

LEMMA PutFacts ==
  ASSUME NEW f, NEW x, NEW v
  PROVE  /\ DOMAIN Put(f, x, v) = DOMAIN f \cup {x}
         /\ Put(f, x, v)[x] = v
         /\ \A y \in DOMAIN f : y # x => Put(f, x, v)[y] = f[y]
  BY DEF Put

LEMMA StepsKnown == \A op \in Ops : Steps(op) \subseteq Pcs
  BY DEF Ops, Generating, Evaluating, Steps, Pcs

LEMMA MovedFields ==
  ASSUME NEW v, NEW pc, NEW text, NEW from, NEW card
  PROVE  /\ Moved(v, pc, text, from, card).pc = pc
         /\ Moved(v, pc, text, from, card).op = v.op
         /\ Moved(v, pc, text, from, card).id = v.id
         /\ Moved(v, pc, text, from, card).evaluation = v.evaluation
         /\ Moved(v, pc, text, from, card).text = text
         /\ Moved(v, pc, text, from, card).sources = from
         /\ Moved(v, pc, text, from, card).kept = v.kept
         /\ Moved(v, pc, text, from, card).ask = v.ask
         /\ Moved(v, pc, text, from, card).card = card
         /\ Moved(v, pc, text, from, card) # Idle
  BY DEF Moved, Idle

\* Requests that are issued later change no type.
LEMMA KeyGrows ==
  ASSUME NEW n \in Nat, NEW m \in Nat, n <= m, NEW key, IsKey(key, n)
  PROVE  IsKey(key, m)
<1>1. 0..n \subseteq 0..m
  OBVIOUS
<1>. QED  BY <1>1 DEF IsKey

LEMMA ScorecardGrows ==
  ASSUME NEW n \in Nat, NEW m \in Nat, n <= m, NEW c, IsScorecard(c, n)
  PROVE  IsScorecard(c, m)
  BY KeyGrows DEF IsScorecard

LEMMA StoredGrows ==
  ASSUME NEW n \in Nat, NEW m \in Nat, n <= m, NEW store, Stored(store, n)
  PROVE  Stored(store, m)
<1>1. 1..n \subseteq 1..m
  OBVIOUS
<1>. QED  BY <1>1, ScorecardGrows DEF Stored

LEMMA RequestGrows ==
  ASSUME NEW n \in Nat, NEW m \in Nat, n <= m, NEW v, IsRequest(v, n)
  PROVE  IsRequest(v, m)
<1>1. v.id \in 2..m /\ v.evaluation \in 1..m
  BY DEF IsRequest
<1>2. \A c \in v.card : IsScorecard(c, m)
  BY ScorecardGrows DEF IsRequest
<1>3. v.op = "evaluate" => \A ask \in v.ask : IsKey(ask.key, m)
  BY KeyGrows DEF IsRequest
<1>. QED  BY <1>1, <1>2, <1>3 DEF IsRequest

LEMMA StoredPut ==
  ASSUME NEW n \in Nat, NEW store, Stored(store, n), NEW id \in 1..n, NEW c, IsScorecard(c, n)
  PROVE  Stored(Put(store, id, c), n)
<1>1. DOMAIN Put(store, id, c) \subseteq 1..n
  BY DEF Put, Stored
<1>2. ASSUME NEW i \in DOMAIN Put(store, id, c)
      PROVE  IsScorecard(Put(store, id, c)[i], n)
  <2>1. CASE i = id
    BY <2>1 DEF Put
  <2>2. CASE i # id
    <3>1. i \in DOMAIN store /\ Put(store, id, c)[i] = store[i]
      BY <2>2 DEF Put
    <3>. QED  BY <3>1 DEF Stored
  <2>. QED  BY <2>1, <2>2
<1>. QED  BY <1>1, <1>2 DEF Stored

LEMMA LatestNat ==
  ASSUME requests \in [Kinds -> Nat]
  PROVE  Latest \in Nat /\ Latest >= 1
  BY DEF Latest, Kinds

LEMMA IssueFacts ==
  ASSUME requests \in [Kinds -> Nat], NEW kind \in Kinds, Issue(kind)
  PROVE  requests' \in [Kinds -> Nat] /\ Latest' = Latest + 1
<1>1. requests' = [requests EXCEPT ![kind] = requests[kind] + 1]
  BY DEF Issue
<1>2. requests' \in [Kinds -> Nat]
  BY <1>1
<1>3. CASE kind = "generate"
  BY <1>1, <1>3 DEF Latest, Kinds
<1>4. CASE kind = "evaluate"
  BY <1>1, <1>4 DEF Latest, Kinds
<1>5. CASE kind = "judge"
  BY <1>1, <1>5 DEF Latest, Kinds
<1>. QED  BY <1>2, <1>3, <1>4, <1>5 DEF Kinds

LEMMA SameLatest ==
  ASSUME requests' = requests
  PROVE  Latest' = Latest
  BY DEF Latest

-----------------------------------------------------------------------------
(* What a step of one handler leaves to the others *)

LEMMA ExcusedKept ==
  ASSUME NEW text, NEW c, Excused(text, c), NEW n, Later(n),
         version \in Nat, version' \in Nat
  PROVE  Excused(text, c)'
  BY DEF Excused, Later

LEMMA TargetIsKept ==
  ASSUME NEW c, TargetKept(c), NEW n, Later(n), version \in Nat, version' \in Nat, version >= 1
  PROVE  TargetKept(c)'
<1>1. (c.key.path \subseteq Written)'
  BY DEF TargetKept, Later
<1>2. ASSUME NEW p \in c.key.path, p \notin changed'
      PROVE  artifacts'[p] = c.text
  <2>1. p \in Written /\ p \notin changed
    BY <1>2 DEF TargetKept, Later
  <2>. QED  BY <1>2, <2>1 DEF TargetKept, Later
<1>3. c.key.path = {} => c.key.run \subseteq {0}
  BY DEF TargetKept
<1>4. c.key.path = {} /\ version' = 1 => c.text = TextOf(c.type, 1)
  BY DEF TargetKept, Later
<1>5. \A text \in c.judge : Excused(text, c)'
  BY ExcusedKept DEF TargetKept
<1>. QED  BY <1>1, <1>2, <1>3, <1>4, <1>5 DEF TargetKept

LEMMA HandlerKept ==
  ASSUME NEW v, HandlerInv(v), NEW n, Later(n), v.id # n,
         requests \in [Kinds -> Nat], requests' \in [Kinds -> Nat],
         version \in Nat, version' \in Nat, version >= 1
  PROVE  HandlerInv(v)'
<1>0. Latest \in Nat /\ Latest' \in Nat /\ Latest <= Latest'
  BY LatestNat DEF Latest, Later, Kinds
<1>1. IsRequest(v, Latest')
  BY <1>0, RequestGrows DEF HandlerInv
<1>2. v.id # 0 /\ v.op \in Ops
  BY <1>0 DEF HandlerInv, IsRequest
<1>3. FreshOf(v)'
  <2>1. v.id \in Written' <=> v.id \in Written
    BY <1>2 DEF Later
  <2>2. v.id \in DOMAIN rows' <=> v.id \in DOMAIN rows
    BY DEF Later
  <2>3. v.evaluation \in DOMAIN rows => v.evaluation \in DOMAIN rows'
    BY DEF Later
  <2>. QED  BY <2>1, <2>2, <2>3 DEF HandlerInv, FreshOf
<1>4. RecordsOf(v)'
  <2>1. v.op = "review" => {v.id} \X SavedContexts(v.pc) \subseteq DOMAIN contexts'
    BY DEF HandlerInv, RecordsOf, Later
  <2>2. v.evaluation \in DOMAIN rows \/ v.evaluation # n
    BY <1>2 DEF HandlerInv, IsRequest, FreshOf
  <2>3. ASSUME NEW c \in v.card
        PROVE  /\ v.op = "judge" => c.text = rows'[v.evaluation].text /\ c.verdict = rows'[v.evaluation].verdict
               /\ v.pc \in {"report", "row"} => v.evaluation \in DOMAIN jsons' /\ jsons'[v.evaluation].verdict = c.verdict
               /\ v.pc = "row" => v.evaluation \in DOMAIN reports' /\ reports'[v.evaluation].verdict = c.verdict
    BY <2>2 DEF HandlerInv, RecordsOf, FreshOf, Later
  <2>. QED  BY <2>1, <2>3 DEF RecordsOf
<1>5. JudgeOf(v)'
  <2>1. \A c \in v.card : TargetKept(c)'
    BY TargetIsKept DEF HandlerInv, JudgeOf
  <2>2. v.pc = "judge" => \A text \in v.text, c \in v.card : Excused(text, c)'
    BY ExcusedKept DEF HandlerInv, JudgeOf
  <2>3. ASSUME v.op = "retrieval" /\ v.pc = "score", 0 \notin changed'
        PROVE  0 \in DOMAIN artifacts' /\ \A ask \in v.ask : artifacts'[0] = ask.pack.text
    <3>1. 0 \notin changed
      BY <2>3 DEF Later
    <3>2. 0 \in DOMAIN artifacts /\ \A ask \in v.ask : artifacts[0] = ask.pack.text
      BY <2>3, <3>1 DEF HandlerInv, JudgeOf
    <3>. QED  BY <2>3, <3>2 DEF Later, Written
  <2>. QED  BY <2>1, <2>2, <2>3 DEF JudgeOf
<1>. QED  BY <1>1, <1>3, <1>4, <1>5 DEF HandlerInv

\* A step of a handler that does what it should to its own records does
\* nothing to another handler.
LEMMA StepKeeps ==
  ASSUME IInv, NEW w \in Workers, worker[w] # Idle, Later(worker[w].id),
         NEW r, worker' = [worker EXCEPT ![w] = r],
         r = Idle \/ (HandlerInv(r)' /\ r.id = worker[w].id),
         requests' = requests, StoresTyped', RecordsHaveFiles', RowsKept'
  PROVE  Kept
<1>1. worker'[w] = r /\ \A u \in Workers : u # w => worker'[u] = worker[u]
  BY DEF IInv, WorkersInv
<1>2. (worker = [u \in Workers |-> worker[u]])'
  BY DEF IInv, WorkersInv
<1>3. version \in Nat /\ version' \in Nat /\ version >= 1
  BY ConstantsAssumption DEF IInv, StoresTyped, ConstantsAssumption
<1>4. ASSUME NEW u \in Workers
      PROVE  (worker[u] = Idle \/ HandlerInv(worker[u]))'
  <2>1. CASE u = w
    <3>1. CASE r = Idle
      BY <1>1, <2>1, <3>1
    <3>2. CASE HandlerInv(r)'
      BY <1>1, <2>1, <3>2
    <3>. QED  BY <3>1, <3>2
  <2>2. CASE u # w /\ worker[u] = Idle
    BY <1>1, <2>2
  <2>3. CASE u # w /\ worker[u] # Idle
    <3>1. HandlerInv(worker[u]) /\ worker[u].id # worker[w].id
      BY <2>3 DEF IInv, WorkersInv
    <3>2. PICK v : v = worker[u]
      OBVIOUS
    <3>3. HandlerInv(v)'
      BY <1>3, <3>1, <3>2, HandlerKept DEF IInv
    <3>4. v = worker'[u]
      BY <1>1, <2>3, <3>2
    <3>. QED  BY <3>3, <3>4
  <2>. QED  BY <2>1, <2>2, <2>3
<1>5. ASSUME NEW u \in Workers, NEW x \in Workers, u # x, worker'[u] # Idle, worker'[x] # Idle
      PROVE  worker'[u].id # worker'[x].id
  BY <1>1, <1>5 DEF IInv, WorkersInv
<1>6. WorkersInv'
  BY <1>2, <1>4, <1>5 DEF WorkersInv
<1>. QED  BY <1>6 DEF IInv, Kept, RowsStay, Later

\* A step that changes no store.
LEMMA StillGrows ==
  ASSUME IInv, UNCHANGED <<sources, stores, requests>>, NEW n
  PROVE  /\ Later(n) /\ Latest' = Latest
         /\ StoresTyped' /\ RecordsHaveFiles' /\ RowsKept'
<1>1. Latest' = Latest /\ Latest \in Nat
  BY LatestNat DEF Latest, IInv
<1>2. UNCHANGED <<artifacts, changed, version, contexts, audit, rows, jsons, reports>>
  BY DEF sources, stores
<1>3. version \in Nat
  BY ConstantsAssumption DEF IInv, StoresTyped, ConstantsAssumption
<1>4. Later(n)
  BY <1>1, <1>2, <1>3 DEF Later, Written
<1>5. StoresTyped'
  BY <1>1, <1>2 DEF IInv, StoresTyped
<1>6. RecordsHaveFiles'
  BY <1>2 DEF IInv, RecordsHaveFiles
<1>7. RowsKept'
  BY <1>2 DEF IInv, RowsKept, TargetKept, Excused, Written
<1>. QED  BY <1>1, <1>4, <1>5, <1>6, <1>7

LEMMA LocalStep ==
  ASSUME IInv, NEW w \in Workers, worker[w] # Idle, NEW r, HandlerInv(r), r.id = worker[w].id, Local(w, r)
  PROVE  Kept
<1>1. /\ worker' = [worker EXCEPT ![w] = r]
      /\ UNCHANGED <<artifacts, changed, version, contexts, audit, rows, jsons, reports, requests>>
      /\ UNCHANGED <<sources, stores, requests>>
  BY DEF Local, sources, stores, bounds
<1>2. Later(worker[w].id) /\ Latest' = Latest /\ StoresTyped' /\ RecordsHaveFiles' /\ RowsKept'
  BY <1>1, StillGrows
<1>3. HandlerInv(r)'
  BY <1>1, <1>2 DEF HandlerInv, FreshOf, RecordsOf, JudgeOf, TargetKept, Excused, Written
<1>. QED  BY <1>1, <1>2, <1>3, StepKeeps

LEMMA Stops ==
  ASSUME IInv, NEW w \in Workers, worker[w] # Idle, Return(w), UNCHANGED <<sources, stores, requests>>
  PROVE  Kept
<1>1. worker' = [worker EXCEPT ![w] = Idle] /\ requests' = requests
  BY DEF Return
<1>2. Later(worker[w].id) /\ StoresTyped' /\ RecordsHaveFiles' /\ RowsKept'
  BY StillGrows
<1>. QED  BY <1>1, <1>2, StepKeeps

LEMMA Fails ==
  ASSUME IInv, NEW w \in Workers, worker[w] # Idle, Fail(w)
  PROVE  Kept
  BY Stops DEF Fail, sources, stores, bounds

-----------------------------------------------------------------------------
(* Edits *)

LEMMA EditKeeps ==
  ASSUME IInv, Later(0), UNCHANGED <<stores, worker, requests>>, StoresTyped'
  PROVE  Kept
<1>1. UNCHANGED <<contexts, audit, rows, jsons, reports, worker, requests>>
  BY DEF stores
<1>2. version \in Nat /\ version' \in Nat /\ version >= 1 /\ Latest \in Nat
  BY ConstantsAssumption, LatestNat DEF IInv, StoresTyped, ConstantsAssumption
<1>3. RecordsHaveFiles'
  BY <1>1 DEF IInv, RecordsHaveFiles, Later, Written
<1>4. RowsKept'
  BY <1>1, <1>2, TargetIsKept DEF IInv, RowsKept
<1>5. ASSUME NEW u \in Workers, worker[u] # Idle
      PROVE  HandlerInv(worker[u])'
  <2>1. HandlerInv(worker[u]) /\ worker[u].id # 0
    BY <1>2, <1>5 DEF IInv, WorkersInv, HandlerInv, IsRequest
  <2>2. PICK v : v = worker[u]
    OBVIOUS
  <2>3. HandlerInv(v)'
    BY <1>1, <1>2, <2>1, <2>2, HandlerKept DEF IInv
  <2>4. v = worker'[u]
    BY <1>1, <2>2
  <2>. QED  BY <2>3, <2>4
<1>6. WorkersInv'
  BY <1>1, <1>5 DEF IInv, WorkersInv
<1>. QED  BY <1>1, <1>3, <1>4, <1>6 DEF IInv, Kept, RowsStay, Later

LEMMA EditArtifactKeeps ==
  ASSUME IInv, NEW path, NEW id \in Answers, EditArtifact(path, id)
  PROVE  Kept
<1>1. /\ artifacts' = [artifacts EXCEPT ![path] = id] /\ path \in DOMAIN artifacts
      /\ changed' = changed \cup {path} /\ version' = version
      /\ UNCHANGED <<contexts, audit, rows, jsons, reports, worker, requests>>
      /\ UNCHANGED <<stores, worker, requests>>
  BY DEF EditArtifact, Edit, stores
<1>2. DOMAIN artifacts' = DOMAIN artifacts
  BY <1>1
<1>3. Latest' = Latest /\ Latest \in Nat /\ version \in Nat
  BY <1>1, SameLatest, LatestNat, ConstantsAssumption DEF IInv, StoresTyped, ConstantsAssumption
<1>4. id \in DOMAIN Text
  BY ConstantsAssumption DEF ConstantsAssumption
<1>5. Later(0)
  BY <1>1, <1>2, <1>3 DEF Later, Written
<1>6. StoresTyped'
  BY <1>1, <1>2, <1>3, <1>4 DEF IInv, StoresTyped
<1>. QED  BY <1>1, <1>5, <1>6, EditKeeps

LEMMA DeleteArtifactKeeps ==
  ASSUME IInv, NEW path, DeleteArtifact(path)
  PROVE  Kept
<1>1. /\ artifacts' = [p \in DOMAIN artifacts \ {path} |-> artifacts[p]] /\ path \in DOMAIN artifacts
      /\ changed' = changed \cup {path} /\ version' = version
      /\ UNCHANGED <<contexts, audit, rows, jsons, reports, worker, requests>>
      /\ UNCHANGED <<stores, worker, requests>>
  BY DEF DeleteArtifact, Edit, stores, Restrict
<1>2. DOMAIN artifacts' = DOMAIN artifacts \ {path}
  BY <1>1
<1>3. Latest' = Latest /\ Latest \in Nat /\ version \in Nat
  BY <1>1, SameLatest, LatestNat, ConstantsAssumption DEF IInv, StoresTyped, ConstantsAssumption
<1>4. Later(0)
  BY <1>1, <1>2, <1>3 DEF Later, Written
<1>5. StoresTyped'
  BY <1>1, <1>2, <1>3 DEF IInv, StoresTyped
<1>. QED  BY <1>1, <1>4, <1>5, EditKeeps

LEMMA ChangeCaseKeeps ==
  ASSUME IInv, ChangeCase
  PROVE  Kept
<1>1. /\ version' = version + 1 /\ version + 1 \in DOMAIN Case
      /\ UNCHANGED <<artifacts, changed, contexts, audit, rows, jsons, reports, worker, requests>>
      /\ UNCHANGED <<stores, worker, requests>>
  BY DEF ChangeCase, Edit, stores
<1>2. Latest' = Latest /\ Latest \in Nat /\ version \in Nat
  BY <1>1, SameLatest, LatestNat, ConstantsAssumption DEF IInv, StoresTyped, ConstantsAssumption
<1>3. Later(0)
  BY <1>1, <1>2 DEF Later, Written
<1>4. StoresTyped'
  BY <1>1, <1>2 DEF IInv, StoresTyped
<1>. QED  BY <1>1, <1>3, <1>4, EditKeeps

-----------------------------------------------------------------------------
(* Requests *)

\* A number that is not given yet is nowhere.
LEMMA NewNumber ==
  ASSUME IInv
  PROVE  /\ Latest \in Nat /\ Latest >= 1 /\ Latest + 1 \notin Written /\ Latest + 1 \notin DOMAIN rows
         /\ Latest + 1 \in 2..(Latest + 1) /\ Latest + 1 \in 1..(Latest + 1)
<1>1. Latest \in Nat /\ Latest >= 1
  BY LatestNat DEF IInv
<1>2. Latest + 1 \notin 0..Latest /\ Latest + 1 \notin 1..Latest
  BY <1>1
<1>. QED  BY <1>1, <1>2 DEF IInv, StoresTyped, Stored, Written

LEMMA RequestKeeps ==
  ASSUME IInv, NEW w \in Workers, NEW kind \in Kinds, NEW r, Serve(w, kind, r),
         r.id = Latest + 1, IsRequest(r, Latest + 1), FreshOf(r), RecordsOf(r), JudgeOf(r)
  PROVE  Kept
<1>1. /\ worker' = [worker EXCEPT ![w] = r] /\ worker[w] = Idle
      /\ UNCHANGED <<artifacts, changed, version, contexts, audit, rows, jsons, reports>>
  BY DEF Serve, sources, stores
<1>2. requests' \in [Kinds -> Nat] /\ Latest' = Latest + 1
  BY IssueFacts DEF Serve, IInv
<1>3. Latest \in Nat /\ Latest' \in Nat /\ Latest <= Latest'
  BY <1>2, NewNumber
<1>4. version \in Nat /\ version >= 1
  BY ConstantsAssumption DEF IInv, StoresTyped, ConstantsAssumption
<1>5. Later(0)
  BY <1>1, <1>3, <1>4 DEF Later, Written
<1>6. StoresTyped'
  <2>1. Stored(rows, Latest') /\ Stored(jsons, Latest') /\ Stored(reports, Latest')
    BY <1>3, StoredGrows DEF IInv, StoresTyped
  <2>2. 0..Latest \subseteq 0..Latest'
    BY <1>3
  <2>3. \A x \in audit : x.run \in 0..Latest'
    BY <2>2 DEF IInv, StoresTyped
  <2>4. DOMAIN contexts \subseteq (0..Latest') \X {"trail", "pack", "preview"}
    BY <2>2 DEF IInv, StoresTyped
  <2>. QED  BY <1>1, <2>1, <2>2, <2>3, <2>4 DEF IInv, StoresTyped
<1>7. RecordsHaveFiles' /\ RowsKept'
  BY <1>1 DEF IInv, RecordsHaveFiles, RowsKept, TargetKept, Excused, Written
<1>8. HandlerInv(r)'
  BY <1>1, <1>2 DEF HandlerInv, FreshOf, RecordsOf, JudgeOf, TargetKept, Excused, Written
<1>9. worker'[w] = r /\ \A u \in Workers : u # w => worker'[u] = worker[u]
  BY <1>1 DEF IInv, WorkersInv
<1>10. ASSUME NEW u \in Workers, worker[u] # Idle
       PROVE  HandlerInv(worker[u])' /\ worker'[u] = worker[u] /\ worker[u].id # r.id
  <2>1. HandlerInv(worker[u]) /\ worker[u].id \in 2..Latest
    BY <1>10 DEF IInv, WorkersInv, HandlerInv, IsRequest
  <2>2. worker[u].id # 0 /\ worker[u].id # r.id
    BY <1>3, <2>1
  <2>3. PICK v : v = worker[u]
    OBVIOUS
  <2>4. HandlerInv(v)'
    BY <1>1, <1>2, <1>4, <1>5, <2>1, <2>2, <2>3, HandlerKept DEF IInv
  <2>5. v = worker'[u]
    BY <1>1, <1>9, <1>10, <2>3
  <2>. QED  BY <2>2, <2>3, <2>4, <2>5
<1>11. (worker = [u \in Workers |-> worker[u]])'
  BY <1>1 DEF IInv, WorkersInv
<1>12. ASSUME NEW u \in Workers
       PROVE  (worker[u] = Idle \/ HandlerInv(worker[u]))'
  <2>1. CASE u = w
    BY <1>8, <1>9, <2>1
  <2>2. CASE u # w /\ worker[u] = Idle
    BY <1>9, <2>2
  <2>3. CASE u # w /\ worker[u] # Idle
    BY <1>10, <2>3
  <2>. QED  BY <2>1, <2>2, <2>3
<1>13. ASSUME NEW u \in Workers, NEW x \in Workers, u # x, worker'[u] # Idle, worker'[x] # Idle
       PROVE  worker'[u].id # worker'[x].id
  BY <1>9, <1>10, <1>13 DEF IInv, WorkersInv
<1>14. WorkersInv'
  BY <1>11, <1>12, <1>13 DEF WorkersInv
<1>. QED  BY <1>2, <1>5, <1>6, <1>7, <1>14 DEF IInv, Kept, RowsStay, Later

LEMMA FreshFields ==
  ASSUME NEW op, NEW pc
  PROVE  Fresh(op, pc) = [pc |-> pc, op |-> op, id |-> Latest + 1, evaluation |-> Latest + 1,
                          text |-> {}, sources |-> {}, kept |-> {}, ask |-> {}, card |-> {}]
  BY DEF Fresh

LEMMA DraftKeeps ==
  ASSUME IInv, NEW w \in Workers, NEW ask, Draft(w, ask)
  PROVE  Kept
<1>1. PICK r : r = [Fresh("draft", "complete") EXCEPT !.sources = DraftLines[ask]]
  OBVIOUS
<1>2. r = [pc |-> "complete", op |-> "draft", id |-> Latest + 1, evaluation |-> Latest + 1, text |-> {},
           sources |-> DraftLines[ask], kept |-> {}, ask |-> {}, card |-> {}]
  BY <1>1, FreshFields
<1>3. IsRequest(r, Latest + 1)
  BY <1>2, NewNumber DEF IsRequest, Moved, Ops, Generating, Steps
<1>4. FreshOf(r) /\ RecordsOf(r) /\ JudgeOf(r)
  BY <1>2, NewNumber DEF FreshOf, RecordsOf, JudgeOf, Evaluating
<1>5. Serve(w, "generate", r) /\ r.id = Latest + 1
  BY <1>1, <1>2 DEF Draft
<1>. QED  BY <1>3, <1>4, <1>5, RequestKeeps DEF Kinds

LEMMA ReviewKeeps ==
  ASSUME IInv, NEW w \in Workers, NEW ask, Review(w, ask)
  PROVE  Kept
<1>1. PICK from, kept : Serve(w, "generate", [Fresh("review", "trail") EXCEPT !.sources = from, !.kept = kept])
  BY DEF Review
<1>2. PICK r : r = [Fresh("review", "trail") EXCEPT !.sources = from, !.kept = kept]
  OBVIOUS
<1>3. r = [pc |-> "trail", op |-> "review", id |-> Latest + 1, evaluation |-> Latest + 1, text |-> {},
           sources |-> from, kept |-> kept, ask |-> {}, card |-> {}]
  BY <1>2, FreshFields
<1>4. IsRequest(r, Latest + 1)
  BY <1>3, NewNumber DEF IsRequest, Moved, Ops, Generating, Steps
<1>5. FreshOf(r) /\ RecordsOf(r) /\ JudgeOf(r)
  BY <1>3, NewNumber DEF FreshOf, RecordsOf, JudgeOf, Evaluating, SavedContexts
<1>6. Serve(w, "generate", r)
  BY <1>1, <1>2
<1>7. r.id = Latest + 1
  BY <1>3
<1>. QED  BY <1>4, <1>5, <1>6, <1>7, RequestKeeps DEF Kinds

LEMMA RunTestgenKeeps ==
  ASSUME IInv, NEW w \in Workers, RunTestgen(w)
  PROVE  Kept
<1>1. PICK r : r = [Fresh("testgen", "artifact") EXCEPT !.text = {Report}]
  OBVIOUS
<1>2. r = [pc |-> "artifact", op |-> "testgen", id |-> Latest + 1, evaluation |-> Latest + 1, text |-> {Report},
           sources |-> {}, kept |-> {}, ask |-> {}, card |-> {}]
  BY <1>1, FreshFields
<1>3. IsRequest(r, Latest + 1)
  BY <1>2, NewNumber, ConstantsAssumption DEF IsRequest, Moved, Ops, Generating, Steps, ConstantsAssumption
<1>4. FreshOf(r) /\ RecordsOf(r) /\ JudgeOf(r)
  BY <1>2, NewNumber DEF FreshOf, RecordsOf, JudgeOf, Evaluating
<1>5. Serve(w, "generate", r) /\ r.id = Latest + 1
  BY <1>1, <1>2 DEF RunTestgen
<1>. QED  BY <1>3, <1>4, <1>5, RequestKeeps DEF Kinds

LEMMA KeysTyped ==
  ASSUME IInv, NEW key \in Keys
  PROVE  IsKey(key, Latest + 1)
<1>1. Latest \in Nat
  BY NewNumber
<1>2. 0..Latest \subseteq 0..(Latest + 1)
  BY <1>1
<1>3. CASE \E path \in DOMAIN artifacts : key = Key({path}, {}, FALSE)
  BY <1>2, <1>3 DEF IInv, StoresTyped, Key, IsKey
<1>4. CASE \E run \in Evaluable : key = Key({}, {run}, FALSE)
  BY <1>2, <1>4 DEF IInv, StoresTyped, Key, IsKey, Evaluable
<1>5. CASE key = Key({}, {}, TRUE)
  BY <1>5 DEF Key, IsKey
<1>. QED  BY <1>3, <1>4, <1>5 DEF Keys

LEMMA EvaluateKeeps ==
  ASSUME IInv, NEW w \in Workers, NEW ask, NEW key \in Keys, Evaluate(w, ask, key)
  PROVE  Kept
<1>1. PICK r : r = [Fresh("evaluate", "load") EXCEPT !.ask = {Keyed(ask, key)}]
  OBVIOUS
<1>2. r = [pc |-> "load", op |-> "evaluate", id |-> Latest + 1, evaluation |-> Latest + 1, text |-> {},
           sources |-> {}, kept |-> {}, ask |-> {Keyed(ask, key)}, card |-> {}]
  BY <1>1, FreshFields
<1>3. Keyed(ask, key).key = key /\ IsKey(key, Latest + 1)
  BY KeysTyped DEF Keyed
<1>4. IsRequest(r, Latest + 1)
  BY <1>2, <1>3, NewNumber DEF IsRequest, Moved, Ops, Evaluating, Steps
<1>5. FreshOf(r) /\ RecordsOf(r) /\ JudgeOf(r)
  BY <1>2, NewNumber DEF FreshOf, RecordsOf, JudgeOf, Generating
<1>6. Serve(w, "evaluate", r) /\ r.id = Latest + 1
  BY <1>1, <1>2 DEF Evaluate
<1>. QED  BY <1>4, <1>5, <1>6, RequestKeeps DEF Kinds

LEMMA JudgeExistingKeeps ==
  ASSUME IInv, NEW w \in Workers, NEW id \in DOMAIN rows, JudgeExisting(w, id)
  PROVE  Kept
<1>1. PICK r : r = [Fresh("judge", "load") EXCEPT !.evaluation = id, !.card = {rows[id]}]
  OBVIOUS
<1>2. r = [pc |-> "load", op |-> "judge", id |-> Latest + 1, evaluation |-> id, text |-> {},
           sources |-> {}, kept |-> {}, ask |-> {}, card |-> {rows[id]}]
  BY <1>1, FreshFields
<1>3. IsScorecard(rows[id], Latest + 1) /\ id \in 1..(Latest + 1)
  <2>1. Latest \in Nat /\ IsScorecard(rows[id], Latest) /\ id \in 1..Latest
    BY NewNumber DEF IInv, StoresTyped, Stored
  <2>. QED  BY <2>1, ScorecardGrows
<1>4. IsRequest(r, Latest + 1)
  BY <1>2, <1>3, NewNumber DEF IsRequest, Moved, Ops, Evaluating, Steps
<1>5. FreshOf(r) /\ RecordsOf(r)
  BY <1>2, NewNumber DEF FreshOf, RecordsOf, Generating, Evaluating
<1>6. JudgeOf(r)
  BY <1>2 DEF JudgeOf, IInv, RowsKept
<1>7. Serve(w, "judge", r)
  BY <1>1 DEF JudgeExisting
<1>8. r.id = Latest + 1
  BY <1>2
<1>. QED  BY <1>4, <1>5, <1>6, <1>7, <1>8, RequestKeeps DEF Kinds

LEMMA EvaluateRetrievalKeeps ==
  ASSUME IInv, NEW w \in Workers, NEW ask \in Retrievals, EvaluateRetrieval(w, ask)
  PROVE  Kept
<1>1. PICK r : r = [Fresh("retrieval", "trail") EXCEPT !.ask = {ask}, !.sources = CaseSources, !.kept = CaseSources]
  OBVIOUS
<1>2. r = [pc |-> "trail", op |-> "retrieval", id |-> Latest + 1, evaluation |-> Latest + 1, text |-> {},
           sources |-> CaseSources, kept |-> CaseSources, ask |-> {ask}, card |-> {}]
  BY <1>1, FreshFields
<1>3. IsRequest(r, Latest + 1)
  BY <1>2, NewNumber DEF IsRequest, Moved, Ops, Evaluating, Steps
<1>4. FreshOf(r) /\ RecordsOf(r) /\ JudgeOf(r)
  BY <1>2, NewNumber DEF FreshOf, RecordsOf, JudgeOf, Generating
<1>5. Serve(w, "evaluate", r)
  BY <1>1 DEF EvaluateRetrieval
<1>6. r.id = Latest + 1
  BY <1>2
<1>. QED  BY <1>3, <1>4, <1>5, <1>6, RequestKeeps DEF Kinds

-----------------------------------------------------------------------------
(* Steps of a handler: where it is and where it goes *)

LEMMA Busy ==
  ASSUME IInv, NEW w \in Workers, NEW pc, At(w, pc), pc # "idle"
  PROVE  worker[w] # Idle /\ HandlerInv(worker[w]) /\ worker[w].pc = pc
  BY DEF IInv, WorkersInv, At, Idle

LEMMA MovedTyped ==
  ASSUME NEW v, NEW n, IsRequest(v, n), NEW pc \in Steps(v.op), NEW text, text \subseteq DOMAIN Text,
         NEW from, NEW card, \A c \in card : IsScorecard(c, n), \A c, d \in card : c = d
  PROVE  IsRequest(Moved(v, pc, text, from, card), n)
  BY DEF IsRequest, Moved

LEMMA MovedSame ==
  ASSUME NEW v, NEW n, IsRequest(v, n), NEW pc \in Steps(v.op)
  PROVE  IsRequest(Moved(v, pc, v.text, v.sources, v.card), n)
  BY DEF IsRequest, Moved

LEMMA GoesTo ==
  ASSUME NEW w \in Workers, NEW n, IsRequest(worker[w], n), NEW pc, GoTo(w, pc),
         worker = [u \in Workers |-> worker[u]]
  PROVE  worker' = [worker EXCEPT ![w] =
                        Moved(worker[w], pc, worker[w].text, worker[w].sources, worker[w].card)]
<1>1. [worker[w] EXCEPT !.pc = pc] = Moved(worker[w], pc, worker[w].text, worker[w].sources, worker[w].card)
  BY DEF IsRequest, Moved
<1>. QED  BY <1>1 DEF GoTo

\* A handler that moves on with what it holds, having changed the stores.
LEMMA MovesOn ==
  ASSUME IInv, NEW w \in Workers, NEW v, v = worker[w], v # Idle, NEW pc \in Steps(v.op), GoTo(w, pc),
         Later(v.id), requests' = requests, pc \notin {"judge", "score"},
         StoresTyped', RecordsHaveFiles', RowsKept',
         NEW r, r = Moved(v, pc, v.text, v.sources, v.card),
         FreshOf(r)', RecordsOf(r)'
  PROVE  Kept
<1>1. HandlerInv(v)
  BY DEF IInv, WorkersInv
<1>0. IsRequest(v, Latest) /\ worker = [u \in Workers |-> worker[u]]
  BY <1>1 DEF HandlerInv, IInv, WorkersInv
<1>2. worker' = [worker EXCEPT ![w] = r]
  BY <1>0, GoesTo
<1>3. IsRequest(r, Latest)
  BY <1>0, MovedSame
<1>4. Latest' = Latest
  BY SameLatest
<1>5. version \in Nat /\ version' \in Nat /\ version >= 1
  BY ConstantsAssumption DEF IInv, StoresTyped, ConstantsAssumption
<1>6. r.id = v.id /\ r.pc = pc /\ r.card = v.card
  BY MovedFields
<1>7. \A c \in r.card : TargetKept(c)'
  BY <1>1, <1>5, <1>6, TargetIsKept DEF HandlerInv, JudgeOf
<1>8. JudgeOf(r)'
  BY <1>6, <1>7 DEF JudgeOf
<1>9. HandlerInv(r)'
  BY <1>3, <1>4, <1>8 DEF HandlerInv
<1>. QED  BY <1>2, <1>6, <1>9, StepKeeps

\* Rows and the log are as before.
LEMMA RecordsKept ==
  ASSUME IInv, NEW n, Later(n), UNCHANGED <<audit, rows, version>>
  PROVE  RecordsHaveFiles' /\ RowsKept'
<1>1. version \in Nat /\ version' \in Nat /\ version >= 1
  BY ConstantsAssumption DEF IInv, StoresTyped, ConstantsAssumption
<1>2. RowsKept'
  BY <1>1, TargetIsKept DEF IInv, RowsKept
<1>3. ASSUME NEW r \in audit'
      PROVE  /\ r.use \in WritesArtifact => r.run \in DOMAIN artifacts' \cup changed'
             /\ r.use = "review" => {r.run} \X {"trail", "pack", "preview"} \subseteq DOMAIN contexts'
             /\ r.use \in {"evaluate", "retrieval"} => r.run \in DOMAIN rows'
  BY <1>3 DEF IInv, RecordsHaveFiles, Later, Written
<1>4. ASSUME NEW id \in DOMAIN rows'
      PROVE  /\ id \in DOMAIN jsons' \cap DOMAIN reports'
             /\ rows'[id].verdict = jsons'[id].verdict /\ rows'[id].verdict = reports'[id].verdict
  BY <1>4 DEF IInv, RecordsHaveFiles, Later
<1>. QED  BY <1>2, <1>3, <1>4 DEF RecordsHaveFiles

-----------------------------------------------------------------------------
(* Contexts and artifacts *)

LEMMA SaveContextKeeps ==
  ASSUME IInv, NEW w \in Workers, NEW kind, NEW next, SaveContext(w, kind, next), UNCHANGED sources,
         \/ kind = "trail" /\ next = "pack"
         \/ kind = "pack" /\ next = "preview" /\ worker[w].op = "review"
         \/ kind = "preview" /\ next = "complete"
  PROVE  Kept
<1>1. worker[w] # Idle /\ HandlerInv(worker[w]) /\ worker[w].pc = kind
  BY Busy DEF SaveContext
<1>2. PICK v : v = worker[w]
  OBVIOUS
<1>3. PICK what : contexts' = Put(contexts, <<ContextId(w), kind>>, what)
  BY DEF SaveContext
<1>4. /\ UNCHANGED <<artifacts, changed, version, audit, rows, jsons, reports, requests>>
      /\ Latest' = Latest /\ Latest \in Nat /\ version \in Nat
  BY SameLatest, LatestNat, ConstantsAssumption
     DEF SaveContext, sources, bounds, IInv, StoresTyped, ConstantsAssumption
<1>5. DOMAIN contexts' = DOMAIN contexts \cup {<<ContextId(w), kind>>}
  BY <1>3 DEF Put
<1>6. v.op \in Ops /\ v.pc = kind /\ kind \in Steps(v.op) /\ v.id \in 0..Latest
  BY <1>1, <1>2, <1>4 DEF HandlerInv, IsRequest
<1>7. (v.op = "review" \/ (v.op = "retrieval" /\ kind = "trail")) /\ next \in Steps(v.op)
  BY <1>2, <1>6 DEF Steps, Ops, Generating, Evaluating
<1>8. ContextId(w) \in 0..Latest /\ (v.op = "review" => ContextId(w) = v.id)
  BY <1>2, <1>4, <1>6 DEF ContextId
<1>9. Later(v.id)
  BY <1>4, <1>5 DEF Later, Written
<1>10. StoresTyped'
  <2>1. DOMAIN contexts' \subseteq (0..Latest') \X {"trail", "pack", "preview"}
    BY <1>4, <1>5, <1>8 DEF IInv, StoresTyped
  <2>. QED  BY <1>4, <2>1 DEF IInv, StoresTyped
<1>11. RecordsHaveFiles' /\ RowsKept'
  BY <1>4, <1>9, RecordsKept
<1>12. PICK r : r = Moved(v, next, v.text, v.sources, v.card)
  OBVIOUS
<1>13. r.op = v.op /\ r.id = v.id /\ r.pc = next /\ r.card = v.card /\ r.evaluation = v.evaluation
  BY <1>12, MovedFields
<1>14. FreshOf(r)'
  BY <1>1, <1>2, <1>4, <1>6, <1>7, <1>13 DEF HandlerInv, FreshOf, Written
<1>15. RecordsOf(r)'
  <2>1. v.op = "review" => {v.id} \X SavedContexts(kind) \subseteq DOMAIN contexts
    BY <1>1, <1>2 DEF HandlerInv, RecordsOf
  <2>2. SavedContexts(next) \subseteq SavedContexts(kind) \cup {kind}
    BY DEF SavedContexts
  <2>3. v.op = "review" => {v.id} \X SavedContexts(next) \subseteq DOMAIN contexts'
    BY <1>5, <1>8, <2>1, <2>2
  <2>4. r.pc \notin {"report", "row"} /\ r.op # "judge"
    BY <1>7, <1>13
  <2>. QED  BY <1>13, <2>3, <2>4 DEF RecordsOf
<1>16. GoTo(w, next) /\ next \notin {"judge", "score"}
  BY DEF SaveContext
<1>. QED  BY <1>1, <1>2, <1>4, <1>7, <1>9, <1>10, <1>11, <1>12, <1>14, <1>15, <1>16, MovesOn

LEMMA SaveTrailKeeps ==
  ASSUME IInv, NEW w \in Workers, SaveTrail(w)
  PROVE  Kept
  BY SaveContextKeeps DEF SaveTrail

LEMMA SavePackKeeps ==
  ASSUME IInv, NEW w \in Workers, SavePack(w)
  PROVE  Kept
  BY SaveContextKeeps DEF SavePack

LEMMA SavePreviewKeeps ==
  ASSUME IInv, NEW w \in Workers, SavePreview(w)
  PROVE  Kept
  BY SaveContextKeeps DEF SavePreview

\* The pack that is scored next is the one that was written, unless another
\* one has replaced it.
LEMMA SaveCasePackKeeps ==
  ASSUME IInv, NEW w \in Workers, SaveCasePack(w)
  PROVE  Kept
<1>1. worker[w] # Idle /\ HandlerInv(worker[w]) /\ worker[w].pc = "pack"
  BY Busy DEF SaveCasePack
<1>2. PICK v : v = worker[w]
  OBVIOUS
<1>3. v.op = "retrieval" /\ v.id \in 2..Latest /\ v.ask \subseteq Retrievals
  BY <1>1, <1>2 DEF SaveCasePack, HandlerInv, IsRequest
<1>read. PICK ask \in v.ask : \E what :
        /\ contexts' = Put(contexts, <<0, "pack">>, what)
        /\ artifacts' = Put(artifacts, 0, ask.pack.text)
  BY <1>2, <1>3 DEF SaveCasePack, SaveContext, ContextId
<1>4. PICK what :
        /\ contexts' = Put(contexts, <<0, "pack">>, what)
        /\ artifacts' = Put(artifacts, 0, ask.pack.text)
  BY <1>read
<1>5. /\ changed' = changed \cup ({0} \cap DOMAIN artifacts)
      /\ UNCHANGED <<version, audit, rows, jsons, reports, requests>>
      /\ Latest' = Latest /\ Latest \in Nat /\ version \in Nat
  BY SameLatest, LatestNat, ConstantsAssumption
     DEF SaveCasePack, SaveContext, bounds, IInv, StoresTyped, ConstantsAssumption
<1>6. DOMAIN contexts' = DOMAIN contexts \cup {<<0, "pack">>}
  BY <1>4 DEF Put
<1>7. /\ DOMAIN artifacts' = DOMAIN artifacts \cup {0} /\ artifacts'[0] = ask.pack.text
      /\ \A p \in DOMAIN artifacts : p # 0 => artifacts'[p] = artifacts[p]
  BY <1>4 DEF Put
<1>8. ask.pack.text \in DOMAIN Text
  BY <1>3, <1>4, ConstantsAssumption DEF ConstantsAssumption
<1>9. Later(v.id)
  BY <1>5, <1>6, <1>7 DEF Later, Written
<1>10. StoresTyped'
  <2>0. 0 \in 0..Latest
    BY <1>5
  <2>1. DOMAIN contexts' \subseteq (0..Latest') \X {"trail", "pack", "preview"}
    BY <1>5, <1>6, <2>0 DEF IInv, StoresTyped
  <2>2. DOMAIN artifacts' \subseteq 0..Latest' /\ changed' \subseteq 0..Latest'
    BY <1>5, <1>7, <2>0 DEF IInv, StoresTyped
  <2>3. \A p \in DOMAIN artifacts' : artifacts'[p] \in DOMAIN Text
    BY <1>7, <1>8 DEF IInv, StoresTyped
  <2>. QED  BY <1>5, <2>1, <2>2, <2>3 DEF IInv, StoresTyped
<1>11. RecordsHaveFiles' /\ RowsKept'
  BY <1>5, <1>9, RecordsKept
<1>12. PICK r : r = Moved(v, "score", v.text, v.sources, v.card)
  OBVIOUS
<1>13. r.op = v.op /\ r.id = v.id /\ r.pc = "score" /\ r.card = v.card /\ r.ask = v.ask
  BY <1>12, MovedFields
<1>14. IsRequest(r, Latest')
  <2>1. "score" \in Steps(v.op)
    BY <1>3 DEF Steps
  <2>2. IsRequest(v, Latest')
    BY <1>1, <1>2, <1>5 DEF HandlerInv
  <2>. QED  BY <1>12, <2>1, <2>2, MovedSame
<1>15. worker' = [worker EXCEPT ![w] = r]
  BY <1>1, <1>2, <1>12, GoesTo DEF SaveCasePack, SaveContext, HandlerInv, IInv, WorkersInv
<1>16. FreshOf(r)' /\ RecordsOf(r)'
  BY <1>1, <1>2, <1>3, <1>5, <1>13 DEF HandlerInv, FreshOf, RecordsOf, Evaluating, Generating
<1>17. JudgeOf(r)'
  <2>1. \A c \in r.card : TargetKept(c)'
    BY <1>1, <1>2, <1>5, <1>9, <1>13, TargetIsKept DEF HandlerInv, JudgeOf, IInv, StoresTyped
  <2>2. \A other \in v.ask : other = ask
    BY <1>1, <1>2, <1>3, <1>4 DEF HandlerInv, IsRequest
  <2>. QED  BY <1>7, <1>13, <2>1, <2>2 DEF JudgeOf
<1>. QED  BY <1>1, <1>2, <1>5, <1>9, <1>10, <1>11, <1>13, <1>14, <1>15, <1>16, <1>17, StepKeeps DEF HandlerInv

LEMMA WriteArtifactKeeps ==
  ASSUME IInv, NEW w \in Workers, WriteArtifact(w)
  PROVE  Kept
<1>1. worker[w] # Idle /\ HandlerInv(worker[w]) /\ worker[w].pc = "artifact"
  BY Busy DEF WriteArtifact
<1>2. PICK v : v = worker[w]
  OBVIOUS
<1>3. v.op \in Generating /\ v.id \in 2..Latest /\ v.text \subseteq DOMAIN Text /\ "log" \in Steps(v.op)
  BY <1>1, <1>2 DEF HandlerInv, IsRequest, Ops, Generating, Evaluating, Steps
<1>4. v.id \notin Written
  BY <1>1, <1>2, <1>3 DEF HandlerInv, FreshOf
<1>5. PICK id \in v.text : artifacts' = Put(artifacts, v.id, id)
  BY <1>2 DEF WriteArtifact
<1>6. /\ UNCHANGED <<changed, version, contexts, audit, rows, jsons, reports, requests>>
      /\ Latest' = Latest /\ Latest \in Nat /\ version \in Nat
  BY SameLatest, LatestNat, ConstantsAssumption
     DEF WriteArtifact, stores, bounds, IInv, StoresTyped, ConstantsAssumption
<1>7. /\ DOMAIN artifacts' = DOMAIN artifacts \cup {v.id} /\ artifacts'[v.id] = id
      /\ \A p \in DOMAIN artifacts : p # v.id => artifacts'[p] = artifacts[p]
  BY <1>5 DEF Put
<1>8. Later(v.id)
  BY <1>4, <1>6, <1>7 DEF Later, Written
<1>9. StoresTyped'
  <2>1. DOMAIN artifacts' \subseteq 0..Latest'
    BY <1>3, <1>6, <1>7 DEF IInv, StoresTyped
  <2>2. \A p \in DOMAIN artifacts' : artifacts'[p] \in DOMAIN Text
    BY <1>3, <1>5, <1>7 DEF IInv, StoresTyped
  <2>. QED  BY <1>6, <2>1, <2>2 DEF IInv, StoresTyped
<1>10. RecordsHaveFiles' /\ RowsKept'
  BY <1>6, <1>8, RecordsKept
<1>11. PICK r : r = Moved(v, "log", v.text, v.sources, v.card)
  OBVIOUS
<1>12. r.op = v.op /\ r.id = v.id /\ r.pc = "log" /\ r.card = v.card
  BY <1>11, MovedFields
<1>13. FreshOf(r)'
  BY <1>3, <1>7, <1>12 DEF FreshOf, Generating, Evaluating, Written
<1>14. RecordsOf(r)'
  <2>1. SavedContexts("log") = SavedContexts("artifact")
    BY DEF SavedContexts
  <2>2. v.op = "review" => {v.id} \X SavedContexts("log") \subseteq DOMAIN contexts'
    BY <1>1, <1>2, <1>6, <2>1 DEF HandlerInv, RecordsOf
  <2>. QED  BY <1>3, <1>12, <2>2 DEF RecordsOf, Generating
<1>15. GoTo(w, "log")
  BY DEF WriteArtifact
<1>. QED  BY <1>1, <1>2, <1>3, <1>6, <1>8, <1>9, <1>10, <1>11, <1>13, <1>14, <1>15, MovesOn

-----------------------------------------------------------------------------
(* What an evaluation is of *)

LEMMA CaseTargetFacts ==
  ASSUME IInv, NEW type, NEW key, NEW target \in CaseTarget(type, key)
  PROVE  /\ target = [text |-> TextOf(type, version), sources |-> CaseSources,
                      key |-> [key EXCEPT !.case = TRUE]]
         /\ target.text \in DOMAIN Text
<1>1. target = [text |-> TextOf(type, version), sources |-> CaseSources, key |-> [key EXCEPT !.case = TRUE]]
  BY DEF CaseTarget, TextOf
<1>2. version \in DOMAIN Case
  BY DEF IInv, StoresTyped
<1>3. "requirement_case" \in DOMAIN Case[version] /\ Range(Case[version]) \subseteq DOMAIN Text
  BY <1>2, ConstantsAssumption DEF ConstantsAssumption
<1>4. TextOf(type, version) \in Range(Case[version])
  BY <1>3 DEF TextOf, Range
<1>. QED  BY <1>1, <1>3, <1>4

LEMMA ReadArtifactFacts ==
  ASSUME IInv, NEW path, NEW from, NEW key, NEW target \in ReadArtifact(path, from, key)
  PROVE  /\ target = [text |-> artifacts[path], sources |-> from, key |-> [key EXCEPT !.path = {path}]]
         /\ path \in DOMAIN artifacts /\ path \in 0..Latest
         /\ target.text \in DOMAIN Text
  BY DEF ReadArtifact, IInv, StoresTyped

\* What the target of a key, once it is in a scorecard, is true of.
TargetOf(type, key, target) ==
    /\ IsKey(target.key, Latest) /\ target.text \in DOMAIN Text
    /\ target.key.path \subseteq DOMAIN artifacts
    /\ \A p \in target.key.path : artifacts[p] = target.text
    /\ target.key.path = {} => target.key.run \subseteq {0} /\ target.text = TextOf(type, version)

LEMMA LoadTargetFacts ==
  ASSUME IInv, NEW type, NEW key, IsKey(key, Latest), NEW target \in LoadTarget(type, key)
  PROVE  TargetOf(type, key, target)
<1>1. ASSUME NEW p, NEW from, NEW k, IsKey(k, Latest), target \in ReadArtifact(p, from, k)
      PROVE  TargetOf(type, key, target)
  <2>0. target = [text |-> artifacts[p], sources |-> from, key |-> [k EXCEPT !.path = {p}]]
    BY <1>1, ReadArtifactFacts
  <2>1. /\ target.text = artifacts[p] /\ target.key = [k EXCEPT !.path = {p}]
        /\ p \in DOMAIN artifacts /\ p \in 0..Latest /\ target.text \in DOMAIN Text
    BY <1>1, <2>0, ReadArtifactFacts
  <2>2. IsKey(target.key, Latest) /\ target.key.path = {p}
    BY <1>1, <2>1 DEF IsKey
  <2>. QED  BY <2>1, <2>2 DEF TargetOf
<1>2. ASSUME key.path = {}, key.run \subseteq {0}, target \in CaseTarget(type, key)
      PROVE  TargetOf(type, key, target)
  <2>0. target = [text |-> TextOf(type, version), sources |-> CaseSources, key |-> [key EXCEPT !.case = TRUE]]
    BY <1>2, CaseTargetFacts
  <2>1. /\ target.text = TextOf(type, version) /\ target.key = [key EXCEPT !.case = TRUE]
        /\ target.text \in DOMAIN Text
    BY <1>2, <2>0, CaseTargetFacts
  <2>2. IsKey(target.key, Latest) /\ target.key.path = {} /\ target.key.run \subseteq {0}
    BY <1>2, <2>1 DEF IsKey
  <2>. QED  BY <2>1, <2>2 DEF TargetOf
<1>3. CASE key.path # {}
  <2>1. LoadTarget(type, key) = UNION {ReadArtifact(p, {ArtifactLine}, key) : p \in key.path}
    BY <1>3 DEF LoadTarget
  <2>2. PICK p \in key.path : target \in ReadArtifact(p, {ArtifactLine}, key)
    BY <2>1
  <2>. QED  BY <1>1, <2>2
<1>4. CASE key.path = {} /\ key.run # {}
  <2>1. PICK run \in key.run : target \in RunTarget(type, run, key)
    BY <1>4 DEF LoadTarget
  <2>2. PICK r \in audit : /\ r.use \in WritesArtifact \cup {"analysis"} /\ r.run = run
                           /\ target \in IF r.use = "analysis" THEN CaseTarget(type, key)
                                         ELSE ReadArtifact(run, r.sources, [key EXCEPT !.case = r.use = "brief"])
    BY <2>1 DEF RunTarget
  <2>3. CASE r.use = "analysis"
    <3>1. run = 0
      BY <2>2, <2>3 DEF IInv, StoresTyped
    <3>2. key.run \subseteq {0}
      BY <2>1, <3>1 DEF IsKey
    <3>. QED  BY <1>2, <1>4, <2>2, <2>3, <3>2
  <2>4. CASE r.use # "analysis"
    <3>1. IsKey([key EXCEPT !.case = r.use = "brief"], Latest)
      BY DEF IsKey
    <3>. QED  BY <1>1, <2>2, <2>4, <3>1
  <2>. QED  BY <2>3, <2>4
<1>5. CASE key.path = {} /\ key.run = {}
  BY <1>2, <1>5 DEF LoadTarget
<1>. QED  BY <1>3, <1>4, <1>5

\* A scorecard that has just been made.
LEMMA NewScorecard ==
  ASSUME IInv, NEW ask, NEW key, NEW target, TargetOf(ask.type, key, target)
  PROVE  /\ IsScorecard(Scorecard(ask, target), Latest) /\ TargetKept(Scorecard(ask, target))
         /\ Scorecard(ask, target).text = target.text
<1>1. /\ Scorecard(ask, target).type = ask.type /\ Scorecard(ask, target).key = target.key
      /\ Scorecard(ask, target).text = target.text /\ Scorecard(ask, target).judge = {}
  BY DEF Scorecard
<1>2. IsScorecard(Scorecard(ask, target), Latest)
  BY DEF Scorecard, IsScorecard, TargetOf
<1>3. TargetKept(Scorecard(ask, target))
  BY <1>1 DEF TargetKept, TargetOf, Written
<1>. QED  BY <1>1, <1>2, <1>3

\* The target of a scorecard, loaded again, is what was scored or is excused.
LEMMA ReloadedTarget ==
  ASSUME IInv, NEW c, IsScorecard(c, Latest), TargetKept(c), NEW target \in LoadTarget(c.type, c.key)
  PROVE  target.text \in DOMAIN Text /\ Excused(target.text, c)
<1>1. IsKey(c.key, Latest)
  BY DEF IsScorecard
<1>2. version \in Nat /\ version >= 1
  BY ConstantsAssumption DEF IInv, StoresTyped, ConstantsAssumption
<1>3. CASE c.key.path # {}
  <2>0. LoadTarget(c.type, c.key) = UNION {ReadArtifact(p, {ArtifactLine}, c.key) : p \in c.key.path}
    BY <1>3 DEF LoadTarget
  <2>1. PICK p \in c.key.path : target \in ReadArtifact(p, {ArtifactLine}, c.key)
    BY <2>0
  <2>2. target.text = artifacts[p] /\ target.text \in DOMAIN Text
    BY <2>1, ReadArtifactFacts
  <2>. QED  BY <2>2 DEF TargetKept, Excused
<1>4. CASE c.key.path = {}
  <2>1. target \in CaseTarget(c.type, c.key)
    <3>1. CASE c.key.run = {}
      BY <1>4, <3>1 DEF LoadTarget
    <3>2. CASE c.key.run # {}
      <4>1. PICK run \in c.key.run : target \in RunTarget(c.type, run, c.key)
        BY <1>4, <3>2 DEF LoadTarget
      <4>2. run = 0
        BY <1>4, <4>1 DEF TargetKept
      <4>3. PICK r \in audit : /\ r.use \in WritesArtifact \cup {"analysis"} /\ r.run = run
                               /\ target \in IF r.use = "analysis" THEN CaseTarget(c.type, c.key)
                                             ELSE ReadArtifact(run, r.sources, [c.key EXCEPT !.case = r.use = "brief"])
        BY <4>1 DEF RunTarget
      <4>4. r.use = "analysis"
        BY <4>2, <4>3 DEF IInv, StoresTyped
      <4>. QED  BY <4>3, <4>4
    <3>. QED  BY <3>1, <3>2
  <2>2. target.text = TextOf(c.type, version) /\ target.text \in DOMAIN Text
    BY <2>1, CaseTargetFacts
  <2>3. version = 1 => target.text = c.text
    BY <1>4, <2>2 DEF TargetKept
  <2>. QED  BY <1>2, <1>4, <2>2, <2>3 DEF Excused
<1>. QED  BY <1>3, <1>4

-----------------------------------------------------------------------------
(* Steps that change nothing but what a handler holds *)

LEMMA MovedText ==
  ASSUME NEW v, NEW n, IsRequest(v, n), NEW text, NEW pc
  PROVE  [v EXCEPT !.text = text, !.pc = pc] = Moved(v, pc, text, v.sources, v.card)
<1>1. PICK a : a = [v EXCEPT !.text = text]
  OBVIOUS
<1>2. a = Moved(v, v.pc, text, v.sources, v.card)
  BY <1>1 DEF IsRequest, Moved
<1>3. [a EXCEPT !.pc = pc] = Moved(v, pc, text, v.sources, v.card)
  BY <1>2 DEF Moved
<1>4. [v EXCEPT !.text = text, !.pc = pc] = [a EXCEPT !.pc = pc]
  BY <1>1
<1>. QED  BY <1>3, <1>4

LEMMA MovedCard ==
  ASSUME NEW v, NEW n, IsRequest(v, n), NEW card, NEW pc
  PROVE  [v EXCEPT !.card = card, !.pc = pc] = Moved(v, pc, v.text, v.sources, card)
<1>1. PICK a : a = [v EXCEPT !.card = card]
  OBVIOUS
<1>2. a = Moved(v, v.pc, v.text, v.sources, card)
  BY <1>1 DEF IsRequest, Moved
<1>3. [a EXCEPT !.pc = pc] = Moved(v, pc, v.text, v.sources, card)
  BY <1>2 DEF Moved
<1>4. [v EXCEPT !.card = card, !.pc = pc] = [a EXCEPT !.pc = pc]
  BY <1>1
<1>. QED  BY <1>3, <1>4

LEMMA MovedSources ==
  ASSUME NEW v, NEW n, IsRequest(v, n), NEW text, NEW from, NEW pc
  PROVE  [v EXCEPT !.text = text, !.sources = from, !.pc = pc] = Moved(v, pc, text, from, v.card)
<1>1. PICK a : a = [v EXCEPT !.text = text]
  OBVIOUS
<1>2. a = Moved(v, v.pc, text, v.sources, v.card)
  BY <1>1 DEF IsRequest, Moved
<1>3. PICK b : b = [a EXCEPT !.sources = from]
  OBVIOUS
<1>4. b = Moved(v, v.pc, text, from, v.card)
  BY <1>2, <1>3 DEF Moved
<1>5. [b EXCEPT !.pc = pc] = Moved(v, pc, text, from, v.card)
  BY <1>4 DEF Moved
<1>6. [v EXCEPT !.text = text, !.sources = from, !.pc = pc] = [b EXCEPT !.pc = pc]
  BY <1>1, <1>3
<1>. QED  BY <1>5, <1>6

LEMMA CompleteKeeps ==
  ASSUME IInv, NEW w \in Workers, Complete(w)
  PROVE  Kept
<1>1. worker[w] # Idle /\ HandlerInv(worker[w]) /\ worker[w].pc = "complete"
  BY Busy DEF Complete
<1>2. CASE Fail(w)
  BY <1>1, <1>2, Fails
<1>3. ASSUME NEW id \in Answers, Local(w, [worker[w] EXCEPT !.text = {id}, !.pc = "artifact"])
      PROVE  Kept
  <2>1. PICK v : v = worker[w]
    OBVIOUS
  <2>2. /\ IsRequest(v, Latest) /\ v.op \in Ops /\ v.pc = "complete" /\ "complete" \in Steps(v.op)
        /\ \A c \in v.card : IsScorecard(c, Latest)
        /\ \A c, d \in v.card : c = d
    BY <1>1, <2>1 DEF HandlerInv, IsRequest
  <2>3. v.op \in {"draft", "review"} /\ "artifact" \in Steps(v.op) /\ {id} \subseteq DOMAIN Text
    BY <2>2, ConstantsAssumption DEF Ops, Generating, Evaluating, Steps, ConstantsAssumption
  <2>4. PICK r : r = Moved(v, "artifact", {id}, v.sources, v.card)
    OBVIOUS
  <2>5. [v EXCEPT !.text = {id}, !.pc = "artifact"] = r
    BY <2>2, <2>4, MovedText
  <2>6. /\ r.op = v.op /\ r.id = v.id /\ r.pc = "artifact" /\ r.card = v.card
        /\ r.evaluation = v.evaluation /\ r.text = {id}
    BY <2>4, MovedFields
  <2>7. IsRequest(r, Latest)
    BY <2>2, <2>3, <2>4, MovedTyped
  <2>8. FreshOf(r) /\ RecordsOf(r) /\ JudgeOf(r)
    <3>1. SavedContexts("artifact") = SavedContexts("complete")
      BY DEF SavedContexts
    <3>. QED  BY <1>1, <2>1, <2>2, <2>3, <2>6, <3>1
              DEF HandlerInv, FreshOf, RecordsOf, JudgeOf, Generating, Evaluating
  <2>9. Local(w, r)
    BY <1>3, <2>1, <2>5
  <2>. QED  BY <1>1, <2>1, <2>6, <2>7, <2>8, <2>9, LocalStep DEF HandlerInv
<1>. QED  BY <1>2, <1>3 DEF Complete

LEMMA ScoreKeeps ==
  ASSUME IInv, NEW w \in Workers, Score(w)
  PROVE  Kept
<1>1. worker[w] # Idle /\ HandlerInv(worker[w]) /\ worker[w].pc = "load" /\ worker[w].op = "evaluate"
  BY Busy DEF Score
<1>2. CASE Fail(w)
  BY <1>1, <1>2, Fails
<1>3. ASSUME NEW ask \in worker[w].ask, NEW target \in LoadTarget(ask.type, ask.key), NEW pc \in {"judge", "json"},
             Local(w, [worker[w] EXCEPT !.card = {Scorecard(ask, target)}, !.sources = target.sources,
                                        !.text = {target.text}, !.pc = pc])
      PROVE  Kept
  <2>1. PICK v : v = worker[w]
    OBVIOUS
  <2>2. /\ IsRequest(v, Latest) /\ v.op = "evaluate" /\ v.pc = "load" /\ IsKey(ask.key, Latest)
        /\ pc \in Steps(v.op)
    BY <1>1, <1>3, <2>1 DEF HandlerInv, IsRequest, Steps
  <2>3. PICK card : card = Scorecard(ask, target)
    OBVIOUS
  <2>4. IsScorecard(card, Latest) /\ TargetKept(card) /\ card.text = target.text /\ target.text \in DOMAIN Text
    <3>1. TargetOf(ask.type, ask.key, target)
      BY <2>2, LoadTargetFacts
    <3>. QED  BY <2>3, <3>1, NewScorecard DEF TargetOf
  <2>5. PICK r : r = Moved(v, pc, {target.text}, target.sources, {card})
    OBVIOUS
  <2>6. [v EXCEPT !.card = {card}, !.sources = target.sources, !.text = {target.text}, !.pc = pc] = r
    <3>1. IsRequest(v, Latest)
      BY <2>2
    <3>2. PICK a : a = [v EXCEPT !.card = {card}]
      OBVIOUS
    <3>3. a = Moved(v, v.pc, v.text, v.sources, {card})
      BY <3>1, <3>2 DEF IsRequest, Moved
    <3>4. PICK b : b = [a EXCEPT !.sources = target.sources]
      OBVIOUS
    <3>5. b = Moved(v, v.pc, v.text, target.sources, {card})
      BY <3>3, <3>4 DEF Moved
    <3>6. PICK c : c = [b EXCEPT !.text = {target.text}]
      OBVIOUS
    <3>7. c = Moved(v, v.pc, {target.text}, target.sources, {card})
      BY <3>5, <3>6 DEF Moved
    <3>8. [c EXCEPT !.pc = pc] = r
      BY <2>5, <3>7 DEF Moved
    <3>. QED  BY <3>2, <3>4, <3>6, <3>8
  <2>7. /\ r.op = v.op /\ r.id = v.id /\ r.pc = pc /\ r.card = {card}
        /\ r.evaluation = v.evaluation /\ r.text = {target.text}
    BY <2>5, MovedFields
  <2>8. IsRequest(r, Latest)
    BY <2>2, <2>4, <2>5, MovedTyped
  <2>9. FreshOf(r) /\ RecordsOf(r)
    BY <1>1, <1>3, <2>1, <2>2, <2>7 DEF HandlerInv, FreshOf, RecordsOf, Generating, Evaluating
  <2>10. JudgeOf(r)
    BY <1>3, <2>2, <2>4, <2>7 DEF JudgeOf, Excused
  <2>11. Local(w, r)
    BY <1>3, <2>1, <2>3, <2>6
  <2>. QED  BY <1>1, <2>1, <2>7, <2>8, <2>9, <2>10, <2>11, LocalStep DEF HandlerInv
<1>. QED  BY <1>2, <1>3 DEF Score

LEMMA ReloadKeeps ==
  ASSUME IInv, NEW w \in Workers, Reload(w)
  PROVE  Kept
<1>1. worker[w] # Idle /\ HandlerInv(worker[w]) /\ worker[w].pc = "load" /\ worker[w].op = "judge"
  BY Busy DEF Reload
<1>2. CASE Fail(w)
  BY <1>1, <1>2, Fails
<1>3. ASSUME NEW card \in worker[w].card, NEW target \in LoadTarget(card.type, card.key),
             Local(w, [worker[w] EXCEPT !.text = {target.text}, !.sources = target.sources, !.pc = "judge"])
      PROVE  Kept
  <2>1. PICK v : v = worker[w]
    OBVIOUS
  <2>2. /\ IsRequest(v, Latest) /\ v.op = "judge" /\ v.pc = "load" /\ IsScorecard(card, Latest)
        /\ \A c \in v.card : c = card
        /\ \A c \in v.card : IsScorecard(c, Latest)
        /\ \A c, d \in v.card : c = d
        /\ "judge" \in Steps(v.op)
    BY <1>1, <1>3, <2>1 DEF HandlerInv, IsRequest, Steps
  <2>3. TargetKept(card)
    BY <1>1 DEF HandlerInv, JudgeOf
  <2>4. target.text \in DOMAIN Text /\ Excused(target.text, card)
    BY <2>2, <2>3, ReloadedTarget
  <2>5. PICK r : r = Moved(v, "judge", {target.text}, target.sources, v.card)
    OBVIOUS
  <2>6. [v EXCEPT !.text = {target.text}, !.sources = target.sources, !.pc = "judge"] = r
    <3>1. IsRequest(v, Latest)
      BY <2>2
    <3>2. \A text, from, pc : [v EXCEPT !.text = text, !.sources = from, !.pc = pc]
                                  = Moved(v, pc, text, from, v.card)
      BY <3>1, MovedSources, Zenon
    <3>. QED  BY <2>5, <3>2, Zenon
  <2>7. /\ r.op = v.op /\ r.id = v.id /\ r.pc = "judge" /\ r.card = v.card
        /\ r.evaluation = v.evaluation /\ r.text = {target.text}
    BY <2>5, MovedFields
  <2>8. IsRequest(r, Latest)
    BY <2>2, <2>4, <2>5, MovedTyped
  <2>9. FreshOf(r) /\ RecordsOf(r)
    BY <1>1, <2>1, <2>2, <2>7 DEF HandlerInv, FreshOf, RecordsOf, Generating, Evaluating
  <2>10. JudgeOf(r)
    BY <2>2, <2>3, <2>4, <2>7 DEF JudgeOf
  <2>11. Local(w, r)
    BY <1>3, <2>1, <2>6
  <2>. QED  BY <1>1, <2>1, <2>7, <2>8, <2>9, <2>10, <2>11, LocalStep DEF HandlerInv
<1>. QED  BY <1>2, <1>3 DEF Reload

LEMMA ScoreRetrievalKeeps ==
  ASSUME IInv, NEW w \in Workers, ScoreRetrieval(w)
  PROVE  Kept
<1>1. worker[w] # Idle /\ HandlerInv(worker[w]) /\ worker[w].pc = "score"
  BY Busy DEF ScoreRetrieval
<1>2. CASE Fail(w)
  BY <1>1, <1>2, Fails
<1>3. ASSUME NEW ask \in worker[w].ask, NEW profile, NEW verdict, NEW card,
             card = [type |-> "retrieval_context", key |-> Key({0}, {}, TRUE), text |-> ask.pack.text,
                     sources |-> CaseSources, profile |-> {profile}, verdict |-> verdict, judge |-> {}],
             Local(w, [worker[w] EXCEPT !.card = {card}, !.pc = "json"])
      PROVE  Kept
  <2>1. PICK v : v = worker[w]
    OBVIOUS
  <2>2. IsRequest(v, Latest) /\ v.op \in Ops /\ v.pc = "score" /\ "score" \in Steps(v.op)
    BY <1>1, <2>1 DEF HandlerInv, IsRequest
  <2>3. v.op = "retrieval" /\ "json" \in Steps(v.op)
    BY <2>2 DEF Steps, Ops, Generating, Evaluating
  <2>4. ask \in Retrievals /\ ask.pack.text \in DOMAIN Text /\ v.text \subseteq DOMAIN Text
    BY <1>3, <2>1, <2>2, <2>3, ConstantsAssumption DEF IsRequest, ConstantsAssumption
  <2>5. /\ card.key = [path |-> {0}, run |-> {}, case |-> TRUE] /\ card.text = ask.pack.text
        /\ card.judge = {} /\ card.type = "retrieval_context"
    BY <1>3 DEF Key
  <2>6. IsScorecard(card, Latest)
    <3>1. 0 \in 0..Latest
      BY NewNumber
    <3>2. IsKey(card.key, Latest)
      BY <2>5, <3>1 DEF IsKey
    <3>. QED  BY <1>3, <2>4, <2>5, <3>2 DEF IsScorecard
  <2>7. TargetKept(card)
    <3>1. \/ 0 \in changed
          \/ 0 \in DOMAIN artifacts /\ artifacts[0] = ask.pack.text
      BY <1>1, <1>3, <2>1, <2>3 DEF HandlerInv, JudgeOf
    <3>. QED  BY <2>5, <3>1 DEF TargetKept, Written
  <2>8. PICK r : r = Moved(v, "json", v.text, v.sources, {card})
    OBVIOUS
  <2>9. [v EXCEPT !.card = {card}, !.pc = "json"] = r
    BY <2>2, <2>8, MovedCard
  <2>10. /\ r.op = v.op /\ r.id = v.id /\ r.pc = "json" /\ r.card = {card}
         /\ r.evaluation = v.evaluation /\ r.text = v.text
    BY <2>8, MovedFields
  <2>11. IsRequest(r, Latest)
    BY <2>2, <2>3, <2>4, <2>6, <2>8, MovedTyped
  <2>12. FreshOf(r) /\ RecordsOf(r)
    BY <1>1, <2>1, <2>2, <2>3, <2>10 DEF HandlerInv, FreshOf, RecordsOf, Generating, Evaluating
  <2>13. JudgeOf(r)
    BY <2>7, <2>10 DEF JudgeOf
  <2>14. Local(w, r)
    BY <1>3, <2>1, <2>9
  <2>. QED  BY <1>1, <2>1, <2>10, <2>11, <2>12, <2>13, <2>14, LocalStep DEF HandlerInv
<1>4. PICK ask \in worker[w].ask :
         IF ask.profile \notin DOMAIN Profiles THEN Fail(w)
         ELSE Local(w, [worker[w] EXCEPT
                !.card = {[type |-> "retrieval_context", key |-> Key({0}, {}, TRUE), text |-> ask.pack.text,
                           sources |-> CaseSources, profile |-> {Profiles[ask.profile]},
                           verdict |-> RetrievalVerdict(ask.pack, Profiles[ask.profile]), judge |-> {}]},
                !.pc = "json"])
  BY DEF ScoreRetrieval
<1>5. PICK card : card = [type |-> "retrieval_context", key |-> Key({0}, {}, TRUE), text |-> ask.pack.text,
                          sources |-> CaseSources, profile |-> {Profiles[ask.profile]},
                          verdict |-> RetrievalVerdict(ask.pack, Profiles[ask.profile]), judge |-> {}]
  OBVIOUS
<1>6. Fail(w) \/ Local(w, [worker[w] EXCEPT !.card = {card}, !.pc = "json"])
  BY <1>4, <1>5
<1>. QED  BY <1>2, <1>3, <1>5, <1>6

\* The judge adds its judgement, and changes nothing that was scored.
LEMMA JudgeKeeps ==
  ASSUME IInv, NEW w \in Workers, Judge(w)
  PROVE  Kept
<1>1. worker[w] # Idle /\ HandlerInv(worker[w]) /\ worker[w].pc = "judge"
  BY Busy DEF Judge
<1>2. PICK v : v = worker[w]
  OBVIOUS
<1>3. PICK card \in v.card : Local(w, [v EXCEPT !.card = {[card EXCEPT !.judge = v.text]}, !.pc = "json"])
  BY <1>2 DEF Judge
<1>4. PICK judged : judged = [card EXCEPT !.judge = v.text]
  OBVIOUS
<1>5. /\ IsRequest(v, Latest) /\ v.op \in Ops /\ v.pc = "judge" /\ "judge" \in Steps(v.op)
      /\ IsScorecard(card, Latest) /\ v.text \subseteq DOMAIN Text
  BY <1>1, <1>2 DEF HandlerInv, IsRequest
<1>6. v.op \in {"evaluate", "judge"} /\ "json" \in Steps(v.op)
  BY <1>5 DEF Steps, Ops, Generating, Evaluating
<1>7. judged = [type |-> card.type, key |-> card.key, text |-> card.text, sources |-> card.sources,
                profile |-> card.profile, verdict |-> card.verdict, judge |-> v.text]
  BY <1>4, <1>5 DEF IsScorecard
<1>8. IsScorecard(judged, Latest)
  BY <1>5, <1>7 DEF IsScorecard
<1>9. TargetKept(judged)
  <2>1. TargetKept(card) /\ \A text \in v.text : Excused(text, card)
    BY <1>1, <1>2, <1>5 DEF HandlerInv, JudgeOf
  <2>2. \A text \in v.text : Excused(text, judged)
    BY <1>7, <2>1 DEF Excused
  <2>. QED  BY <1>7, <2>1, <2>2 DEF TargetKept
<1>10. PICK r : r = Moved(v, "json", v.text, v.sources, {judged})
  OBVIOUS
<1>11. [v EXCEPT !.card = {judged}, !.pc = "json"] = r
  BY <1>5, <1>10, MovedCard
<1>12. /\ r.op = v.op /\ r.id = v.id /\ r.pc = "json" /\ r.card = {judged}
       /\ r.evaluation = v.evaluation /\ r.text = v.text
  BY <1>10, MovedFields
<1>13. IsRequest(r, Latest)
  BY <1>5, <1>6, <1>8, <1>10, MovedTyped
<1>14. FreshOf(r)
  BY <1>1, <1>2, <1>5, <1>6, <1>12 DEF HandlerInv, FreshOf, Generating, Evaluating
<1>15. RecordsOf(r)
  BY <1>1, <1>2, <1>5, <1>6, <1>7, <1>12 DEF HandlerInv, RecordsOf
<1>16. JudgeOf(r)
  BY <1>9, <1>12 DEF JudgeOf
<1>17. Local(w, r)
  BY <1>3, <1>4, <1>11
<1>. QED  BY <1>1, <1>2, <1>12, <1>13, <1>14, <1>15, <1>16, <1>17, LocalStep DEF HandlerInv

-----------------------------------------------------------------------------
(* Reports and rows *)

\* A handler with a scorecard evaluates, and its number is in no row yet, or
\* it judges an evaluation that has one.
LEMMA Holding ==
  ASSUME IInv, NEW w \in Workers, NEW pc \in {"json", "report", "row", "log_judge", "log"}, At(w, pc),
         NEW v, v = worker[w]
  PROVE  /\ v # Idle /\ HandlerInv(v) /\ v.pc = pc /\ IsRequest(v, Latest)
         /\ v.evaluation \in 1..Latest /\ v.id \in 2..Latest /\ v.op \in Ops /\ pc \in Steps(v.op)
         /\ \A c \in v.card : IsScorecard(c, Latest) /\ TargetKept(c)
         /\ \A c, d \in v.card : c = d
         /\ pc # "log" => \/ v.op \in Evaluating /\ v.evaluation = v.id
                          \/ v.op = "judge" /\ v.evaluation \in DOMAIN rows
<1>1. v # Idle /\ HandlerInv(v) /\ v.pc = pc
  BY Busy
<1>2. /\ IsRequest(v, Latest) /\ v.evaluation \in 1..Latest /\ v.id \in 2..Latest /\ v.op \in Ops
      /\ pc \in Steps(v.op) /\ (v.op # "judge" => v.evaluation = v.id)
      /\ \A c \in v.card : IsScorecard(c, Latest)
      /\ \A c, d \in v.card : c = d
  BY <1>1 DEF HandlerInv, IsRequest
<1>3. \A c \in v.card : TargetKept(c)
  BY <1>1 DEF HandlerInv, JudgeOf
<1>4. v.op = "judge" => v.evaluation \in DOMAIN rows
  BY <1>1 DEF HandlerInv, FreshOf
<1>5. pc # "log" => v.op \in Evaluating \cup {"judge"}
  BY <1>2 DEF Ops, Generating, Evaluating, Steps
<1>. QED  BY <1>1, <1>2, <1>3, <1>4, <1>5 DEF Evaluating

LEMMA WriteJsonKeeps ==
  ASSUME IInv, NEW w \in Workers, WriteJson(w)
  PROVE  Kept
<1>1. PICK v : v = worker[w]
  OBVIOUS
<1>2. At(w, "json")
  BY DEF WriteJson
<1>3. PICK card \in v.card : jsons' = Put(jsons, v.evaluation, card)
  BY <1>1 DEF WriteJson
<1>4. /\ UNCHANGED <<artifacts, changed, version, contexts, audit, rows, reports, requests>>
      /\ Latest' = Latest /\ Latest \in Nat /\ version \in Nat
  BY SameLatest, LatestNat, ConstantsAssumption
     DEF WriteJson, sources, bounds, IInv, StoresTyped, ConstantsAssumption
<1>5. /\ v # Idle /\ HandlerInv(v) /\ v.pc = "json" /\ IsRequest(v, Latest) /\ v.evaluation \in 1..Latest
      /\ IsScorecard(card, Latest) /\ \A c \in v.card : c = card
      /\ \/ v.op \in Evaluating /\ v.evaluation = v.id
         \/ v.op = "judge" /\ v.evaluation \in DOMAIN rows
  BY <1>1, <1>2, Holding
<1>6. /\ DOMAIN jsons' = DOMAIN jsons \cup {v.evaluation} /\ jsons'[v.evaluation] = card
      /\ \A id \in DOMAIN jsons : id # v.evaluation => jsons'[id] = jsons[id]
  BY <1>3 DEF Put
<1>7. v.evaluation \in DOMAIN rows =>
        v.evaluation \in DOMAIN jsons /\ jsons[v.evaluation].verdict = card.verdict
  <2>1. CASE v.op \in Evaluating
    BY <1>5, <2>1 DEF HandlerInv, FreshOf, Evaluating
  <2>2. CASE v.op = "judge"
    BY <1>3, <1>5, <2>2 DEF HandlerInv, RecordsOf, IInv, RecordsHaveFiles
  <2>. QED  BY <1>5, <2>1, <2>2
<1>8. Later(v.id)
  BY <1>4, <1>5, <1>6, <1>7 DEF Later, Written
<1>9. StoresTyped'
  <2>1. Stored(jsons', Latest')
    BY <1>3, <1>4, <1>5, StoredPut DEF IInv, StoresTyped
  <2>. QED  BY <1>4, <2>1 DEF IInv, StoresTyped
<1>10. RecordsHaveFiles' /\ RowsKept'
  BY <1>4, <1>8, RecordsKept
<1>11. PICK r : r = Moved(v, "report", v.text, v.sources, v.card)
  OBVIOUS
<1>12. r.op = v.op /\ r.id = v.id /\ r.pc = "report" /\ r.card = v.card /\ r.evaluation = v.evaluation
  BY <1>11, MovedFields
<1>13. FreshOf(r)'
  BY <1>4, <1>5, <1>12 DEF HandlerInv, FreshOf, Evaluating, Generating
<1>14. RecordsOf(r)'
  BY <1>4, <1>5, <1>6, <1>12 DEF HandlerInv, RecordsOf, Evaluating
<1>15. GoTo(w, "report") /\ "report" \in Steps(v.op)
  BY <1>5 DEF WriteJson, Steps, Evaluating
<1>. QED  BY <1>1, <1>4, <1>5, <1>8, <1>9, <1>10, <1>11, <1>13, <1>14, <1>15, MovesOn

LEMMA WriteReportKeeps ==
  ASSUME IInv, NEW w \in Workers, WriteReport(w)
  PROVE  Kept
<1>1. PICK v : v = worker[w]
  OBVIOUS
<1>2. At(w, "report")
  BY DEF WriteReport
<1>3. PICK card \in v.card : reports' = Put(reports, v.evaluation, card)
  BY <1>1 DEF WriteReport
<1>4. /\ UNCHANGED <<artifacts, changed, version, contexts, audit, rows, jsons, requests>>
      /\ Latest' = Latest /\ Latest \in Nat /\ version \in Nat
  BY SameLatest, LatestNat, ConstantsAssumption
     DEF WriteReport, sources, bounds, IInv, StoresTyped, ConstantsAssumption
<1>5. /\ v # Idle /\ HandlerInv(v) /\ v.pc = "report" /\ IsRequest(v, Latest) /\ v.evaluation \in 1..Latest
      /\ IsScorecard(card, Latest) /\ \A c \in v.card : c = card
      /\ \/ v.op \in Evaluating /\ v.evaluation = v.id
         \/ v.op = "judge" /\ v.evaluation \in DOMAIN rows
  BY <1>1, <1>2, Holding
<1>6. /\ DOMAIN reports' = DOMAIN reports \cup {v.evaluation} /\ reports'[v.evaluation] = card
      /\ \A id \in DOMAIN reports : id # v.evaluation => reports'[id] = reports[id]
  BY <1>3 DEF Put
<1>7. v.evaluation \in DOMAIN rows =>
        v.evaluation \in DOMAIN reports /\ reports[v.evaluation].verdict = card.verdict
  <2>1. CASE v.op \in Evaluating
    BY <1>5, <2>1 DEF HandlerInv, FreshOf, Evaluating
  <2>2. CASE v.op = "judge"
    BY <1>3, <1>5, <2>2 DEF HandlerInv, RecordsOf, IInv, RecordsHaveFiles
  <2>. QED  BY <1>5, <2>1, <2>2
<1>8. Later(v.id)
  BY <1>4, <1>5, <1>6, <1>7 DEF Later, Written
<1>9. StoresTyped'
  <2>1. Stored(reports', Latest')
    BY <1>3, <1>4, <1>5, StoredPut DEF IInv, StoresTyped
  <2>. QED  BY <1>4, <2>1 DEF IInv, StoresTyped
<1>10. RecordsHaveFiles' /\ RowsKept'
  BY <1>4, <1>8, RecordsKept
<1>11. PICK r : r = Moved(v, "row", v.text, v.sources, v.card)
  OBVIOUS
<1>12. r.op = v.op /\ r.id = v.id /\ r.pc = "row" /\ r.card = v.card /\ r.evaluation = v.evaluation
  BY <1>11, MovedFields
<1>13. FreshOf(r)'
  BY <1>4, <1>5, <1>12 DEF HandlerInv, FreshOf, Evaluating, Generating
<1>14. RecordsOf(r)'
  BY <1>4, <1>5, <1>6, <1>12 DEF HandlerInv, RecordsOf, Evaluating
<1>15. GoTo(w, "row") /\ "row" \in Steps(v.op)
  BY <1>5 DEF WriteReport, Steps, Evaluating
<1>. QED  BY <1>1, <1>4, <1>5, <1>8, <1>9, <1>10, <1>11, <1>13, <1>14, <1>15, MovesOn

LEMMA SaveRowKeeps ==
  ASSUME IInv, NEW w \in Workers, SaveRow(w)
  PROVE  Kept
<1>1. PICK v : v = worker[w]
  OBVIOUS
<1>2. At(w, "row")
  BY DEF SaveRow
<1>3. PICK card \in v.card, pc \in {"log", "log_judge"} : rows' = Put(rows, v.evaluation, card) /\ GoTo(w, pc)
  BY <1>1 DEF SaveRow
<1>4. /\ UNCHANGED <<artifacts, changed, version, contexts, audit, jsons, reports, requests>>
      /\ Latest' = Latest /\ Latest \in Nat /\ version \in Nat
  BY SameLatest, LatestNat, ConstantsAssumption
     DEF SaveRow, sources, bounds, IInv, StoresTyped, ConstantsAssumption
<1>5. /\ v # Idle /\ HandlerInv(v) /\ v.pc = "row" /\ IsRequest(v, Latest) /\ v.evaluation \in 1..Latest
      /\ IsScorecard(card, Latest) /\ TargetKept(card) /\ \A c \in v.card : c = card
      /\ \/ v.op \in Evaluating /\ v.evaluation = v.id
         \/ v.op = "judge" /\ v.evaluation \in DOMAIN rows
  BY <1>1, <1>2, <1>3, Holding
<1>6. /\ DOMAIN rows' = DOMAIN rows \cup {v.evaluation} /\ rows'[v.evaluation] = card
      /\ \A id \in DOMAIN rows : id # v.evaluation => rows'[id] = rows[id]
  BY <1>3 DEF Put
<1>7. v.evaluation \in DOMAIN rows =>
        rows[v.evaluation].text = card.text /\ rows[v.evaluation].verdict = card.verdict
  <2>1. CASE v.op \in Evaluating
    BY <1>5, <2>1 DEF HandlerInv, FreshOf, Evaluating
  <2>2. CASE v.op = "judge"
    BY <1>3, <1>5, <2>2 DEF HandlerInv, RecordsOf
  <2>. QED  BY <1>5, <2>1, <2>2
<1>8. Later(v.id)
  BY <1>4, <1>5, <1>6, <1>7 DEF Later, Written
<1>9. StoresTyped'
  <2>1. Stored(rows', Latest')
    BY <1>3, <1>4, <1>5, StoredPut DEF IInv, StoresTyped
  <2>. QED  BY <1>4, <2>1 DEF IInv, StoresTyped
<1>10. RowsKept'
  <2>1. \A id \in DOMAIN rows' : TargetKept(rows'[id])
    BY <1>5, <1>6 DEF IInv, RowsKept
  <2>. QED  BY <1>4, <2>1 DEF RowsKept, TargetKept, Excused, Written
<1>11. RecordsHaveFiles'
  <2>1. /\ v.evaluation \in DOMAIN jsons /\ jsons[v.evaluation].verdict = card.verdict
        /\ v.evaluation \in DOMAIN reports /\ reports[v.evaluation].verdict = card.verdict
    BY <1>3, <1>5 DEF HandlerInv, RecordsOf
  <2>2. ASSUME NEW id \in DOMAIN rows'
        PROVE  /\ id \in DOMAIN jsons \cap DOMAIN reports
               /\ rows'[id].verdict = jsons[id].verdict /\ rows'[id].verdict = reports[id].verdict
    BY <1>6, <2>1 DEF IInv, RecordsHaveFiles
  <2>. QED  BY <1>4, <1>6, <2>2 DEF IInv, RecordsHaveFiles
<1>12. PICK r : r = Moved(v, pc, v.text, v.sources, v.card)
  OBVIOUS
<1>13. r.op = v.op /\ r.id = v.id /\ r.pc = pc /\ r.card = v.card /\ r.evaluation = v.evaluation
  BY <1>12, MovedFields
<1>14. FreshOf(r)'
  BY <1>3, <1>4, <1>5, <1>6, <1>13 DEF HandlerInv, FreshOf, Evaluating, Generating
<1>15. RecordsOf(r)'
  BY <1>3, <1>4, <1>5, <1>6, <1>13 DEF HandlerInv, RecordsOf, Evaluating
<1>16. pc \in Steps(v.op) /\ pc \notin {"judge", "score"}
  BY <1>3, <1>5 DEF Steps, Evaluating
<1>. QED  BY <1>1, <1>3, <1>4, <1>5, <1>8, <1>9, <1>10, <1>11, <1>12, <1>14, <1>15, <1>16, MovesOn

-----------------------------------------------------------------------------
(* The log, and the end of a handler *)

LEMMA AuditRowKeeps ==
  ASSUME IInv, NEW use, NEW run \in 1..Latest, NEW from, AddAuditRow(AuditRow(use, run, from)), use # "analysis",
         use \in WritesArtifact => run \in Written,
         use = "review" => {run} \X {"trail", "pack", "preview"} \subseteq DOMAIN contexts,
         use \in {"evaluate", "retrieval"} => run \in DOMAIN rows,
         UNCHANGED <<artifacts, changed, version, contexts, rows, jsons, reports, requests>>, NEW n
  PROVE  Later(n) /\ Latest' = Latest /\ StoresTyped' /\ RecordsHaveFiles' /\ RowsKept'
<1>1. Latest' = Latest /\ Latest \in Nat /\ version \in Nat
  BY SameLatest, LatestNat, ConstantsAssumption DEF IInv, StoresTyped, ConstantsAssumption
<1>2. Later(n)
  BY <1>1 DEF Later, Written
<1>3. PICK row : row = AuditRow(use, run, from) /\ row.use = use /\ row.run = run
  BY DEF AuditRow
<1>4. \A r \in audit' : r = row \/ (r \in audit /\ (r.use # use \/ r.run # run))
  BY <1>3 DEF AddAuditRow
<1>5. run \in 0..Latest /\ run # 0
  BY <1>1
<1>6. StoresTyped'
  <2>1. \A r \in audit' : r.run \in 0..Latest'
    BY <1>1, <1>3, <1>4, <1>5 DEF IInv, StoresTyped
  <2>2. \A r, s \in audit' : r.use = s.use /\ r.run = s.run => r = s
    BY <1>3, <1>4 DEF IInv, StoresTyped
  <2>3. \A r \in audit' : (r.use = "analysis" => r.run = 0) /\ (r.use \in WritesArtifact => r.run # 0)
    BY <1>3, <1>4, <1>5 DEF IInv, StoresTyped
  <2>. QED  BY <1>1, <2>1, <2>2, <2>3 DEF IInv, StoresTyped
<1>7. RecordsHaveFiles'
  <2>1. ASSUME NEW r \in audit'
        PROVE  /\ r.use \in WritesArtifact => r.run \in Written
               /\ r.use = "review" => {r.run} \X {"trail", "pack", "preview"} \subseteq DOMAIN contexts
               /\ r.use \in {"evaluate", "retrieval"} => r.run \in DOMAIN rows
    <3>1. CASE r = row
      BY <1>3, <3>1
    <3>2. CASE r \in audit
      BY <3>2 DEF IInv, RecordsHaveFiles, Written
    <3>. QED  BY <1>4, <3>1, <3>2
  <2>. QED  BY <2>1 DEF IInv, RecordsHaveFiles, Written
<1>8. RowsKept'
  BY DEF IInv, RowsKept, TargetKept, Excused, Written
<1>. QED  BY <1>1, <1>2, <1>6, <1>7, <1>8

LEMMA LogJudgeKeeps ==
  ASSUME IInv, NEW w \in Workers, LogJudge(w)
  PROVE  Kept
<1>1. PICK v : v = worker[w]
  OBVIOUS
<1>2. At(w, "log_judge")
  BY DEF LogJudge
<1>3. /\ v # Idle /\ HandlerInv(v) /\ v.pc = "log_judge" /\ IsRequest(v, Latest) /\ v.evaluation \in 1..Latest
      /\ v.op \in Evaluating \cup {"judge"}
  BY <1>1, <1>2, Holding
<1>4. UNCHANGED <<artifacts, changed, version, contexts, rows, jsons, reports, requests>>
  BY DEF LogJudge, sources, bounds
<1>5. AddAuditRow(AuditRow("judge", v.evaluation, v.sources))
  BY <1>1 DEF LogJudge
<1>6. Later(v.id) /\ Latest' = Latest /\ StoresTyped' /\ RecordsHaveFiles' /\ RowsKept'
  BY <1>3, <1>4, <1>5, AuditRowKeeps DEF WritesArtifact
<1>7. CASE Return(w)
  BY <1>1, <1>3, <1>4, <1>6, <1>7, StepKeeps DEF Return
<1>8. CASE v.op # "judge" /\ GoTo(w, "log")
  <2>1. PICK r : r = Moved(v, "log", v.text, v.sources, v.card)
    OBVIOUS
  <2>2. r.op = v.op /\ r.id = v.id /\ r.pc = "log" /\ r.card = v.card /\ r.evaluation = v.evaluation
    BY <2>1, MovedFields
  <2>3. FreshOf(r)'
    BY <1>3, <1>4, <1>8, <2>2 DEF HandlerInv, FreshOf, Evaluating, Generating
  <2>4. RecordsOf(r)'
    BY <1>3, <1>8, <2>2 DEF RecordsOf, Evaluating
  <2>5. "log" \in Steps(v.op)
    BY <1>3 DEF Steps, Evaluating
  <2>. QED  BY <1>1, <1>3, <1>4, <1>6, <1>8, <2>1, <2>3, <2>4, <2>5, MovesOn
<1>. QED  BY <1>1, <1>7, <1>8 DEF LogJudge

LEMMA LogKeeps ==
  ASSUME IInv, NEW w \in Workers, Log(w)
  PROVE  Kept
<1>1. PICK v : v = worker[w]
  OBVIOUS
<1>2. At(w, "log")
  BY DEF Log
<1>3. /\ v # Idle /\ HandlerInv(v) /\ v.pc = "log" /\ v.id \in 2..Latest /\ v.op \in Ops
  BY <1>1, <1>2, Holding
<1>4. UNCHANGED <<artifacts, changed, version, contexts, rows, jsons, reports, requests>>
  BY DEF Log, sources, bounds
<1>5. AddAuditRow(AuditRow(v.op, v.id, v.sources))
  BY <1>1 DEF Log
<1>6. v.id \in 1..Latest /\ v.op # "analysis"
  <2>1. Latest \in Nat
    BY NewNumber
  <2>. QED  BY <1>3, <2>1 DEF Ops, Generating, Evaluating
<1>7. v.op \in WritesArtifact => v.id \in Written
  BY <1>3 DEF HandlerInv, FreshOf, WritesArtifact, Ops, Generating, Evaluating
<1>8. v.op = "review" => {v.id} \X {"trail", "pack", "preview"} \subseteq DOMAIN contexts
  BY <1>3 DEF HandlerInv, RecordsOf, SavedContexts
<1>9. v.op \in {"evaluate", "retrieval"} => v.id \in DOMAIN rows
  BY <1>3 DEF HandlerInv, FreshOf, Evaluating
<1>10. Later(v.id) /\ StoresTyped' /\ RecordsHaveFiles' /\ RowsKept'
  BY <1>4, <1>5, <1>6, <1>7, <1>8, <1>9, AuditRowKeeps
<1>11. worker' = [worker EXCEPT ![w] = Idle]
  BY DEF Log, Return
<1>. QED  BY <1>1, <1>3, <1>4, <1>10, <1>11, StepKeeps

LEMMA AbortKeeps ==
  ASSUME IInv, NEW w \in Workers, Abort(w)
  PROVE  Kept
  BY Stops DEF Abort, sources, stores

-----------------------------------------------------------------------------
(* The invariant *)

LEMMA InitInv == Init => IInv
<1> SUFFICES ASSUME Init PROVE IInv
  OBVIOUS
<1>1. requests = [kind \in Kinds |-> 0] /\ requests \in [Kinds -> Nat]
  <2>1. DOMAIN MaxRequests = Kinds
    BY ConstantsAssumption DEF ConstantsAssumption, Kinds
  <2>. QED  BY <2>1 DEF Init
<1>2. Latest = 1
  BY <1>1 DEF Latest, Kinds
<1>3. DOMAIN artifacts = {1} /\ artifacts[1] = Case[1]["engineering_brief"] /\ artifacts[1] \in DOMAIN Text
  <2>1. "engineering_brief" \in DOMAIN Case[1] /\ Range(Case[1]) \subseteq DOMAIN Text
    BY ConstantsAssumption DEF ConstantsAssumption
  <2>2. Case[1]["engineering_brief"] \in Range(Case[1])
    BY <2>1 DEF Range
  <2>. QED  BY <2>1, <2>2 DEF Init
<1>4. contexts = <<>> /\ rows = <<>> /\ jsons = <<>> /\ reports = <<>> /\ changed = {} /\ version = 1
  BY DEF Init
<1>5. DOMAIN <<>> = {}
  OBVIOUS
<1>6. /\ \A r \in audit : \/ r.use = "analysis" /\ r.run = 0 /\ r = AuditRow("analysis", 0, CaseSources)
                          \/ r.use = "brief" /\ r.run = 1 /\ r = AuditRow("brief", 1, CaseSources)
  BY DEF Init, AuditRow
<1>7. StoresTyped
  <2>1. Stored(rows, Latest) /\ Stored(jsons, Latest) /\ Stored(reports, Latest)
    BY <1>4, <1>5 DEF Stored
  <2>2. \A r, s \in audit : r.use = s.use /\ r.run = s.run => r = s
    BY <1>6
  <2>3. \A r \in audit : r.run \in 0..Latest /\ (r.use = "analysis" => r.run = 0)
                            /\ (r.use \in WritesArtifact => r.run # 0)
    BY <1>2, <1>6 DEF WritesArtifact
  <2>4. DOMAIN artifacts \subseteq 0..Latest /\ \A p \in DOMAIN artifacts : artifacts[p] \in DOMAIN Text
    BY <1>2, <1>3
  <2>5. version \in DOMAIN Case
    BY <1>4, ConstantsAssumption DEF ConstantsAssumption
  <2>. QED  BY <1>4, <1>5, <2>1, <2>2, <2>3, <2>4, <2>5 DEF StoresTyped
<1>8. RecordsHaveFiles /\ RowsKept
  BY <1>3, <1>4, <1>5, <1>6 DEF RecordsHaveFiles, RowsKept, WritesArtifact
<1>9. WorkersInv
  BY DEF Init, WorkersInv
<1>. QED  BY <1>1, <1>7, <1>8, <1>9 DEF IInv

LEMMA NextInv == IInv /\ [Next]_vars => Kept
<1> SUFFICES ASSUME IInv, [Next]_vars PROVE Kept
  OBVIOUS
<1>1. CASE Environment
  BY <1>1, DeleteArtifactKeeps, EditArtifactKeeps, ChangeCaseKeeps DEF Environment
<1>2. ASSUME NEW w \in Workers, Request(w)
      PROVE  Kept
  BY <1>2, DraftKeeps, ReviewKeeps, RunTestgenKeeps, EvaluateKeeps, JudgeExistingKeeps, EvaluateRetrievalKeeps
     DEF Request
<1>3. ASSUME NEW w \in Workers, Step(w)
      PROVE  Kept
  BY <1>3, SaveTrailKeeps, SavePackKeeps, SaveCasePackKeeps, SavePreviewKeeps, CompleteKeeps, WriteArtifactKeeps,
     ScoreKeeps, ReloadKeeps, ScoreRetrievalKeeps, JudgeKeeps, WriteJsonKeeps, WriteReportKeeps, SaveRowKeeps,
     LogJudgeKeeps, LogKeeps
     DEF Step
<1>4. ASSUME NEW w \in Workers, Abort(w)
      PROVE  Kept
  BY <1>4, AbortKeeps
<1>5. CASE UNCHANGED vars
  <2>1. /\ UNCHANGED <<artifacts, changed, version, contexts, audit, rows, jsons, reports, worker, requests>>
        /\ UNCHANGED <<stores, worker, requests>>
    BY <1>5 DEF vars, sources, stores, bounds
  <2>2. Later(0) /\ StoresTyped'
    BY <1>5, StillGrows DEF vars, bounds
  <2>. QED  BY <2>1, <2>2, EditKeeps
<1>. QED  BY <1>1, <1>2, <1>3, <1>4, <1>5 DEF Next

LEMMA Invariance == Spec => []IInv
  BY InitInv, NextInv, PTL DEF Spec, Kept

\* Every store and every handler holds what it should: artifacts are texts,
\* rows and reports are scorecards of requests that were issued, and a run has
\* one row of a kind in the log.
THEOREM TypeCorrect == Spec => []TypeOK
<1>1. IInv => TypeOK
  <2> SUFFICES ASSUME IInv PROVE TypeOK
    OBVIOUS
  <2>1. Latest \in Nat
    BY NewNumber
  <2>2. \A c : IsScorecard(c, Latest) => IsCard(c)
    BY DEF IsScorecard, IsKey, IsCard
  <2>3. \A store \in {rows, jsons, reports} :
            DOMAIN store \subseteq 1..Latest /\ \A id \in DOMAIN store : IsCard(store[id])
    BY <2>2 DEF IInv, StoresTyped, Stored
  <2>4. ASSUME NEW w \in Workers, worker[w] # Idle
        PROVE  IsBusy(worker[w])
    <3>1. PICK v : v = worker[w]
      OBVIOUS
    <3>2. IsRequest(v, Latest)
      BY <2>4, <3>1 DEF IInv, WorkersInv, HandlerInv
    <3>3. v.pc \in Pcs
      BY <3>2, StepsKnown DEF IsRequest
    <3>4. v.id \in 1..Latest
      BY <2>1, <3>2 DEF IsRequest
    <3>. QED  BY <2>2, <3>1, <3>2, <3>3, <3>4 DEF IsRequest, IsBusy
  <2>5. Range(artifacts) \subseteq DOMAIN Text
    BY DEF IInv, StoresTyped, Range
  <2>. QED  BY <2>3, <2>4, <2>5 DEF IInv, StoresTyped, TypeOK
<1>. QED  BY <1>1, Invariance, PTL

\* An artifact, a context or a report that a row refers to has been written,
\* wherever a handler has stopped.
THEOREM RowsHaveFiles == Spec => []RecordsHaveFiles
<1>1. IInv => RecordsHaveFiles
  BY DEF IInv
<1>. QED  BY <1>1, Invariance, PTL

\* However many judges are at an evaluation, its text and verdict stay.
THEOREM VerdictsAreFinal == Spec => VerdictIsFinal
<1>1. IInv /\ [Next]_vars => [\A id \in DOMAIN rows :
          id \in DOMAIN rows' /\ rows'[id].text = rows[id].text /\ rows'[id].verdict = rows[id].verdict]_vars
  BY NextInv DEF Kept, RowsStay
<1>. QED  BY <1>1, Invariance, PTL DEF Spec, VerdictIsFinal

\* A judge never sees another text than the one that was scored, unless the
\* artifact or the case has changed since.
THEOREM JudgeSees == Spec => []JudgeSeesWhatWasScored
<1>1. IInv => JudgeSeesWhatWasScored
  BY DEF IInv, RowsKept, TargetKept, Excused, JudgeSeesWhatWasScored
<1>. QED  BY <1>1, Invariance, PTL

-----------------------------------------------------------------------------
(* What a text is scored is a number *)

LEMMA FiniteLiterals ==
  /\ \A a : IsFiniteSet({a})
  /\ \A a, b : IsFiniteSet({a, b})
  /\ \A a, b, c : IsFiniteSet({a, b, c})
  /\ \A a, b, c, d : IsFiniteSet({a, b, c, d})
  /\ \A a, b, c, d, e : IsFiniteSet({a, b, c, d, e})
  /\ \A a, b, c, d, e, f : IsFiniteSet({a, b, c, d, e, f})
  /\ \A a, b, c, d, e, f, g : IsFiniteSet({a, b, c, d, e, f, g})
  /\ \A a, b, c, d, e, f, g, h : IsFiniteSet({a, b, c, d, e, f, g, h})
  /\ \A a, b, c, d, e, f, g, h, i : IsFiniteSet({a, b, c, d, e, f, g, h, i})
<1>1. \A a : IsFiniteSet({a})
  BY FS_Singleton
<1>2. ASSUME NEW a, NEW b
      PROVE  IsFiniteSet({a, b})
  <2>1. IsFiniteSet({a})
    BY <1>1
  <2>2. IsFiniteSet({a} \cup {b})
    BY <2>1, FS_AddElement
  <2>3. {a} \cup {b} = {a, b}
    OBVIOUS
  <2>. QED  BY <2>2, <2>3
<1>3. ASSUME NEW a, NEW b, NEW c
      PROVE  IsFiniteSet({a, b, c})
  <2>1. IsFiniteSet({a, b})
    BY <1>2
  <2>2. IsFiniteSet({a, b} \cup {c})
    BY <2>1, FS_AddElement
  <2>3. {a, b} \cup {c} = {a, b, c}
    OBVIOUS
  <2>. QED  BY <2>2, <2>3
<1>4. ASSUME NEW a, NEW b, NEW c, NEW d
      PROVE  IsFiniteSet({a, b, c, d})
  <2>1. IsFiniteSet({a, b, c})
    BY <1>3
  <2>2. IsFiniteSet({a, b, c} \cup {d})
    BY <2>1, FS_AddElement
  <2>3. {a, b, c} \cup {d} = {a, b, c, d}
    OBVIOUS
  <2>. QED  BY <2>2, <2>3
<1>5. ASSUME NEW a, NEW b, NEW c, NEW d, NEW e
      PROVE  IsFiniteSet({a, b, c, d, e})
  <2>1. IsFiniteSet({a, b, c, d})
    BY <1>4
  <2>2. IsFiniteSet({a, b, c, d} \cup {e})
    BY <2>1, FS_AddElement
  <2>3. {a, b, c, d} \cup {e} = {a, b, c, d, e}
    OBVIOUS
  <2>. QED  BY <2>2, <2>3
<1>6. ASSUME NEW a, NEW b, NEW c, NEW d, NEW e, NEW f
      PROVE  IsFiniteSet({a, b, c, d, e, f})
  <2>1. IsFiniteSet({a, b, c, d, e})
    BY <1>5
  <2>2. IsFiniteSet({a, b, c, d, e} \cup {f})
    BY <2>1, FS_AddElement
  <2>3. {a, b, c, d, e} \cup {f} = {a, b, c, d, e, f}
    OBVIOUS
  <2>. QED  BY <2>2, <2>3
<1>7. ASSUME NEW a, NEW b, NEW c, NEW d, NEW e, NEW f, NEW g
      PROVE  IsFiniteSet({a, b, c, d, e, f, g})
  <2>1. IsFiniteSet({a, b, c, d, e, f})
    BY <1>6
  <2>2. IsFiniteSet({a, b, c, d, e, f} \cup {g})
    BY <2>1, FS_AddElement
  <2>3. {a, b, c, d, e, f} \cup {g} = {a, b, c, d, e, f, g}
    OBVIOUS
  <2>. QED  BY <2>2, <2>3
<1>8. ASSUME NEW a, NEW b, NEW c, NEW d, NEW e, NEW f, NEW g, NEW h
      PROVE  IsFiniteSet({a, b, c, d, e, f, g, h})
  <2>1. IsFiniteSet({a, b, c, d, e, f, g})
    BY <1>7
  <2>2. IsFiniteSet({a, b, c, d, e, f, g} \cup {h})
    BY <2>1, FS_AddElement
  <2>3. {a, b, c, d, e, f, g} \cup {h} = {a, b, c, d, e, f, g, h}
    OBVIOUS
  <2>. QED  BY <2>2, <2>3
<1>9. ASSUME NEW a, NEW b, NEW c, NEW d, NEW e, NEW f, NEW g, NEW h, NEW i
      PROVE  IsFiniteSet({a, b, c, d, e, f, g, h, i})
  <2>1. IsFiniteSet({a, b, c, d, e, f, g, h})
    BY <1>8
  <2>2. IsFiniteSet({a, b, c, d, e, f, g, h} \cup {i})
    BY <2>1, FS_AddElement
  <2>3. {a, b, c, d, e, f, g, h} \cup {i} = {a, b, c, d, e, f, g, h, i}
    OBVIOUS
  <2>. QED  BY <2>2, <2>3
<1>. QED  BY <1>1, <1>2, <1>3, <1>4, <1>5, <1>6, <1>7, <1>8, <1>9

LEMMA TermsFinite ==
  ASSUME NEW S, IsFiniteSet(S)
  PROVE  IsFiniteSet(Terms(S))
<1>1. [w \in S |-> Term(<<w>>)] \in Surjection(S, Terms(S))
  BY DEF Surjection, Terms
<1>. QED  BY <1>1, FS_Surjection

\* The number of elements of any part of a finite set.
LEMMA PartNat ==
  ASSUME NEW S, IsFiniteSet(S), NEW part \in SUBSET S
  PROVE  Cardinality(part) \in Nat
  BY FS_Subset, FS_CardinalityType

LEMMA FractionInt ==
  ASSUME NEW count \in Nat, NEW total \in Nat, NEW empty \in Int
  PROVE  Fraction(count, total, empty) \in Int
  BY DEF Fraction, Rounded, Least

LEMMA ShareInt ==
  ASSUME NEW lines, NEW items, IsFiniteSet(items), NEW empty \in Int
  PROVE  Share(lines, items, empty) \in Int
<1>1. Present(lines, items) \in SUBSET items
  BY DEF Present
<1>. QED  BY <1>1, PartNat, FractionInt DEF Share

IsDimension(d) == d.score \in Int /\ d.weight \in Nat \ {0}

LEMMA DimensionIs ==
  ASSUME NEW name, NEW score \in Int, NEW weight \in Nat \ {0}
  PROVE  IsDimension(Dimension(name, score, weight))
  BY DEF IsDimension, Dimension, Least

LEMMA CoverageFinite ==
  \A lines : \A part \in SUBSET Coverage(lines) : Cardinality(part) \in Nat
<1>1. IsFiniteSet({"domain_docs", "architecture_docs", "runbooks", "incidents", "historical_jira",
                   "historical_pr", "testing_docs", "concept_memory"})
  BY FiniteLiterals
<1>2. IsFiniteSet({"code_files", "test_files", "evidence_graph"})
  BY FiniteLiterals
<1>3. DOMAIN Markers = {"domain_docs", "architecture_docs", "runbooks", "incidents", "historical_jira",
                        "historical_pr", "testing_docs", "concept_memory"}
                         \cup {"code_files", "test_files", "evidence_graph"}
  BY DEF Markers
<1>4. IsFiniteSet(DOMAIN Markers)
  <2>1. \A A, B : IsFiniteSet(A) /\ IsFiniteSet(B) => IsFiniteSet(A \cup B)
    BY FS_Union
  <2>. QED  BY <1>1, <1>2, <1>3, <2>1
<1>. QED  BY <1>4, PartNat DEF Coverage

-----------------------------------------------------------------------------
(* What numbers add up to *)

LEMMA SumsTyped ==
  ASSUME NEW D, IsFiniteSet(D), \A d \in D : IsDimension(d)
  PROVE  Sum(D, LAMBDA d : d.score * d.weight) \in Int
<1>. DEFINE F(g) == g = [s \in SUBSET D |->
                           IF s = {} THEN 0
                           ELSE LET x == CHOOSE x \in s : TRUE IN x.score * x.weight + g[s \ {x}]]
            v == [d \in D |-> d.score * d.weight]
<1>1. Sum(D, LAMBDA d : d.score * d.weight) = (CHOOSE g : F(g))[D]
  BY DEF Sum, MapThenSumSet, MapThenFoldSet
<1>2. \A d \in D : v[d] \in Int /\ v[d] = d.score * d.weight
  BY DEF IsDimension
<1>3. ASSUME NEW g PROVE F(g) <=> IsSum(g, D, v)
  <2>. HIDE DEF v
  <2>1. \A s \in SUBSET D : s # {} => (CHOOSE x \in s : TRUE) \in D
    OBVIOUS
  <2>2. [s \in SUBSET D |-> IF s = {} THEN 0
                            ELSE LET x == CHOOSE x \in s : TRUE IN x.score * x.weight + g[s \ {x}]]
          = [s \in SUBSET D |-> IF s = {} THEN 0
                            ELSE v[CHOOSE x \in s : TRUE] + g[s \ {CHOOSE x \in s : TRUE}]]
    BY <1>2, <2>1
  <2>. QED  BY <2>2 DEF IsSum
<1>. HIDE DEF F, v
<1>4. \E g : F(g)
  BY <1>2, <1>3, SumExists
<1>5. PICK g : g = CHOOSE h : F(h)
  OBVIOUS
<1>6. IsSum(g, D, v)
  BY <1>3, <1>4, <1>5
<1>7. \A s \in SUBSET D : g[s] \in Int
  BY <1>2, <1>6, SumType
<1>. QED  BY <1>1, <1>5, <1>7

LEMMA WeightsTyped ==
  ASSUME NEW D, IsFiniteSet(D), D # {}, \A d \in D : IsDimension(d)
  PROVE  Sum(D, LAMBDA d : d.weight) \in Nat \ {0}
<1>. DEFINE F(g) == g = [s \in SUBSET D |->
                           IF s = {} THEN 0 ELSE LET x == CHOOSE x \in s : TRUE IN x.weight + g[s \ {x}]]
            v == [d \in D |-> d.weight]
<1>1. Sum(D, LAMBDA d : d.weight) = (CHOOSE g : F(g))[D]
  BY DEF Sum, MapThenSumSet, MapThenFoldSet
<1>2. \A d \in D : v[d] \in Nat \ {0} /\ v[d] \in Int /\ v[d] = d.weight
  BY DEF IsDimension
<1>3. ASSUME NEW g PROVE F(g) <=> IsSum(g, D, v)
  <2>. HIDE DEF v
  <2>1. \A s \in SUBSET D : s # {} => (CHOOSE x \in s : TRUE) \in D
    OBVIOUS
  <2>2. [s \in SUBSET D |-> IF s = {} THEN 0 ELSE LET x == CHOOSE x \in s : TRUE IN x.weight + g[s \ {x}]]
          = [s \in SUBSET D |-> IF s = {} THEN 0
                            ELSE v[CHOOSE x \in s : TRUE] + g[s \ {CHOOSE x \in s : TRUE}]]
    BY <1>2, <2>1
  <2>. QED  BY <2>2 DEF IsSum
<1>. HIDE DEF F, v
<1>4. \E g : F(g)
  BY <1>2, <1>3, SumExists
<1>5. PICK g : g = CHOOSE h : F(h)
  OBVIOUS
<1>6. IsSum(g, D, v)
  BY <1>3, <1>4, <1>5
<1>7. \A s \in SUBSET D : g[s] \in Nat
  BY <1>2, <1>6, SumType
<1>8. PICK x \in D : g[D] = v[x] + g[D \ {x}]
  BY <1>6 DEF IsSum
<1>9. v[x] \in Nat \ {0} /\ g[D \ {x}] \in Nat
  BY <1>2, <1>7
<1>. QED  BY <1>1, <1>5, <1>8, <1>9

LEMMA AverageIsNumber ==
  ASSUME NEW D, IsFiniteSet(D), D # {}, \A d \in D : IsDimension(d)
  PROVE  WeightedAverage(D) \in Int
<1>1. ASSUME NEW a \in Int, NEW b \in Nat \ {0} PROVE Rounded(a, b) \in Int
  BY DEF Rounded
<1>. QED  BY <1>1, SumsTyped, WeightsTyped DEF WeightedAverage

-----------------------------------------------------------------------------
(* The dimensions *)

ProfileLists == {"patterns", "concepts", "code", "tests", "docs", "incidents", "jira", "pr", "roles", "risks"}

IsProfile(p) == p.minimum \in Nat /\ \A list \in ProfileLists : IsFiniteSet(p[list])

IsExpectation(profile) == profile = {} \/ \E p : profile = {p} /\ IsProfile(p)

LEMMA ListsFinite ==
  ASSUME NEW p, IsProfile(p)
  PROVE  /\ IsFiniteSet(p.patterns) /\ IsFiniteSet(p.concepts) /\ IsFiniteSet(p.code)
         /\ IsFiniteSet(p.tests) /\ IsFiniteSet(p.docs) /\ IsFiniteSet(p.incidents)
         /\ IsFiniteSet(p.jira) /\ IsFiniteSet(p.pr) /\ IsFiniteSet(p.roles) /\ IsFiniteSet(p.risks)
         /\ IsFiniteSet(p.concepts \cup p.code)
         /\ IsFiniteSet(p.concepts \cup p.code \cup p.tests)
         /\ IsFiniteSet(p.concepts \cup p.risks)
         /\ IsFiniteSet(History(p))
         /\ IsFiniteSet(p.concepts \cup p.code \cup p.docs \cup History(p))
<1>1. /\ IsFiniteSet(p.patterns) /\ IsFiniteSet(p.concepts) /\ IsFiniteSet(p.code)
      /\ IsFiniteSet(p.tests) /\ IsFiniteSet(p.docs) /\ IsFiniteSet(p.incidents)
      /\ IsFiniteSet(p.jira) /\ IsFiniteSet(p.pr) /\ IsFiniteSet(p.roles) /\ IsFiniteSet(p.risks)
  BY DEF IsProfile, ProfileLists
<1>2. IsFiniteSet(p.concepts \cup p.code)
  BY <1>1, FS_Union
<1>3. IsFiniteSet(p.concepts \cup p.code \cup p.tests)
  BY <1>1, <1>2, FS_Union
<1>4. IsFiniteSet(p.concepts \cup p.risks)
  BY <1>1, FS_Union
<1>5. IsFiniteSet(p.incidents \cup p.jira)
  BY <1>1, FS_Union
<1>6. IsFiniteSet(History(p))
  BY <1>1, <1>5, FS_Union DEF History
<1>7. IsFiniteSet(p.concepts \cup p.code \cup p.docs)
  BY <1>1, <1>2, FS_Union
<1>8. IsFiniteSet(p.concepts \cup p.code \cup p.docs \cup History(p))
  BY <1>6, <1>7, FS_Union
<1>. QED  BY <1>1, <1>2, <1>3, <1>4, <1>6, <1>8

LEMMA TermDimensionIs ==
  ASSUME NEW name, NEW lines, NEW terms, IsFiniteSet(terms), NEW weight \in Nat \ {0}
  PROVE  IsDimension(TermDimension(name, lines, terms, weight))
  BY ShareInt, DimensionIs DEF TermDimension

LEMMA EvidenceQualityIs ==
  ASSUME NEW lines, NEW from, NEW weight \in Nat \ {0}
  PROVE  IsDimension(EvidenceQuality(lines, from, weight))
<1>1. Cardinality(Coverage(lines.all)) \in Nat
  BY CoverageFinite
<1>2. 110 * Cardinality(Coverage(lines.all)) + (IF from = {} THEN 0 ELSE 200) \in Int
  BY <1>1
<1>. QED  BY <1>2, DimensionIs DEF EvidenceQuality

LEMMA RoleCoverageIs ==
  ASSUME NEW text, NEW profile, IsExpectation(profile), NEW weight \in Nat \ {0}
  PROVE  IsDimension(RoleCoverage(text, profile, weight))
<1>. DEFINE roles == Wanted(profile, LAMBDA p : p.roles, {"BA", "TL", "FE", "BE", "QA", "OPS"})
<1>1. IsFiniteSet(roles)
  <2>1. CASE profile = {}
    BY <2>1, FiniteLiterals DEF Wanted
  <2>2. CASE \E p : profile = {p} /\ IsProfile(p)
    <3>1. PICK p : profile = {p} /\ IsProfile(p)
      BY <2>2
    <3>2. roles = p.roles
      BY <3>1 DEF Wanted
    <3>. QED  BY <3>1, <3>2, ListsFinite
  <2>. QED  BY <2>1, <2>2 DEF IsExpectation
<1>2. Cardinality(roles) \in Nat /\ Cardinality(roles \cap text.roles) \in Nat
  <2>. HIDE DEF roles
  <2>1. roles \cap text.roles \in SUBSET roles /\ roles \in SUBSET roles
    OBVIOUS
  <2>. QED  BY <1>1, <2>1, PartNat
<1>3. Fraction(Cardinality(roles \cap text.roles), Cardinality(roles), 600) \in Int
  <2>. HIDE DEF roles
  <2>. QED  BY <1>2, FractionInt
<1>. QED  BY <1>3, DimensionIs DEF RoleCoverage

LEMMA TestAwarenessIs ==
  ASSUME NEW lines, NEW profile, IsExpectation(profile), NEW weight \in Nat \ {0}
  PROVE  IsDimension(TestAwareness(lines, profile, weight))
<1>. DEFINE tests == Wanted(profile, LAMBDA p : p.tests,
                            Terms({"test", "regression"}) \cup {Term(<<"acceptance", "criteria">>)})
<1>1. IsFiniteSet(tests)
  <2>1. CASE profile = {}
    <3>1. IsFiniteSet({"test", "regression"})
      BY FiniteLiterals
    <3>2. IsFiniteSet(Terms({"test", "regression"})) /\ IsFiniteSet({Term(<<"acceptance", "criteria">>)})
      BY <3>1, TermsFinite, FiniteLiterals
    <3>3. IsFiniteSet(Terms({"test", "regression"}) \cup {Term(<<"acceptance", "criteria">>)})
      BY <3>2, FS_Union
    <3>. QED  BY <2>1, <3>3 DEF Wanted
  <2>2. CASE \E p : profile = {p} /\ IsProfile(p)
    <3>1. PICK p : profile = {p} /\ IsProfile(p)
      BY <2>2
    <3>2. tests = p.tests
      BY <3>1 DEF Wanted
    <3>. QED  BY <3>1, <3>2, ListsFinite
  <2>. QED  BY <2>1, <2>2 DEF IsExpectation
<1>2. Share(lines.all, tests, 400) \in Int
  <2>. HIDE DEF tests
  <2>. QED  BY <1>1, ShareInt
<1>. QED  BY <1>2, DimensionIs DEF TestAwareness

LEMMA HistoricalContextIs ==
  ASSUME NEW lines, NEW profile, IsExpectation(profile), NEW weight \in Nat \ {0}
  PROVE  IsDimension(HistoricalContext(lines, profile, weight))
<1>. DEFINE categories == {"incidents", "historical_jira", "historical_pr"}
<1>1. CASE profile = {}
  <2>1. Cardinality(categories \cap Coverage(lines.all)) \in Nat
    BY CoverageFinite
  <2>2. Fraction(Cardinality(categories \cap Coverage(lines.all)), 3, 400) \in Int
    <3>. HIDE DEF categories
    <3>. QED  BY <2>1, FractionInt
  <2>. QED  BY <1>1, <2>2, DimensionIs DEF HistoricalContext
<1>2. CASE profile # {} /\ \E p : profile = {p} /\ IsProfile(p)
  <2>1. PICK p : profile = {p} /\ IsProfile(p)
    BY <1>2
  <2>2. UNION {History(q) : q \in profile} = History(p)
    BY <2>1
  <2>3. Share(lines.all, UNION {History(q) : q \in profile}, 500) \in Int
    <3>1. IsFiniteSet(History(p))
      BY <2>1, ListsFinite
    <3>2. Share(lines.all, History(p), 500) \in Int
      BY <3>1, ShareInt
    <3>. QED  BY <2>2, <3>2
  <2>. QED  BY <1>2, <2>3, DimensionIs DEF HistoricalContext
<1>. QED  BY <1>1, <1>2 DEF IsExpectation

LEMMA ActionabilityIs ==
  ASSUME NEW text, text.bullets \in Nat, NEW weight \in Nat \ {0}
  PROVE  IsDimension(Actionability(text, weight))
<1>. DEFINE asked == {Term(<<"acceptance", "criteria">>), Term(<<"open", "questions">>), Term(<<"dev", "notes">>),
                      Term(<<"test", "strategy">>), Term(<<"review", "checklist">>)}
<1>1. IsFiniteSet(asked)
  BY FiniteLiterals
<1>2. Cardinality(Present(text.lines, asked)) \in Nat
  <2>. HIDE DEF asked
  <2>1. Present(text.lines, asked) \in SUBSET asked
    BY DEF Present
  <2>. QED  BY <1>1, <2>1, PartNat
<1>3. 60 * text.bullets + 150 * Cardinality(Present(text.lines, asked)) \in Int
  <2>. HIDE DEF asked
  <2>. QED  BY <1>2
<1>. QED  BY <1>3, DimensionIs DEF Actionability

LEMMA SpecificityIs ==
  ASSUME NEW lines, NEW profile, IsExpectation(profile), NEW weight \in Nat \ {0}
  PROVE  IsDimension(Specificity(lines, profile, weight))
<1>. DEFINE names == Wanted(profile, LAMBDA p : p.concepts \cup p.code \cup p.docs \cup History(p),
                            Terms({"queued", "running", "failed", "completed", ".java", ".ts", ".py"}))
<1>1. IsFiniteSet(names)
  <2>1. CASE profile = {}
    <3>1. IsFiniteSet({"queued", "running", "failed", "completed", ".java", ".ts", ".py"})
      BY FiniteLiterals
    <3>. QED  BY <2>1, <3>1, TermsFinite DEF Wanted
  <2>2. CASE \E p : profile = {p} /\ IsProfile(p)
    <3>1. PICK p : profile = {p} /\ IsProfile(p)
      BY <2>2
    <3>2. names = p.concepts \cup p.code \cup p.docs \cup History(p)
      BY <3>1 DEF Wanted
    <3>. QED  BY <3>1, <3>2, ListsFinite
  <2>. QED  BY <2>1, <2>2 DEF IsExpectation
<1>2. Share(lines.all, names, 500) \in Int
  <2>. HIDE DEF names
  <2>. QED  BY <1>1, ShareInt
<1>3. Specificity(lines, profile, weight) = Dimension("specificity", Share(lines.all, names, 500), weight)
  BY DEF Specificity
<1>. HIDE DEF names
<1>. QED  BY <1>2, <1>3, DimensionIs

LEMMA HallucinationRiskIs ==
  ASSUME NEW lines, NEW weight \in Nat \ {0}
  PROVE  IsDimension(HallucinationRisk(lines, weight))
<1>1. IsFiniteSet(RiskyClaims) /\ IsFiniteSet({<<"ungrounded">>, <<"unreviewed">>})
  BY FiniteLiterals DEF RiskyClaims
<1>2. IsFiniteSet(RiskyClaims \cup {<<"ungrounded">>, <<"unreviewed">>})
  BY <1>1, FS_Union
<1>3. HallucinationWarnings(lines) \in SUBSET (RiskyClaims \cup {<<"ungrounded">>, <<"unreviewed">>})
  <2>. HIDE DEF RiskyClaims
  <2>. QED  BY DEF HallucinationWarnings
<1>4. Cardinality(HallucinationWarnings(lines)) \in Nat
  BY <1>2, <1>3, PartNat
<1>5. ASSUME NEW lost \in Int PROVE (IF lost > 900 THEN 0 ELSE 900 - lost) \in Int
  OBVIOUS
<1>6. 150 * Cardinality(HallucinationWarnings(lines)) \in Int
  BY <1>4
<1>. QED  BY <1>5, <1>6, DimensionIs DEF HallucinationRisk

-----------------------------------------------------------------------------
(* What each kind of output is scored on *)

AreDimensions(D) == IsFiniteSet(D) /\ D # {} /\ \A d \in D : IsDimension(d)

LEMMA HeadingsFinite ==
  ASSUME NEW type
  PROVE  IsFiniteSet(Headings(type))
  BY FiniteLiterals DEF Headings

LEMMA RequirementLikeIs ==
  ASSUME NEW type, NEW text, text.bullets \in Nat, NEW from, NEW profile, IsExpectation(profile)
  PROVE  AreDimensions(RequirementLike(type, text, from, profile))
<1>. DEFINE lines == Lines(text, from)
            found == {h \in Headings(type) : Occurs(lines.said, h)}
            complete == Completeness(Fraction(Cardinality(found), Cardinality(Headings(type)), 600))
            groups == IF profile = {} THEN Terms({"workflow", "backend", "api", "data", "test", "ops", "frontend"})
                      ELSE UNION {p.concepts \cup p.code : p \in profile}
            accurate == Dimension("impact_accuracy", Share(lines.all, groups, 500), 12)
<1>1. IsDimension(complete)
  <2>1. Cardinality(found) \in Nat /\ Cardinality(Headings(type)) \in Nat
    BY HeadingsFinite, PartNat
  <2>2. Fraction(Cardinality(found), Cardinality(Headings(type)), 600) \in Int
    <3>. HIDE DEF found
    <3>. QED  BY <2>1, FractionInt
  <2>. QED  BY <2>2, DimensionIs DEF Completeness
<1>2. IsDimension(accurate)
  <2>1. IsFiniteSet(groups)
    <3>1. CASE profile = {}
      <4>1. IsFiniteSet({"workflow", "backend", "api", "data", "test", "ops", "frontend"})
        BY FiniteLiterals
      <4>. QED  BY <3>1, <4>1, TermsFinite
    <3>2. CASE profile # {} /\ \E p : profile = {p} /\ IsProfile(p)
      <4>1. PICK p : profile = {p} /\ IsProfile(p)
        BY <3>2
      <4>2. groups = p.concepts \cup p.code
        BY <3>2, <4>1
      <4>. QED  BY <4>1, <4>2, ListsFinite
    <3>. QED  BY <3>1, <3>2 DEF IsExpectation
  <2>2. Share(lines.all, groups, 500) \in Int
    <3>. HIDE DEF groups
    <3>. QED  BY <2>1, ShareInt
  <2>. HIDE DEF groups, lines
  <2>. QED  BY <2>2, DimensionIs
<1>3. /\ IsDimension(EvidenceQuality(lines, from, 14))
      /\ IsDimension(RoleCoverage(text, profile, 10))
      /\ IsDimension(TestAwareness(lines, profile, 10))
      /\ IsDimension(HistoricalContext(lines, profile, 10))
      /\ IsDimension(Actionability(text, 11))
      /\ IsDimension(Specificity(lines, profile, 10))
      /\ IsDimension(HallucinationRisk(lines, 12))
  <2>. HIDE DEF lines
  <2>. QED  BY EvidenceQualityIs, RoleCoverageIs, TestAwarenessIs, HistoricalContextIs, ActionabilityIs,
               SpecificityIs, HallucinationRiskIs
<1>4. RequirementLike(type, text, from, profile)
        = {complete, EvidenceQuality(lines, from, 14), accurate, RoleCoverage(text, profile, 10), TestAwareness(lines, profile, 10),
           HistoricalContext(lines, profile, 10), Actionability(text, 11), Specificity(lines, profile, 10), HallucinationRisk(lines, 12)}
  BY DEF RequirementLike, ProfileDimension, Wanted
<1>. HIDE DEF lines, complete, accurate
<1>5. IsFiniteSet(RequirementLike(type, text, from, profile))
  <2>1. \A a, b, c, d, e, f, g, h, i : IsFiniteSet({a, b, c, d, e, f, g, h, i})
    BY FiniteLiterals
  <2>2. IsFiniteSet({complete, EvidenceQuality(lines, from, 14), accurate, RoleCoverage(text, profile, 10), TestAwareness(lines, profile, 10),
           HistoricalContext(lines, profile, 10), Actionability(text, 11), Specificity(lines, profile, 10), HallucinationRisk(lines, 12)})
    BY <2>1
  <2>. QED  BY <1>4, <2>2
<1>. QED  BY <1>1, <1>2, <1>3, <1>4, <1>5 DEF AreDimensions

LEMMA ImpactMapIs ==
  ASSUME NEW text, text.bullets \in Nat, NEW from, NEW profile, IsExpectation(profile)
  PROVE  AreDimensions(ImpactMap(text, from, profile))
<1>. DEFINE lines == Lines(text, from)
            complete == Completeness(Fraction(Cardinality(Present(lines.said, Terms(Areas))), 6, 600))
            groups == IF profile = {} THEN Terms(Areas)
                      ELSE UNION {p.concepts \cup p.code \cup p.tests : p \in profile}
            accurate == Dimension("impact_accuracy", Share(lines.all, groups, 500), 12)
<1>1. IsDimension(complete)
  <2>1. IsFiniteSet(Terms(Areas))
    BY FiniteLiterals, TermsFinite DEF Areas
  <2>2. Present(lines.said, Terms(Areas)) \in SUBSET Terms(Areas)
    BY DEF Present
  <2>3. Cardinality(Present(lines.said, Terms(Areas))) \in Nat
    BY <2>1, <2>2, PartNat
  <2>4. Fraction(Cardinality(Present(lines.said, Terms(Areas))), 6, 600) \in Int
    BY <2>3, FractionInt
  <2>. QED  BY <2>4, DimensionIs DEF Completeness
<1>2. IsDimension(accurate)
  <2>1. IsFiniteSet(groups)
    <3>1. CASE profile = {}
      <4>1. IsFiniteSet(Areas)
        BY FiniteLiterals DEF Areas
      <4>. QED  BY <3>1, <4>1, TermsFinite
    <3>2. CASE profile # {} /\ \E p : profile = {p} /\ IsProfile(p)
      <4>1. PICK p : profile = {p} /\ IsProfile(p)
        BY <3>2
      <4>2. groups = p.concepts \cup p.code \cup p.tests
        BY <3>2, <4>1
      <4>. QED  BY <4>1, <4>2, ListsFinite
    <3>. QED  BY <3>1, <3>2 DEF IsExpectation
  <2>2. Share(lines.all, groups, 500) \in Int
    <3>. HIDE DEF groups
    <3>. QED  BY <2>1, ShareInt
  <2>. HIDE DEF groups, lines
  <2>. QED  BY <2>2, DimensionIs
<1>3. /\ IsDimension(EvidenceQuality(lines, from, 14))
      /\ IsDimension(TestAwareness(lines, profile, 10))
      /\ IsDimension(Actionability(text, 11))
      /\ IsDimension(Specificity(lines, profile, 10))
      /\ IsDimension(HallucinationRisk(lines, 12))
  <2>. HIDE DEF lines
  <2>. QED  BY EvidenceQualityIs, TestAwarenessIs, ActionabilityIs, SpecificityIs, HallucinationRiskIs
<1>4. ImpactMap(text, from, profile)
        = {complete, EvidenceQuality(lines, from, 14), accurate, TestAwareness(lines, profile, 10), Actionability(text, 11),
           Specificity(lines, profile, 10), HallucinationRisk(lines, 12)}
  BY DEF ImpactMap, ProfileDimension, Wanted
<1>. HIDE DEF lines, complete, accurate
<1>5. IsFiniteSet(ImpactMap(text, from, profile))
  <2>1. \A a, b, c, d, e, f, g : IsFiniteSet({a, b, c, d, e, f, g})
    BY FiniteLiterals
  <2>2. IsFiniteSet({complete, EvidenceQuality(lines, from, 14), accurate, TestAwareness(lines, profile, 10), Actionability(text, 11),
           Specificity(lines, profile, 10), HallucinationRisk(lines, 12)})
    BY <2>1
  <2>. QED  BY <1>4, <2>2
<1>. QED  BY <1>1, <1>2, <1>3, <1>4, <1>5 DEF AreDimensions

LEMMA RoleQuestionsIs ==
  ASSUME NEW text, text.bullets \in Nat, text.prompts \in Nat, NEW from, NEW profile, IsExpectation(profile)
  PROVE  AreDimensions(RoleQuestions(text, from, profile))
<1>. DEFINE lines == Lines(text, from)
            complete == Completeness(Fraction(text.prompts, 8, 600))
            groups == IF profile = {} THEN Terms({"status", "api", "test", "runbook", "polling", "retry"})
                      ELSE UNION {p.concepts \cup p.risks : p \in profile}
            accurate == Dimension("impact_accuracy", Share(lines.all, groups, 500), 12)
<1>1. IsDimension(complete)
  <2>1. Fraction(text.prompts, 8, 600) \in Int
    BY FractionInt
  <2>. QED  BY <2>1, DimensionIs DEF Completeness
<1>2. IsDimension(accurate)
  <2>1. IsFiniteSet(groups)
    <3>1. CASE profile = {}
      <4>1. IsFiniteSet({"status", "api", "test", "runbook", "polling", "retry"})
        BY FiniteLiterals
      <4>. QED  BY <3>1, <4>1, TermsFinite
    <3>2. CASE profile # {} /\ \E p : profile = {p} /\ IsProfile(p)
      <4>1. PICK p : profile = {p} /\ IsProfile(p)
        BY <3>2
      <4>2. groups = p.concepts \cup p.risks
        BY <3>2, <4>1
      <4>. QED  BY <4>1, <4>2, ListsFinite
    <3>. QED  BY <3>1, <3>2 DEF IsExpectation
  <2>2. Share(lines.all, groups, 500) \in Int
    <3>. HIDE DEF groups
    <3>. QED  BY <2>1, ShareInt
  <2>. HIDE DEF groups, lines
  <2>. QED  BY <2>2, DimensionIs
<1>3. /\ IsDimension(EvidenceQuality(lines, from, 14))
      /\ IsDimension(RoleCoverage(text, profile, 10))
      /\ IsDimension(TestAwareness(lines, profile, 10))
      /\ IsDimension(Actionability(text, 11))
      /\ IsDimension(Specificity(lines, profile, 10))
      /\ IsDimension(HallucinationRisk(lines, 12))
  <2>. HIDE DEF lines
  <2>. QED  BY EvidenceQualityIs, RoleCoverageIs, TestAwarenessIs, ActionabilityIs, SpecificityIs,
               HallucinationRiskIs
<1>4. RoleQuestions(text, from, profile)
        = {complete, EvidenceQuality(lines, from, 14), RoleCoverage(text, profile, 10), accurate, TestAwareness(lines, profile, 10),
           Actionability(text, 11), Specificity(lines, profile, 10), HallucinationRisk(lines, 12)}
  BY DEF RoleQuestions, ProfileDimension, Wanted
<1>. HIDE DEF lines, complete, accurate
<1>5. IsFiniteSet(RoleQuestions(text, from, profile))
  <2>1. \A a, b, c, d, e, f, g, h : IsFiniteSet({a, b, c, d, e, f, g, h})
    BY FiniteLiterals
  <2>2. IsFiniteSet({complete, EvidenceQuality(lines, from, 14), RoleCoverage(text, profile, 10), accurate, TestAwareness(lines, profile, 10),
           Actionability(text, 11), Specificity(lines, profile, 10), HallucinationRisk(lines, 12)})
    BY <2>1
  <2>. QED  BY <1>4, <2>2
<1>. QED  BY <1>1, <1>2, <1>3, <1>4, <1>5 DEF AreDimensions

LEMMA PrReviewIs ==
  ASSUME NEW text, text.bullets \in Nat, NEW from, NEW profile, IsExpectation(profile)
  PROVE  AreDimensions(PrReview(text, from, profile))
<1>. DEFINE lines == Lines(text, from)
            terms1 == Terms({".java", "outputcollector"}) \cup {Term(<<"changed", "files">>)}
            terms2 == Terms({"codebase", ".java", "test"}) \cup {Term(<<"related", "codebase", "memory">>)}
            terms3 == Terms({"dfp-nnn", "business", "idempotency"})
            terms4 == Terms({"test", "regression", "missing", "coverage"})
            terms5 == Terms({"runbook", "ops", "incident", "retry", "duplicate", "idempotency"})
            d1 == TermDimension("changed_file_awareness", lines.said, terms1, 12)
            d2 == TermDimension("codebase_memory_usage", lines.all, terms2, 13)
            d3 == TermDimension("business_alignment", lines.said, terms3, 10)
            d4 == TermDimension("test_gap_detection", lines.said, terms4, 12)
            d5 == TermDimension("operational_risk_awareness", lines.said, terms5, 10)
<1>1. IsFiniteSet(terms1)
  <2>1. IsFiniteSet({".java", "outputcollector"})
    BY FiniteLiterals
  <2>2. IsFiniteSet(Terms({".java", "outputcollector"})) /\ IsFiniteSet({Term(<<"changed", "files">>)})
    BY <2>1, FiniteLiterals, TermsFinite
  <2>. QED  BY <2>2, FS_Union
<1>2. IsFiniteSet(terms2)
  <2>1. IsFiniteSet({"codebase", ".java", "test"})
    BY FiniteLiterals
  <2>2. IsFiniteSet(Terms({"codebase", ".java", "test"})) /\ IsFiniteSet({Term(<<"related", "codebase", "memory">>)})
    BY <2>1, FiniteLiterals, TermsFinite
  <2>. QED  BY <2>2, FS_Union
<1>3. IsFiniteSet(terms3)
  <2>1. IsFiniteSet({"dfp-nnn", "business", "idempotency"})
    BY FiniteLiterals
  <2>. QED  BY <2>1, TermsFinite
<1>4. IsFiniteSet(terms4)
  <2>1. IsFiniteSet({"test", "regression", "missing", "coverage"})
    BY FiniteLiterals
  <2>. QED  BY <2>1, TermsFinite
<1>5. IsFiniteSet(terms5)
  <2>1. IsFiniteSet({"runbook", "ops", "incident", "retry", "duplicate", "idempotency"})
    BY FiniteLiterals
  <2>. QED  BY <2>1, TermsFinite
<1>6. IsDimension(d1) /\ IsDimension(d2) /\ IsDimension(d3) /\ IsDimension(d4) /\ IsDimension(d5)
  <2>. HIDE DEF lines, terms1, terms2, terms3, terms4, terms5
  <2>. QED  BY <1>1, <1>2, <1>3, <1>4, <1>5, TermDimensionIs
<1>7. /\ IsDimension(HistoricalContext(lines, profile, 10))
      /\ IsDimension(Actionability(text, 10))
      /\ IsDimension(HallucinationRisk(lines, 12))
  <2>. HIDE DEF lines
  <2>. QED  BY HistoricalContextIs, ActionabilityIs, HallucinationRiskIs
<1>8. PrReview(text, from, profile)
        = {d1, d2, d3, d4, d5, HistoricalContext(lines, profile, 10), Actionability(text, 10), HallucinationRisk(lines, 12)}
  BY DEF PrReview
<1>. HIDE DEF lines, d1, d2, d3, d4, d5
<1>9. IsFiniteSet(PrReview(text, from, profile))
  <2>1. \A a, b, c, d, e, f, g, h : IsFiniteSet({a, b, c, d, e, f, g, h})
    BY FiniteLiterals
  <2>2. IsFiniteSet({d1, d2, d3, d4, d5, HistoricalContext(lines, profile, 10), Actionability(text, 10), HallucinationRisk(lines, 12)})
    BY <2>1
  <2>. QED  BY <1>8, <2>2
<1>. QED  BY <1>6, <1>7, <1>8, <1>9 DEF AreDimensions

LEMMA TestgenReportIs ==
  ASSUME NEW text, text.bullets \in Nat, NEW from
  PROVE  AreDimensions(TestgenReport(text, from))
<1>. DEFINE lines == Lines(text, from)
            terms1 == Terms({"target", "source", "test", ".java", ".py", ".ts"})
            terms2 == Terms({"validation", "status", "report"}) \cup {Term(<<"dry", "run">>)}
            terms3 == Terms({"coverage", "before", "after"})
            terms4 == {Term(<<"human", "review">>), Term(<<"review", "required">>), Term(<<"manual", "review">>)}
            terms5 == {Term(<<"dry", "run">>), Term(<<"no", "files", "were", "modified">>), Term(<<"does", "not", "modify">>), Term(<<"mock">>)}
            d1 == TermDimension("target_selection_quality", lines.said, terms1, 11)
            d2 == TermDimension("validation_clarity", lines.said, terms2, 10)
            d3 == TermDimension("coverage_reporting", lines.said, terms3, 10)
            d4 == TermDimension("human_review_readiness", lines.said, terms4, 13)
            d5 == TermDimension("safety", lines.said, terms5, 13)
<1>1. IsFiniteSet(terms1)
  <2>1. IsFiniteSet({"target", "source", "test", ".java", ".py", ".ts"})
    BY FiniteLiterals
  <2>. QED  BY <2>1, TermsFinite
<1>2. IsFiniteSet(terms2)
  <2>1. IsFiniteSet({"validation", "status", "report"})
    BY FiniteLiterals
  <2>2. IsFiniteSet(Terms({"validation", "status", "report"})) /\ IsFiniteSet({Term(<<"dry", "run">>)})
    BY <2>1, FiniteLiterals, TermsFinite
  <2>. QED  BY <2>2, FS_Union
<1>3. IsFiniteSet(terms3)
  <2>1. IsFiniteSet({"coverage", "before", "after"})
    BY FiniteLiterals
  <2>. QED  BY <2>1, TermsFinite
<1>4. IsFiniteSet(terms4)
  BY FiniteLiterals
<1>5. IsFiniteSet(terms5)
  BY FiniteLiterals
<1>6. IsDimension(d1) /\ IsDimension(d2) /\ IsDimension(d3) /\ IsDimension(d4) /\ IsDimension(d5)
  <2>. HIDE DEF lines, terms1, terms2, terms3, terms4, terms5
  <2>. QED  BY <1>1, <1>2, <1>3, <1>4, <1>5, TermDimensionIs
<1>7. /\ IsDimension(Actionability(text, 10))
      /\ IsDimension(HallucinationRisk(lines, 10))
  <2>. HIDE DEF lines
  <2>. QED  BY ActionabilityIs, HallucinationRiskIs
<1>8. TestgenReport(text, from)
        = {d1, d2, d3, d4, d5, Actionability(text, 10), HallucinationRisk(lines, 10)}
  BY DEF TestgenReport
<1>. HIDE DEF lines, d1, d2, d3, d4, d5
<1>9. IsFiniteSet(TestgenReport(text, from))
  <2>1. \A a, b, c, d, e, f, g : IsFiniteSet({a, b, c, d, e, f, g})
    BY FiniteLiterals
  <2>2. IsFiniteSet({d1, d2, d3, d4, d5, Actionability(text, 10), HallucinationRisk(lines, 10)})
    BY <2>1
  <2>. QED  BY <1>8, <2>2
<1>. QED  BY <1>6, <1>7, <1>8, <1>9 DEF AreDimensions

LEMMA DimensionsAre ==
  ASSUME NEW type, NEW text, text.bullets \in Nat, text.prompts \in Nat, NEW from,
         NEW profile, IsExpectation(profile)
  PROVE  AreDimensions(Dimensions(type, text, from, profile))
  BY RequirementLikeIs, ImpactMapIs, RoleQuestionsIs, PrReviewIs, TestgenReportIs DEF Dimensions

LEMMA ScoreIsNumber ==
  ASSUME NEW type, NEW text, text.bullets \in Nat, text.prompts \in Nat, NEW from,
         NEW profile, IsExpectation(profile)
  PROVE  WeightedAverage(Dimensions(type, text, from, profile)) \in Int
  BY DimensionsAre, AverageIsNumber DEF AreDimensions

-----------------------------------------------------------------------------
(* What passes *)

Meets(card) ==
    card.verdict.status = "pass" /\ card.type # "retrieval_context" =>
        \A p \in card.profile :
            /\ card.verdict.score >= p.minimum
            /\ \A risk \in p.risks : ItemPresent(Text[card.text].lines \cup card.sources, risk)

LEMMA VerdictMeets ==
  ASSUME NEW type, NEW text, text.bullets \in Nat, text.prompts \in Nat, NEW from,
         NEW profile, IsExpectation(profile), NEW strict,
         Verdict(type, text, from, profile, strict).status = "pass"
  PROVE  \A p \in profile :
            /\ Verdict(type, text, from, profile, strict).score >= p.minimum
            /\ \A risk \in p.risks : ItemPresent(text.lines \cup from, risk)
<1>. DEFINE score == WeightedAverage(Dimensions(type, text, from, profile))
            missing == MissingCritical(text, from, profile, strict)
            low == {p \in profile : p.minimum > 700 /\ score < p.minimum}
            critical == missing \cup {BelowThreshold : p \in low}
<1>1. score \in Int
  BY ScoreIsNumber
<1>2. Verdict(type, text, from, profile, strict)
        = [score |-> score, grade |-> Grade(score), status |-> PassStatus(score, critical), critical |-> critical]
  BY DEF Verdict
<1>3. PassStatus(score, critical) = "pass" /\ Verdict(type, text, from, profile, strict).score = score
  <2>. HIDE DEF score, critical
  <2>. QED  BY <1>2
<1>4. score >= 700 /\ critical = {}
  <2>. HIDE DEF score, critical
  <2>. QED  BY <1>3 DEF PassStatus
<1>5. missing = {} /\ low = {}
  <2>. HIDE DEF missing, low
  <2>. QED  BY <1>4
<1>6. ASSUME NEW p \in profile PROVE score >= p.minimum
  <2>1. p.minimum \in Nat
    BY DEF IsExpectation, IsProfile
  <2>2. ~(p.minimum > 700 /\ score < p.minimum)
    BY <1>5
  <2>. HIDE DEF score
  <2>. QED  BY <1>1, <1>4, <2>1, <2>2
<1>7. ASSUME NEW p \in profile, NEW risk \in p.risks PROVE ItemPresent(text.lines \cup from, risk)
  <2>1. MissingCritical(text, from, profile, strict) = {}
    BY <1>5
  <2>. DEFINE lost == {item \in p.risks \cup (IF strict THEN ExpectedOf(p) ELSE {}) :
                          ~ItemPresent(text.lines \cup from, item)}
  <2>2. lost \subseteq MissingCritical(text, from, profile, strict)
    BY DEF MissingCritical
  <2>3. risk \notin lost
    BY <2>1, <2>2
  <2>. QED  BY <2>3
<1>. QED  BY <1>3, <1>6, <1>7

LEMMA OneProfile ==
  ASSUME NEW ask, NEW target, ~IsUnknown(ask)
  PROVE  IsExpectation(ProfileFor(ask, target))
<1>1. \A i \in DOMAIN Profiles : IsProfile(Profiles[i])
  BY ScoringAssumption DEF IsProfile, ProfileLists
<1>2. ASSUME NEW lines PROVE IsExpectation(Infer(Profiles, lines))
  <2>. DEFINE P(i) == ProfileScore(Profiles[i], lines)
              Beats(i, j) == \/ P(i) > P(j)
                             \/ P(i) = P(j) /\ i <= j
              found == {i \in DOMAIN Profiles : P(i) > 0}
              best == {j \in found : \A k \in found : Beats(j, k)}
  <2>1. ASSUME NEW i \in DOMAIN Profiles PROVE P(i) \in Nat
    <3>1. IsFiniteSet(Profiles[i].patterns) /\ IsFiniteSet(Profiles[i].concepts)
      BY <1>1, ListsFinite
    <3>2. /\ Cardinality({p \in Profiles[i].patterns : Occurs(lines, p)}) \in Nat
          /\ Cardinality({c \in Profiles[i].concepts : Occurs(lines, c.value)}) \in Nat
      BY <3>1, PartNat
    <3>. QED  BY <3>2 DEF ProfileScore
  <2>2. \A i \in DOMAIN Profiles : i \in Nat
    BY ScoringAssumption
  <2>3. \A i, j \in best : i = j
    <3>1. ASSUME NEW i \in best, NEW j \in best PROVE i = j
      <4>1. i \in DOMAIN Profiles /\ j \in DOMAIN Profiles /\ Beats(i, j) /\ Beats(j, i)
        OBVIOUS
      <4>2. P(i) \in Nat /\ P(j) \in Nat /\ i \in Nat /\ j \in Nat
        BY <2>1, <2>2, <4>1
      <4>. HIDE DEF P
      <4>. QED  BY <4>1, <4>2
    <3>. QED  BY <3>1
  <2>4. Infer(Profiles, lines) = {Profiles[i] : i \in best}
    BY DEF Infer
  <2>5. best \subseteq DOMAIN Profiles
    OBVIOUS
  <2>. HIDE DEF best
  <2>6. CASE best = {}
    BY <2>4, <2>6 DEF IsExpectation
  <2>7. CASE best # {}
    <3>1. PICK i \in best : TRUE
      BY <2>7
    <3>2. {Profiles[j] : j \in best} = {Profiles[i]}
      BY <2>3, <3>1
    <3>3. IsProfile(Profiles[i])
      BY <1>1, <2>5, <3>1
    <3>. QED  BY <2>4, <3>2, <3>3 DEF IsExpectation
  <2>. QED  BY <2>6, <2>7
<1>. QED  BY <1>1, <1>2 DEF ProfileFor, IsUnknown, IsExpectation

LEMMA ScorecardMeets ==
  ASSUME NEW ask, NEW target, ~IsUnknown(ask), target.text \in DOMAIN Text
  PROVE  Meets(Scorecard(ask, target))
<1>1. Text[target.text].bullets \in Nat /\ Text[target.text].prompts \in Nat
  BY ScoringAssumption
<1>. DEFINE profile == ProfileFor(ask, target)
            verdict == Verdict(ask.type, Text[target.text], target.sources, profile, ask.strict)
<1>2. IsExpectation(profile)
  BY OneProfile
<1>3. verdict.status = "pass" =>
        \A p \in profile :
            /\ verdict.score >= p.minimum
            /\ \A risk \in p.risks : ItemPresent(Text[target.text].lines \cup target.sources, risk)
  <2>. HIDE DEF profile
  <2>. QED  BY <1>1, <1>2, VerdictMeets
<1>4. /\ Scorecard(ask, target).verdict = verdict /\ Scorecard(ask, target).profile = profile
      /\ Scorecard(ask, target).text = target.text /\ Scorecard(ask, target).sources = target.sources
  BY DEF Scorecard
<1>. HIDE DEF profile, verdict
<1>. QED  BY <1>3, <1>4 DEF Meets

-----------------------------------------------------------------------------
(* A pass meets its profile *)

Held(v) == IF v = Idle THEN {} ELSE v.card

\* Rows and what handlers are about to make rows of.
CardsMeet ==
    /\ \A id \in DOMAIN rows : Meets(rows[id])
    /\ \A w \in Workers : \A card \in Held(worker[w]) : Meets(card)

LEMMA OneMoves ==
  ASSUME IInv, CardsMeet, NEW w \in Workers, NEW r, worker' = [worker EXCEPT ![w] = r],
         \A card \in Held(r) : Meets(card), rows' = rows
  PROVE  CardsMeet'
<1>1. \A u \in Workers : worker'[u] = IF u = w THEN r ELSE worker[u]
  BY DEF IInv, WorkersInv
<1>2. \A u \in Workers : \A card \in Held(worker'[u]) : Meets(card)
  BY <1>1 DEF CardsMeet
<1>. QED  BY <1>2 DEF CardsMeet, Meets, Held

LEMMA NoneMoves ==
  ASSUME CardsMeet, worker' = worker, rows' = rows
  PROVE  CardsMeet'
  BY DEF CardsMeet, Meets, Held

LEMMA Returns ==
  ASSUME IInv, CardsMeet, NEW w \in Workers, Return(w), rows' = rows
  PROVE  CardsMeet'
<1>1. Held(Idle) = {}
  BY DEF Held
<1>. QED  BY <1>1, OneMoves DEF Return

LEMMA Goes ==
  ASSUME IInv, CardsMeet, NEW w \in Workers, NEW at, at # "idle", At(w, at), NEW pc, GoTo(w, pc), rows' = rows
  PROVE  CardsMeet'
<1>1. PICK v : v = worker[w]
  OBVIOUS
<1>2. v # Idle /\ IsRequest(v, Latest) /\ worker = [u \in Workers |-> worker[u]]
  BY <1>1, Busy DEF HandlerInv, IInv, WorkersInv
<1>3. PICK r : r = Moved(v, pc, v.text, v.sources, v.card)
  OBVIOUS
<1>4. worker' = [worker EXCEPT ![w] = r]
  BY <1>1, <1>2, <1>3, GoesTo
<1>5. Held(r) = Held(v)
  BY <1>2, <1>3, MovedFields DEF Held
<1>6. \A card \in Held(r) : Meets(card)
  BY <1>1, <1>5 DEF CardsMeet
<1>. QED  BY <1>4, <1>6, OneMoves

LEMMA Serves ==
  ASSUME IInv, CardsMeet, NEW w \in Workers, NEW kind, NEW r, Serve(w, kind, r), \A card \in r.card : Meets(card)
  PROVE  CardsMeet'
<1>1. worker' = [worker EXCEPT ![w] = r] /\ rows' = rows
  BY DEF Serve, stores
<1>2. \A card \in Held(r) : Meets(card)
  BY DEF Held
<1>. QED  BY <1>1, <1>2, OneMoves

LEMMA RequestMeets ==
  ASSUME IInv, CardsMeet, NEW w \in Workers, Request(w)
  PROVE  CardsMeet'
<1>1. ASSUME NEW ask, Draft(w, ask) PROVE CardsMeet'
  <2>. DEFINE r == [Fresh("draft", "complete") EXCEPT !.sources = DraftLines[ask]]
  <2>1. r.card = {}
    BY FreshFields
  <2>. QED  BY <1>1, <2>1, Serves DEF Draft
<1>2. ASSUME NEW ask, Review(w, ask) PROVE CardsMeet'
  <2>. DEFINE r == [Fresh("review", "trail") EXCEPT
                      !.sources = ReviewLines[ask].sources, !.kept = ReviewLines[ask].kept]
  <2>1. r.card = {}
    BY FreshFields
  <2>2. Serve(w, "generate", r)
    BY <1>2 DEF Review
  <2>. HIDE DEF r
  <2>. QED  BY <2>1, <2>2, Serves
<1>3. ASSUME RunTestgen(w) PROVE CardsMeet'
  <2>. DEFINE r == [Fresh("testgen", "artifact") EXCEPT !.text = {Report}]
  <2>1. r.card = {}
    BY FreshFields
  <2>. QED  BY <1>3, <2>1, Serves DEF RunTestgen
<1>4. ASSUME NEW ask, NEW key, Evaluate(w, ask, key) PROVE CardsMeet'
  <2>. DEFINE r == [Fresh("evaluate", "load") EXCEPT !.ask = {Keyed(ask, key)}]
  <2>1. r.card = {}
    BY FreshFields
  <2>. QED  BY <1>4, <2>1, Serves DEF Evaluate
<1>5. ASSUME NEW id \in DOMAIN rows, JudgeExisting(w, id) PROVE CardsMeet'
  <2>. DEFINE r == [Fresh("judge", "load") EXCEPT !.evaluation = id, !.card = {rows[id]}]
  <2>1. r.card = {rows[id]}
    BY FreshFields
  <2>2. \A card \in r.card : Meets(card)
    BY <2>1 DEF CardsMeet
  <2>. QED  BY <1>5, <2>2, Serves DEF JudgeExisting
<1>6. ASSUME NEW ask, EvaluateRetrieval(w, ask) PROVE CardsMeet'
  <2>. DEFINE r == [Fresh("retrieval", "trail") EXCEPT !.ask = {ask}, !.sources = CaseSources, !.kept = CaseSources]
  <2>1. r.card = {}
    BY FreshFields
  <2>. QED  BY <1>6, <2>1, Serves DEF EvaluateRetrieval
<1>. QED  BY <1>1, <1>2, <1>3, <1>4, <1>5, <1>6 DEF Request

LEMMA ScoreMeets ==
  ASSUME IInv, CardsMeet, NEW w \in Workers, Score(w)
  PROVE  CardsMeet'
<1>1. PICK v : v = worker[w]
  OBVIOUS
<1>2. v # Idle /\ HandlerInv(v) /\ v.pc = "load" /\ v.op = "evaluate" /\ IsRequest(v, Latest)
  BY <1>1, Busy DEF Score, HandlerInv
<1>3. CASE Fail(w)
  BY <1>3, Returns DEF Fail, stores
<1>4. CASE ~Fail(w)
  <2>1. PICK ask \in v.ask : \E target \in LoadTarget(ask.type, ask.key) :
            /\ ~IsUnknown(ask)
            /\ Local(w, [v EXCEPT !.card = {Scorecard(ask, target)}, !.sources = target.sources,
                                  !.text = {target.text}, !.pc = IF ask.judge THEN "judge" ELSE "json"])
    BY <1>1, <1>4 DEF Score
  <2>2. PICK target \in LoadTarget(ask.type, ask.key) :
            /\ ~IsUnknown(ask)
            /\ Local(w, [v EXCEPT !.card = {Scorecard(ask, target)}, !.sources = target.sources,
                                  !.text = {target.text}, !.pc = IF ask.judge THEN "judge" ELSE "json"])
    BY <2>1
  <2>3. IsKey(ask.key, Latest)
    BY <1>2, <2>1 DEF IsRequest
  <2>4. target.text \in DOMAIN Text
    BY <2>3, LoadTargetFacts DEF TargetOf
  <2>5. Meets(Scorecard(ask, target))
    BY <2>2, <2>4, ScorecardMeets
  <2>. DEFINE r == [v EXCEPT !.card = {Scorecard(ask, target)}, !.sources = target.sources,
                             !.text = {target.text}, !.pc = IF ask.judge THEN "judge" ELSE "json"]
  <2>6. r.card = {Scorecard(ask, target)}
    BY <1>2 DEF IsRequest, Moved
  <2>7. worker' = [worker EXCEPT ![w] = r] /\ rows' = rows
    BY <2>2 DEF Local, stores
  <2>8. \A card \in Held(r) : Meets(card)
    <3>. HIDE DEF r
    <3>. QED  BY <2>5, <2>6 DEF Held
  <2>. HIDE DEF r
  <2>. QED  BY <2>7, <2>8, OneMoves
<1>. QED  BY <1>3, <1>4

LEMMA ScoreRetrievalMeets ==
  ASSUME IInv, CardsMeet, NEW w \in Workers, ScoreRetrieval(w)
  PROVE  CardsMeet'
<1>1. PICK v : v = worker[w]
  OBVIOUS
<1>2. v # Idle /\ IsRequest(v, Latest)
  BY <1>1, Busy DEF ScoreRetrieval, HandlerInv
<1>3. CASE Fail(w)
  BY <1>3, Returns DEF Fail, stores
<1>4. CASE ~Fail(w)
  <2>. DEFINE Card(ask) == [type |-> "retrieval_context", key |-> Key({0}, {}, TRUE), text |-> ask.pack.text,
                            sources |-> CaseSources, profile |-> {Profiles[ask.profile]},
                            verdict |-> RetrievalVerdict(ask.pack, Profiles[ask.profile]), judge |-> {}]
  <2>1. PICK ask \in v.ask : Local(w, [v EXCEPT !.card = {Card(ask)}, !.pc = "json"])
    BY <1>1, <1>4 DEF ScoreRetrieval
  <2>2. PICK card : card = Card(ask)
    OBVIOUS
  <2>3. card.type = "retrieval_context"
    BY <2>2
  <2>. HIDE DEF Card
  <2>4. PICK r : r = Moved(v, "json", v.text, v.sources, {card})
    OBVIOUS
  <2>5. [v EXCEPT !.card = {card}, !.pc = "json"] = r
    BY <1>2, <2>4, MovedCard
  <2>6. Local(w, r)
    BY <2>1, <2>2, <2>5
  <2>7. worker' = [worker EXCEPT ![w] = r] /\ rows' = rows
    BY <2>6 DEF Local, stores
  <2>8. \A c \in Held(r) : Meets(c)
    BY <2>3, <2>4, MovedFields DEF Held, Meets
  <2>. QED  BY <2>7, <2>8, OneMoves
<1>. QED  BY <1>3, <1>4

LEMMA ReloadMeets ==
  ASSUME IInv, CardsMeet, NEW w \in Workers, Reload(w)
  PROVE  CardsMeet'
<1>1. PICK v : v = worker[w]
  OBVIOUS
<1>2. v # Idle /\ IsRequest(v, Latest)
  BY <1>1, Busy DEF Reload, HandlerInv
<1>3. CASE Fail(w)
  BY <1>3, Returns DEF Fail, stores
<1>4. CASE ~Fail(w)
  <2>1. PICK target : Local(w, [v EXCEPT !.text = {target.text}, !.sources = target.sources, !.pc = "judge"])
    BY <1>1, <1>4 DEF Reload
  <2>2. PICK r : r = Moved(v, "judge", {target.text}, target.sources, v.card)
    OBVIOUS
  <2>3. [v EXCEPT !.text = {target.text}, !.sources = target.sources, !.pc = "judge"] = r
    BY <1>2, <2>2, MovedSources
  <2>4. Local(w, r)
    BY <2>1, <2>3
  <2>5. worker' = [worker EXCEPT ![w] = r] /\ rows' = rows
    BY <2>4 DEF Local, stores
  <2>6. Held(r) = Held(v)
    BY <1>2, <2>2, MovedFields DEF Held
  <2>7. \A card \in Held(r) : Meets(card)
    BY <1>1, <2>6 DEF CardsMeet
  <2>. QED  BY <2>5, <2>7, OneMoves
<1>. QED  BY <1>3, <1>4

LEMMA JudgeMeets ==
  ASSUME IInv, CardsMeet, NEW w \in Workers, Judge(w)
  PROVE  CardsMeet'
<1>1. PICK v : v = worker[w]
  OBVIOUS
<1>2. v # Idle /\ IsRequest(v, Latest)
  BY <1>1, Busy DEF Judge, HandlerInv
<1>3. PICK card \in v.card : Local(w, [v EXCEPT !.card = {[card EXCEPT !.judge = v.text]}, !.pc = "json"])
  BY <1>1 DEF Judge
<1>4. PICK judged : judged = [card EXCEPT !.judge = v.text]
  OBVIOUS
<1>5. IsScorecard(card, Latest) /\ Meets(card)
  BY <1>1, <1>2 DEF IsRequest, CardsMeet, Held
<1>6. Meets(judged)
  <2>1. /\ judged.type = card.type /\ judged.verdict = card.verdict /\ judged.profile = card.profile
        /\ judged.text = card.text /\ judged.sources = card.sources
    BY <1>4, <1>5 DEF IsScorecard
  <2>. QED  BY <1>5, <2>1 DEF Meets
<1>7. PICK r : r = Moved(v, "json", v.text, v.sources, {judged})
  OBVIOUS
<1>8. [v EXCEPT !.card = {judged}, !.pc = "json"] = r
  BY <1>2, <1>7, MovedCard
<1>9. Local(w, r)
  BY <1>3, <1>4, <1>8
<1>10. worker' = [worker EXCEPT ![w] = r] /\ rows' = rows
  BY <1>9 DEF Local, stores
<1>11. \A c \in Held(r) : Meets(c)
  BY <1>6, <1>7, MovedFields DEF Held
<1>. QED  BY <1>10, <1>11, OneMoves

LEMMA SaveRowMeets ==
  ASSUME IInv, CardsMeet, NEW w \in Workers, SaveRow(w)
  PROVE  CardsMeet'
<1>1. PICK v : v = worker[w]
  OBVIOUS
<1>2. v # Idle /\ IsRequest(v, Latest) /\ worker = [u \in Workers |-> worker[u]]
  BY <1>1, Busy DEF SaveRow, HandlerInv, IInv, WorkersInv
<1>3. PICK card \in v.card : /\ rows' = Put(rows, v.evaluation, card)
                             /\ GoTo(w, IF card.judge = {} THEN "log" ELSE "log_judge")
  BY <1>1 DEF SaveRow
<1>4. Meets(card)
  BY <1>1, <1>2, <1>3 DEF CardsMeet, Held
<1>5. \A id \in DOMAIN rows' : rows'[id] = card \/ (id \in DOMAIN rows /\ rows'[id] = rows[id])
  BY <1>3 DEF Put
<1>6. PICK pc : GoTo(w, pc)
  BY <1>3
<1>7. PICK r : r = Moved(v, pc, v.text, v.sources, v.card)
  OBVIOUS
<1>8. worker' = [worker EXCEPT ![w] = r]
  BY <1>1, <1>2, <1>6, <1>7, GoesTo
<1>9. Held(r) = Held(v)
  BY <1>2, <1>7, MovedFields DEF Held
<1>10. \A u \in Workers : worker'[u] = IF u = w THEN r ELSE worker[u]
  BY <1>2, <1>8
<1>11. \A u \in Workers : \A c \in Held(worker'[u]) : Meets(c)
  BY <1>1, <1>9, <1>10 DEF CardsMeet
<1>12. \A id \in DOMAIN rows' : Meets(rows'[id])
  BY <1>4, <1>5 DEF CardsMeet
<1>. QED  BY <1>11, <1>12 DEF CardsMeet, Meets, Held

LEMMA OtherStepMeets ==
  ASSUME IInv, CardsMeet, NEW w \in Workers,
         \/ SaveTrail(w) \/ SavePack(w) \/ SaveCasePack(w) \/ SavePreview(w) \/ Complete(w) \/ WriteArtifact(w)
         \/ WriteJson(w) \/ WriteReport(w) \/ LogJudge(w) \/ Log(w)
  PROVE  CardsMeet'
<1>1. ASSUME NEW kind \in {"trail", "pack", "preview"}, NEW next, SaveContext(w, kind, next) PROVE CardsMeet'
  BY <1>1, Goes DEF SaveContext
<1>2. CASE SaveTrail(w) \/ SavePack(w) \/ SaveCasePack(w) \/ SavePreview(w)
  BY <1>1, <1>2 DEF SaveTrail, SavePack, SaveCasePack, SavePreview
<1>3. CASE Complete(w)
  <2>1. PICK v : v = worker[w]
    OBVIOUS
  <2>2. v # Idle /\ IsRequest(v, Latest)
    BY <1>3, <2>1, Busy DEF Complete, HandlerInv
  <2>3. CASE Fail(w)
    BY <2>3, Returns DEF Fail, stores
  <2>4. CASE ~Fail(w)
    <3>1. PICK id \in Answers : Local(w, [v EXCEPT !.text = {id}, !.pc = "artifact"])
      BY <1>3, <2>1, <2>4 DEF Complete
    <3>2. PICK r : r = Moved(v, "artifact", {id}, v.sources, v.card)
      OBVIOUS
    <3>3. worker' = [worker EXCEPT ![w] = r] /\ rows' = rows
      BY <2>2, <3>1, <3>2, MovedText DEF Local, stores
    <3>4. Held(r) = Held(v)
      BY <2>2, <3>2, MovedFields DEF Held
    <3>5. \A card \in Held(r) : Meets(card)
      BY <2>1, <3>4 DEF CardsMeet
    <3>. QED  BY <3>3, <3>5, OneMoves
  <2>. QED  BY <2>3, <2>4
<1>4. CASE WriteArtifact(w)
  BY <1>4, Goes DEF WriteArtifact, stores
<1>5. CASE WriteJson(w)
  BY <1>5, Goes DEF WriteJson
<1>6. CASE WriteReport(w)
  BY <1>6, Goes DEF WriteReport
<1>7. CASE LogJudge(w)
  BY <1>7, Goes, Returns DEF LogJudge
<1>8. CASE Log(w)
  BY <1>8, Returns DEF Log
<1>. QED  BY <1>2, <1>3, <1>4, <1>5, <1>6, <1>7, <1>8

LEMMA NextMeets == IInv /\ CardsMeet /\ [Next]_vars => CardsMeet'
<1> SUFFICES ASSUME IInv, CardsMeet, [Next]_vars PROVE CardsMeet'
  OBVIOUS
<1>1. CASE Environment
  BY <1>1, NoneMoves DEF Environment, DeleteArtifact, EditArtifact, ChangeCase, Edit, stores
<1>2. ASSUME NEW w \in Workers, Request(w) PROVE CardsMeet'
  BY <1>2, RequestMeets
<1>3. ASSUME NEW w \in Workers, Step(w) PROVE CardsMeet'
  BY <1>3, OtherStepMeets, ScoreMeets, ReloadMeets, ScoreRetrievalMeets, JudgeMeets, SaveRowMeets DEF Step
<1>4. ASSUME NEW w \in Workers, Abort(w) PROVE CardsMeet'
  BY <1>4, Returns DEF Abort, stores
<1>5. CASE UNCHANGED vars
  BY <1>5, NoneMoves DEF vars, stores
<1>. QED  BY <1>1, <1>2, <1>3, <1>4, <1>5 DEF Next

\* What passes has the score that its profile asks for, and every critical
\* risk of the profile is in its text or its sources.
THEOREM PassesMeet == Spec => []PassMeetsProfile
<1>1. Init => CardsMeet
  <2>1. ASSUME Init PROVE rows = <<>> /\ DOMAIN rows = {} /\ \A w \in Workers : worker[w] = Idle
    BY <2>1 DEF Init
  <2>. QED  BY <2>1 DEF CardsMeet, Held
<1>2. CardsMeet => PassMeetsProfile
  BY DEF CardsMeet, Meets, PassMeetsProfile
<1>. QED  BY <1>1, <1>2, NextMeets, Invariance, PTL DEF Spec

-----------------------------------------------------------------------------
(* What a review keeps *)

\* Merging keeps an item of each key, with the highest score it had, and in
\* no later a place than that of any item of the key among the sorted ones.
LEMMA MergeFacts ==
  ASSUME NEW results, IsSeq(results), \A r \in Range(results) : r.score \in Int
  PROVE  LET merged == Merge(results)
         IN  /\ IsSeq(merged) /\ Len(merged) \in Nat /\ Len(merged) <= Len(results)
             /\ Range(merged) \subseteq Range(results)
             /\ \A i \in DOMAIN results : \E q \in DOMAIN merged :
                    /\ MergeKey(merged[q]) = MergeKey(results[i])
                    /\ merged[q].score >= results[i].score
                    /\ q <= Cardinality(NoLater(DOMAIN results, [j \in DOMAIN results |-> results[j].score], i))
<1>. DEFINE score == [j \in DOMAIN results |-> results[j].score]
            sorted == Sorted(results, score)
            key == [n \in DOMAIN sorted |-> MergeKey(sorted[n])]
            merged == FirstOfEach(sorted, key)
            Rank(i) == Cardinality(NoLater(DOMAIN results, score, i))
<1>1. Merge(results) = merged
  BY DEF Merge
<1>2. DOMAIN score = DOMAIN results /\ \A i \in DOMAIN results : score[i] = results[i].score /\ score[i] \in Int
  BY DEF Range
<1>. HIDE DEF score
<1>3. /\ IsSeq(sorted) /\ Len(sorted) = Len(results) /\ Range(sorted) = Range(results)
      /\ \A i \in DOMAIN results : Rank(i) \in DOMAIN sorted /\ sorted[Rank(i)] = results[i]
  BY <1>2, SortedFacts
<1>4. \A m, n \in DOMAIN sorted : m <= n =>
          \E i, j \in DOMAIN results : sorted[m] = results[i] /\ sorted[n] = results[j] /\ score[i] >= score[j]
  BY <1>2, SortedDescends
<1>. HIDE DEF sorted, Rank
<1>5. DOMAIN key = DOMAIN sorted /\ \A n \in DOMAIN sorted : key[n] = MergeKey(sorted[n])
  OBVIOUS
<1>. HIDE DEF key
<1>6. /\ IsSeq(merged) /\ Len(merged) \in Nat /\ Len(merged) <= Len(sorted) /\ Range(merged) \subseteq Range(sorted)
      /\ \A n \in DOMAIN sorted : \E q \in DOMAIN merged : \E m \in DOMAIN sorted :
             q <= m /\ m <= n /\ key[m] = key[n] /\ merged[q] = sorted[m]
  BY <1>3, FirstOfEachFacts
<1>. HIDE DEF merged
<1>7. DOMAIN sorted \subseteq Nat /\ DOMAIN merged \subseteq Nat
  <2>1. \A s : IsSeq(s) => DOMAIN s \subseteq Nat
    BY DEF IsSeq
  <2>. QED  BY <1>3, <1>6, <2>1
<1>8. ASSUME NEW i \in DOMAIN results
      PROVE  \E q \in DOMAIN merged :
                 /\ MergeKey(merged[q]) = MergeKey(results[i])
                 /\ merged[q].score >= results[i].score
                 /\ q <= Rank(i)
  <2>. DEFINE n == Rank(i)
  <2>1. n \in DOMAIN sorted /\ sorted[n] = results[i]
    BY <1>3
  <2>. HIDE DEF n
  <2>2. PICK q \in DOMAIN merged, m \in DOMAIN sorted :
            q <= m /\ m <= n /\ key[m] = key[n] /\ merged[q] = sorted[m]
    BY <1>6, <2>1
  <2>3. q <= n
    BY <1>7, <2>1, <2>2
  <2>4. MergeKey(merged[q]) = MergeKey(results[i])
    BY <1>5, <2>1, <2>2
  <2>5. merged[q].score >= results[i].score
    BY <1>2, <1>4, <2>1, <2>2
  <2>. QED  BY <2>3, <2>4, <2>5 DEF n
<1>. QED  BY <1>1, <1>3, <1>6, <1>8 DEF Rank, score

LEMMA PriorityIsNat == \A node : NodePriority(node) \in Nat
<1>. SUFFICES ASSUME NEW node PROVE NodePriority(node) \in Nat
  OBVIOUS
<1>. DEFINE places == {i \in 1..Len(Priority) : Priority[i] = node.type}
            place == IF places # {} THEN Min(places) ELSE 0
<1>1. NodePriority(node) = IF place = 0 THEN 20 ELSE place - 1
  BY DEF NodePriority, SelectInSeq
<1>2. Len(Priority) \in Nat
  BY DEF Priority
<1>3. places \in SUBSET Nat
  BY <1>2
<1>. HIDE DEF places
<1>4. places # {} => Min(places) \in places
  <2>1. ASSUME places # {} PROVE \E n \in places : \A m \in places : n <= m
    BY <1>3, <2>1, LeastNat
  <2>. QED  BY <2>1 DEF Min
<1>5. place \in Nat
  BY <1>3, <1>4
<1>. HIDE DEF place
<1>. QED  BY <1>1, <1>5

\* Of finitely many nodes there are the first n by priority, however many n are.
LEMMA FirstNodesExist ==
  ASSUME NEW S, IsFiniteSet(S), NEW limit \in Nat
  PROVE  \E chosen \in Best(S, limit) :
             \A n \in chosen, m \in S \ chosen : NodePriority(n) <= NodePriority(m)
<1>. DEFINE size == Cardinality(S)
            Chosen(k) == {chosen \in SUBSET S :
                /\ Cardinality(chosen) = IF size < k THEN size ELSE k
                /\ \A n \in chosen, m \in S \ chosen : NodePriority(n) <= NodePriority(m)}
            Found == {k \in Nat : Chosen(k) # {}}
<1>1. size \in Nat
  BY FS_CardinalityType
<1>2. 0 \in Found
  <2>1. {} \in Chosen(0)
    BY <1>1, FS_EmptySet
  <2>. HIDE DEF Chosen
  <2>. QED  BY <2>1
<1>3. ASSUME NEW k \in Nat, k \in Found PROVE k + 1 \in Found
  <2>1. PICK chosen \in Chosen(k) : TRUE
    BY <1>3
  <2>2. IsFiniteSet(chosen) /\ Cardinality(chosen) \in Nat
    BY <2>1, FS_Subset, FS_CardinalityType
  <2>3. CASE size < k + 1
    <3>1. chosen \in Chosen(k + 1)
      BY <1>1, <2>1, <2>3
    <3>. HIDE DEF Chosen
    <3>. QED  BY <3>1
  <2>4. CASE ~(size < k + 1)
    <3>1. Cardinality(chosen) = k
      BY <1>1, <2>1, <2>4
    <3>2. S \ chosen # {}
      <4>. SUFFICES ASSUME chosen = S PROVE FALSE
        BY <2>1
      <4>. QED  BY <1>1, <2>4, <3>1
    <3>. DEFINE P == {NodePriority(m) : m \in S \ chosen}
    <3>3. P \in SUBSET Nat /\ P # {}
      BY <3>2, PriorityIsNat
    <3>4. PICK p \in P : \A q \in P : p <= q
      <4>. HIDE DEF P
      <4>. QED  BY <3>3, LeastNat
    <3>5. PICK x \in S \ chosen : \A m \in S \ chosen : NodePriority(x) <= NodePriority(m)
      BY <3>4
    <3>. HIDE DEF P
    <3>6. Cardinality(chosen \cup {x}) = k + 1 /\ chosen \cup {x} \in SUBSET S
      BY <2>1, <2>2, <3>1, <3>5, FS_AddElement
    <3>7. \A n \in chosen \cup {x}, m \in S \ (chosen \cup {x}) : NodePriority(n) <= NodePriority(m)
      BY <2>1, <3>5
    <3>8. chosen \cup {x} \in Chosen(k + 1)
      BY <1>1, <2>4, <3>6, <3>7
    <3>. HIDE DEF Chosen
    <3>. QED  BY <3>8
  <2>. QED  BY <2>3, <2>4
<1>. HIDE DEF Found
<1>4. limit \in Found
  BY <1>2, <1>3, InductiveSet
<1>. QED  BY <1>4 DEF Found, Best

LEMMA ConnectedAreFinite ==
  ASSUME NEW graph, IsFiniteSet(graph.nodes), NEW node, NEW limit \in Nat
  PROVE  LET near == CHOOSE nodes \in ConnectedNodes(graph, node, limit) : TRUE
         IN  near \subseteq graph.nodes /\ IsFiniteSet(near)
<1>. DEFINE S == Neighbours(graph, node)
            near == CHOOSE nodes \in ConnectedNodes(graph, node, limit) : TRUE
<1>1. S \subseteq graph.nodes /\ IsFiniteSet(S)
  BY FS_Subset DEF Neighbours
<1>2. \E chosen \in Best(S, limit) : \A n \in chosen, m \in S \ chosen : NodePriority(n) <= NodePriority(m)
  <2>. HIDE DEF S
  <2>. QED  BY <1>1, FirstNodesExist
<1>3. ConnectedNodes(graph, node, limit) # {}
  BY <1>2 DEF ConnectedNodes
<1>4. near \in ConnectedNodes(graph, node, limit)
  BY <1>3
<1>. HIDE DEF near
<1>5. near \subseteq S
  BY <1>4 DEF ConnectedNodes, Best
<1>6. near \subseteq graph.nodes
  BY <1>1, <1>5
<1>. QED  BY <1>6, FS_Subset DEF near

LEMMA FoundIsFinite ==
  ASSUME NEW ask \in Reviews
  PROVE  IsFiniteSet(SavedIndex.files) /\ IsFiniteSet(SavedGraph.nodes)
<1>. DEFINE indexes == {SavedIndex}
            graph == Graph(Pages, indexes)
<1>1. PathOrder \in Seq(Paths)
  BY SourcesAssumption DEF SourcesAssumption
<1>2. IsFiniteSet(Paths)
  BY <1>1, RangeFinite DEF Paths, IsSeq
<1>3. IsRead(Repo)
  BY <1>2, SourcesAssumption, FS_Subset DEF SourcesAssumption, IsRead, IsSeq
<1>4. IsFinite(SavedIndex)
  BY <1>1, <1>3, IndexFinite DEF SavedIndex
<1>5. IsFiniteSet(indexes) /\ \A index \in indexes : IsFinite(index)
  BY <1>4, FS_Singleton
<1>6. IsSeq(Pages) /\ \A doc \in Range(Pages) : IsFiniteSet(doc.concepts) /\ IsSeq(doc.relatedCode)
  BY SourcesAssumption DEF SourcesAssumption, IsSeq
<1>7. SavedGraph = graph
  BY DEF SavedGraph
<1>. HIDE DEF indexes
<1>8. IsFiniteSet(graph.nodes)
  BY <1>1, <1>5, <1>6, BuiltGraphFacts
<1>. QED  BY <1>4, <1>7, <1>8 DEF IsFinite

LEMMA FilesAreSeq ==
  ASSUME NEW diff
  PROVE  IsSeq(FilesChanged(diff))
<1>. DEFINE S == {i \in DOMAIN PathOrder : PathOrder[i] \in {line.path : line \in Range(OfKind(diff, {"file"}))}}
<1>1. IsSeq(PathOrder)
  BY SourcesAssumption DEF SourcesAssumption, IsSeq, Paths
<1>2. S \in SUBSET (DOMAIN PathOrder) /\ FilesChanged(diff) = Filtered(PathOrder, S)
  BY DEF FilesChanged
<1>. HIDE DEF S
<1>. QED  BY <1>1, <1>2, FilteredFacts

\* The changed files of an index, one after the other.
Changed(index, files) == FlattenSeq([i \in DOMAIN files |-> SetToSeq(FindFile(index, files[i]))])

LEMMA ChangedFacts ==
  ASSUME NEW index, IsFiniteSet(index.files), NEW files, IsSeq(files)
  PROVE  /\ IsSeq(Changed(index, files))
         /\ \A i \in DOMAIN files : FindFile(index, files[i]) \subseteq Range(Changed(index, files))
<1>. DEFINE seqs == [i \in DOMAIN files |-> SetToSeq(FindFile(index, files[i]))]
<1>1. \A file : FindFile(index, file) \subseteq index.files
  BY DEF FindFile
<1>2. \A file : IsFiniteSet(FindFile(index, file))
  BY <1>1, FS_Subset
<1>3. \A i \in DOMAIN files : IsSeq(seqs[i]) /\ Range(seqs[i]) = FindFile(index, files[i])
  BY <1>2, SetToSeqFacts
<1>4. IsSeq(seqs) /\ DOMAIN seqs = DOMAIN files
  <2>1. DOMAIN seqs = 1..Len(files) /\ Len(files) \in Nat /\ IsFunction(seqs) /\ DOMAIN seqs = DOMAIN files
    BY DEF IsSeq, IsFunction
  <2>. HIDE DEF seqs
  <2>. QED  BY <2>1, MadeSeq
<1>5. Changed(index, files) = FlattenSeq(seqs)
  BY DEF Changed
<1>. HIDE DEF seqs
<1>6. /\ IsSeq(FlattenSeq(seqs))
      /\ Range(FlattenSeq(seqs)) = UNION {Range(seqs[i]) : i \in DOMAIN seqs}
  BY <1>3, <1>4, FlattenIsSeq
<1>7. ASSUME NEW i \in DOMAIN files PROVE FindFile(index, files[i]) \subseteq Range(FlattenSeq(seqs))
  BY <1>3, <1>4, <1>6, <1>7
<1>. QED  BY <1>5, <1>6, <1>7

\* Of the graph there are the results it was asked for, and then the nodes
\* next to a changed file, which come after it.
LEMMA GraphContextFacts ==
  ASSUME NEW graph, IsFiniteSet(graph.nodes), NEW files, IsSeq(files),
         NEW ask, IsSeq(ask.graph), \A r \in Range(ask.graph) : r.score \in Int
  PROVE  LET context == GraphContext(graph, files, ask)
         IN  /\ IsSeq(context) /\ \A i \in DOMAIN context : context[i].score \in Int
             /\ \A i \in DOMAIN context : i > Len(ask.graph) => context[i].score = 20
<1>. DEFINE Near(file) ==
                LET targets == ResolveNode(graph, PathText(file))
                IN  IF targets = {} THEN {}
                    ELSE CHOOSE nodes \in ConnectedNodes(graph, CHOOSE n \in targets : TRUE, 8) : TRUE
            Others(file) == {n \in Near(file) : file \notin n.path}
            Results(file) == {GraphResult(n, 20) : n \in Others(file)}
            found == [i \in DOMAIN ask.graph |-> GraphResult(ask.graph[i].node, ask.graph[i].score)]
            seqs == [i \in DOMAIN files |-> SetToSeq(Results(files[i]))]
            near == FlattenSeq(seqs)
            context == found \o near
<1>1. GraphContext(graph, files, ask) = context
  BY DEF GraphContext
<1>2. \A file : IsFiniteSet(Near(file))
  <2>1. 8 \in Nat
    OBVIOUS
  <2>. QED  BY <2>1, ConnectedAreFinite, FS_EmptySet
<1>. HIDE DEF Near
<1>3. \A file : IsFiniteSet(Results(file))
  <2>. SUFFICES ASSUME NEW file PROVE IsFiniteSet(Results(file))
    OBVIOUS
  <2>. DEFINE f == [n \in Others(file) |-> GraphResult(n, 20)]
  <2>1. IsFiniteSet(Others(file))
    BY <1>2, FS_Subset
  <2>2. {f[n] : n \in DOMAIN f} = Results(file) /\ DOMAIN f = Others(file)
    OBVIOUS
  <2>. HIDE DEF f, Results, Others
  <2>. QED  BY <2>1, <2>2, ImageFinite
<1>4. \A file : \A r \in Results(file) : r.score = 20
  BY DEF GraphResult
<1>. HIDE DEF Results
<1>5. \A i \in DOMAIN files : IsSeq(seqs[i]) /\ \A r \in Range(seqs[i]) : r.score = 20
  BY <1>3, <1>4, SetToSeqFacts
<1>6. IsSeq(seqs) /\ DOMAIN seqs = DOMAIN files
  <2>1. DOMAIN seqs = 1..Len(files) /\ Len(files) \in Nat /\ IsFunction(seqs) /\ DOMAIN seqs = DOMAIN files
    BY DEF IsSeq, IsFunction
  <2>. HIDE DEF seqs
  <2>. QED  BY <2>1, MadeSeq
<1>. HIDE DEF seqs
<1>7. IsSeq(near) /\ \A r \in Range(near) : r.score = 20
  <2>1. IsSeq(near) /\ Range(near) = UNION {Range(seqs[i]) : i \in DOMAIN seqs}
    BY <1>5, <1>6, FlattenIsSeq
  <2>. HIDE DEF near
  <2>. QED  BY <1>5, <1>6, <2>1
<1>8. /\ IsSeq(found) /\ DOMAIN found = 1..Len(ask.graph) /\ Len(ask.graph) \in Nat
      /\ \A i \in DOMAIN found : found[i].score \in Int
  <2>1. DOMAIN found = 1..Len(ask.graph) /\ Len(ask.graph) \in Nat /\ IsFunction(found)
    BY DEF IsSeq, IsFunction
  <2>2. \A i \in DOMAIN found : found[i].score \in Int
    BY DEF GraphResult, Range
  <2>. HIDE DEF found
  <2>. QED  BY <2>1, <2>2, MadeSeq
<1>. HIDE DEF found, near
<1>9. /\ IsSeq(context) /\ DOMAIN found = 1..Len(found) /\ DOMAIN near = 1..Len(near)
      /\ DOMAIN context = 1..Len(context) /\ Len(found) \in Nat /\ Len(near) \in Nat
      /\ Len(context) = Len(found) + Len(near)
      /\ \A i \in DOMAIN found : context[i] = found[i]
      /\ \A i \in DOMAIN near : context[Len(found) + i] = near[i]
  BY <1>7, <1>8, ConcatFacts
<1>10. Len(found) = Len(ask.graph)
  BY <1>8, <1>9
<1>. HIDE DEF context
<1>11. ASSUME NEW i \in DOMAIN context, ~(i > Len(ask.graph)) PROVE context[i].score \in Int
  <2>1. i \in DOMAIN found
    BY <1>8, <1>9, <1>11
  <2>. QED  BY <1>8, <1>9, <2>1
<1>12. ASSUME NEW i \in DOMAIN context, i > Len(ask.graph) PROVE context[i].score = 20
  <2>1. i - Len(found) \in DOMAIN near /\ Len(found) + (i - Len(found)) = i
    BY <1>8, <1>9, <1>10, <1>12
  <2>2. context[i] = near[i - Len(found)]
    BY <1>9, <2>1
  <2>3. near[i - Len(found)] \in Range(near)
    BY <2>1 DEF Range
  <2>. QED  BY <1>7, <2>2, <2>3
<1>. QED  BY <1>1, <1>9, <1>11, <1>12

\* A path is where it is.
LEMMA EndsWithItself ==
  ASSUME NEW p, IsSeq(p.dirs), IsSeq(p.stem)
  PROVE  EndsWith(p, p)
<1>1. ASSUME NEW s, IsSeq(s) PROVE IsSuffix(s, s)
  <2>1. Len(s) \in Nat
    BY <1>1 DEF IsSeq
  <2>2. DOMAIN Reverse(s) = 1..Len(s) /\ IsFunction(Reverse(s))
    BY DEF Reverse, IsFunction
  <2>3. IsSeq(Reverse(s))
    BY <2>1, <2>2, MadeSeq
  <2>4. Len(Reverse(s)) \in Nat
    BY <2>3 DEF IsSeq
  <2>5. IsPrefix(Reverse(s), Reverse(s))
    BY <2>4 DEF IsPrefix
  <2>. QED  BY <2>5 DEF IsSuffix
<1>2. IsSuffix(p.dirs, p.dirs) /\ IsSuffix(p.stem, p.stem)
  BY <1>1
<1>. QED  BY <1>2 DEF EndsWith

LEMMA WithinLimit ==
  ASSUME NEW k \in Nat, NEW changes \in Nat, NEW found \in Nat, NEW graph \in Nat,
         NEW front \in Nat, NEW rank \in Nat,
         k <= 6, found <= k, graph <= k, front <= changes + found, rank <= front + graph
  PROVE  rank <= k + changes + 6 /\ k + changes + 6 \in Nat
  OBVIOUS

\* All that is merged with the graph that may come before what has a score of
\* 100 are the results merged before, and what the graph was asked for.
LEMMA FewBefore ==
  ASSUME NEW front, IsSeq(front), \A r \in Range(front) : r.score \in Int,
         NEW back, IsSeq(back), \A i \in DOMAIN back : back[i].score \in Int,
         NEW n \in Nat, \A i \in DOMAIN back : i > n => back[i].score = 20,
         NEW p \in DOMAIN front, front[p].score >= 100
  PROVE  LET all == front \o back
         IN  /\ p \in DOMAIN all /\ all[p] = front[p]
             /\ Cardinality(NoLater(DOMAIN all, [j \in DOMAIN all |-> all[j].score], p)) <= Len(front) + n
<1>. DEFINE all == front \o back
            score == [j \in DOMAIN all |-> all[j].score]
            before == NoLater(DOMAIN all, score, p)
            m == Len(front) + n
<1>. HIDE DEF score, before, m
<1>1. /\ IsSeq(all) /\ Range(all) = Range(front) \cup Range(back)
      /\ DOMAIN front = 1..Len(front) /\ DOMAIN back = 1..Len(back) /\ DOMAIN all = 1..Len(all)
      /\ Len(front) \in Nat /\ Len(back) \in Nat /\ Len(all) = Len(front) + Len(back)
      /\ \A i \in DOMAIN front : all[i] = front[i]
      /\ \A i \in DOMAIN back : all[Len(front) + i] = back[i]
  BY ConcatFacts
<1>. HIDE DEF all
<1>. USE DEF score, before, m
<1>2. p \in DOMAIN all /\ all[p] = front[p] /\ all[p].score \in Int /\ p <= Len(front)
  BY <1>1 DEF Range
<1>3. ASSUME NEW j \in DOMAIN all, j > m PROVE all[j].score = 20
  <2>1. j - Len(front) \in DOMAIN back /\ j - Len(front) > n /\ Len(front) + (j - Len(front)) = j
    BY <1>1, <1>3
  <2>. QED  BY <1>1, <2>1
<1>4. before \subseteq 1..m
  <2>. SUFFICES ASSUME NEW j \in DOMAIN all, j \in before, j > m PROVE FALSE
    BY <1>1 DEF NoLater
  <2>1. all[j].score = 20
    BY <1>3
  <2>2. score[j] = 20 /\ score[p] = all[p].score
    BY <1>2, <2>1
  <2>3. score[j] > score[p] \/ score[j] = score[p]
    BY DEF NoLater
  <2>. QED  BY <1>2, <2>2, <2>3
<1>5. m \in Nat
  BY <1>1
<1>. HIDE DEF before, m
<1>6. IsFiniteSet(1..m) /\ Cardinality(1..m) = m
  <2>1. 1 \in Int /\ m \in Int
    BY <1>5
  <2>2. IsFiniteSet(1..m) /\ Cardinality(1..m) = IF 1 > m THEN 0 ELSE m - 1 + 1
    BY <2>1, FS_Interval
  <2>. QED  BY <1>5, <2>2
<1>7. Cardinality(before) <= m
  BY <1>4, <1>6, FS_Subset
<1>. QED  BY <1>2, <1>7 DEF all, before, m

LEMMA ReviewForm ==
  ASSUME NEW ask \in Reviews
  PROVE  /\ ask.k \in Nat /\ IsSeq(ask.found) /\ IsSeq(ask.graph)
         /\ Len(ask.found) \in Nat /\ Len(ask.found) <= ask.k
         /\ Len(ask.graph) \in Nat /\ Len(ask.graph) <= ask.k
         /\ \A r \in Range(ask.found) : r.score \in Int
         /\ \A r \in Range(ask.graph) : r.score \in Int
  BY SourcesAssumption, ReviewsAssumption DEF SourcesAssumption, ReviewsAssumption, IsSeq

\* The place of a changed file: the results of a review are merged twice.
LEMMA ChangedFileKept ==
  ASSUME NEW ask \in Reviews, ask.k <= 6,
         NEW nodes, IsSeq(nodes), NEW node \in Range(nodes), NEW graph, IsFiniteSet(graph.nodes),
         NEW files, IsSeq(files)
  PROVE  LET first == [i \in DOMAIN nodes |-> ChangedFile(nodes[i])]
             merged == Merge(Merge(first \o ask.found) \o GraphContext(graph, files, ask))
         IN  \E r \in Range(Top(merged, ask.k + Len(first) + 6)) : r.paths = {node.path}
<1>. DEFINE first == [i \in DOMAIN nodes |-> ChangedFile(nodes[i])]
            results == first \o ask.found
            front == Merge(results)
            back == GraphContext(graph, files, ask)
            all == front \o back
            merged == Merge(all)
            limit == ask.k + Len(first) + 6
            change == ChangedFile(node)
<1>1. /\ ask.k \in Nat /\ IsSeq(ask.found) /\ IsSeq(ask.graph)
      /\ Len(ask.found) \in Nat /\ Len(ask.found) <= ask.k
      /\ Len(ask.graph) \in Nat /\ Len(ask.graph) <= ask.k
      /\ \A r \in Range(ask.found) : r.score \in Int
      /\ \A r \in Range(ask.graph) : r.score \in Int
  BY ReviewForm
<1>2. /\ IsSeq(first) /\ \A r \in Range(first) : r.score = 100
      /\ change \in Range(first)
  <2>1. DOMAIN first = 1..Len(nodes) /\ Len(nodes) \in Nat /\ IsFunction(first)
    BY DEF IsSeq, IsFunction
  <2>2. \A r \in Range(first) : r.score = 100
    BY DEF ChangedFile, Range
  <2>3. change \in Range(first)
    BY DEF Range
  <2>. HIDE DEF first
  <2>. QED  BY <2>1, <2>2, <2>3, MadeSeq
<1>3. change.score = 100 /\ change.paths = {node.path} /\ MergeKey(change)[2] = {node.path}
  BY DEF ChangedFile, MergeKey
<1>. HIDE DEF first, change
<1>4. /\ IsSeq(results) /\ Range(results) = Range(first) \cup Range(ask.found)
      /\ Len(first) \in Nat /\ Len(results) = Len(first) + Len(ask.found)
  BY <1>1, <1>2, ConcatFacts
<1>. HIDE DEF results
<1>5. \A r \in Range(results) : r.score \in Int
  BY <1>1, <1>2, <1>4
<1>6. PICK i \in DOMAIN results : results[i] = change
  <2>1. change \in Range(results)
    BY <1>2, <1>4
  <2>. QED  BY <2>1 DEF Range
<1>7. /\ IsSeq(front) /\ Len(front) \in Nat /\ Len(front) <= Len(results)
      /\ Range(front) \subseteq Range(results)
      /\ \E p \in DOMAIN front :
             MergeKey(front[p]) = MergeKey(results[i]) /\ front[p].score >= results[i].score
  BY <1>4, <1>5, MergeFacts
<1>. HIDE DEF front
<1>8. PICK p \in DOMAIN front : MergeKey(front[p]) = MergeKey(change) /\ front[p].score >= 100
  BY <1>3, <1>6, <1>7
<1>9. \A r \in Range(front) : r.score \in Int
  BY <1>5, <1>7
<1>10. /\ IsSeq(back) /\ \A j \in DOMAIN back : back[j].score \in Int
       /\ \A j \in DOMAIN back : j > Len(ask.graph) => back[j].score = 20
  BY <1>1, GraphContextFacts
<1>. HIDE DEF back
<1>11. /\ p \in DOMAIN all /\ all[p] = front[p]
       /\ Cardinality(NoLater(DOMAIN all, [j \in DOMAIN all |-> all[j].score], p)) <= Len(front) + Len(ask.graph)
  BY <1>1, <1>7, <1>8, <1>9, <1>10, FewBefore
<1>12. IsSeq(all) /\ \A r \in Range(all) : r.score \in Int
  <2>1. IsSeq(all) /\ Range(all) = Range(front) \cup Range(back)
    BY <1>7, <1>10, ConcatFacts
  <2>2. \A r \in Range(back) : r.score \in Int
    BY <1>10 DEF Range
  <2>. HIDE DEF all
  <2>. QED  BY <1>9, <2>1, <2>2
<1>. HIDE DEF all
<1>13. /\ IsSeq(merged)
       /\ \E q \in DOMAIN merged :
              /\ MergeKey(merged[q]) = MergeKey(all[p])
              /\ q <= Cardinality(NoLater(DOMAIN all, [j \in DOMAIN all |-> all[j].score], p))
  BY <1>11, <1>12, MergeFacts
<1>. DEFINE rank == Cardinality(NoLater(DOMAIN all, [j \in DOMAIN all |-> all[j].score], p))
<1>14. IsFiniteSet(DOMAIN all) /\ rank \in Nat
  <2>1. IsFiniteSet(DOMAIN all)
    <3>1. DOMAIN all = 1..Len(all) /\ Len(all) \in Nat
      BY <1>12 DEF IsSeq
    <3>. QED  BY <3>1, FS_Interval
  <2>2. IsFiniteSet(NoLater(DOMAIN all, [j \in DOMAIN all |-> all[j].score], p))
    BY <2>1, FS_Subset DEF NoLater
  <2>. QED  BY <2>1, <2>2, FS_CardinalityType
<1>. HIDE DEF merged, rank
<1>15. PICK q \in DOMAIN merged : MergeKey(merged[q]) = MergeKey(all[p]) /\ q <= rank
  BY <1>13 DEF rank
<1>16. DOMAIN merged = 1..Len(merged) /\ Len(merged) \in Nat
  BY <1>13 DEF IsSeq
<1>17. limit \in Nat /\ q <= limit
  <2>1. rank <= Len(front) + Len(ask.graph)
    BY <1>11 DEF rank
  <2>2. Len(front) \in Nat /\ Len(front) <= Len(first) + Len(ask.found) /\ Len(first) \in Nat
    BY <1>4, <1>7
  <2>3. /\ ask.k \in Nat /\ Len(ask.found) \in Nat /\ Len(ask.found) <= ask.k
        /\ Len(ask.graph) \in Nat /\ Len(ask.graph) <= ask.k
    BY <1>1
  <2>4. q \in Nat /\ q <= rank
    BY <1>15, <1>16
  <2>5. rank <= ask.k + Len(first) + 6 /\ ask.k + Len(first) + 6 \in Nat
    BY <1>14, <2>1, <2>2, <2>3, WithinLimit
  <2>6. limit = ask.k + Len(first) + 6
    OBVIOUS
  <2>. HIDE DEF limit
  <2>. QED  BY <1>14, <2>4, <2>5, <2>6
<1>18. merged[q].paths = {node.path}
  <2>1. MergeKey(merged[q])[2] = {node.path}
    BY <1>3, <1>8, <1>11, <1>15
  <2>. QED  BY <2>1 DEF MergeKey
<1>. HIDE DEF limit
<1>19. merged[q] \in Range(Top(merged, limit))
  <2>. DEFINE items == Top(merged, limit)
  <2>1. /\ Len(items) = IF limit < Len(merged) THEN limit ELSE Len(merged)
        /\ DOMAIN items = 1..Len(items)
        /\ \A j \in DOMAIN items : items[j] = merged[j]
    BY <1>13, <1>17, TopFacts
  <2>. HIDE DEF items
  <2>2. q \in DOMAIN items
    BY <1>16, <1>17, <2>1
  <2>. QED  BY <2>1, <2>2 DEF Range, items
<1>. QED  BY <1>18, <1>19 DEF merged, all, front, back, results, first, limit

\* What the sources of a review have of the index.
LEMMA ContextSources ==
  ASSUME NEW ask \in Reviews, ask.repo
  PROVE  LET nodes == Changed(SavedIndex, FilesChanged(ask.diff))
             first == [i \in DOMAIN nodes |-> ChangedFile(nodes[i])]
             merged == Merge(Merge(first \o ask.found)
                                 \o GraphContext(SavedGraph, FilesChanged(ask.diff), ask))
             named == ReviewSources(ContextOf(ask))
         IN  /\ \A r \in Range(Top(merged, ask.k + Len(first) + 6)) : r.paths \subseteq named
             /\ \A n \in Range(nodes), m \in SavedIndex.tests : EndsWith(m.source, n.path) => m.test \in named
<1>. DEFINE files == FilesChanged(ask.diff)
            nodes == Changed(SavedIndex, files)
            first == [i \in DOMAIN nodes |-> ChangedFile(nodes[i])]
            seqs == [g \in DOMAIN <<SavedGraph>> |-> GraphContext(<<SavedGraph>>[g], files, ask)]
            merged == Merge(Merge(first \o ask.found) \o GraphContext(SavedGraph, files, ask))
            results == Top(merged, ask.k + Len(first) + 6)
            tests == UNION {FindTestsForSource(SavedIndex, n.path) : n \in Range(nodes)}
            code == CodebaseContext(SavedIndex, <<SavedGraph>>, ask)
            context == ContextOf(ask)
<1>1. FlattenSeq(seqs) = GraphContext(SavedGraph, files, ask)
  <2>1. DOMAIN <<SavedGraph>> = {1} /\ <<SavedGraph>>[1] = SavedGraph
    OBVIOUS
  <2>2. DOMAIN seqs = 1..1 /\ IsFunction(seqs) /\ seqs[1] = GraphContext(SavedGraph, files, ask)
    BY <2>1 DEF IsFunction
  <2>. HIDE DEF seqs
  <2>3. IsSeq(seqs)
    BY <2>2, MadeSeq
  <2>4. Len(seqs) = 1
    BY <2>2, <2>3 DEF IsSeq
  <2>. QED  BY <2>2, <2>4, FlattenOne
<1>2. code = [results |-> Top(Merge(Merge(first \o ask.found) \o FlattenSeq(seqs)), ask.k + Len(first) + 6),
              tests |-> tests]
  BY DEF CodebaseContext, Changed
<1>3. code = [results |-> results, tests |-> tests]
  BY <1>1, <1>2
<1>4. context.results = code.results /\ context.tests = code.tests
  BY DEF ContextOf, ReviewContext
<1>. HIDE DEF results, tests, code, context
<1>5. context.results = results /\ context.tests = tests
  BY <1>3, <1>4
<1>6. \A r \in Range(results) : r.paths \subseteq ReviewSources(context)
  BY <1>5 DEF ReviewSources
<1>7. \A m \in tests : m.test \in ReviewSources(context)
  BY <1>5 DEF ReviewSources
<1>8. ASSUME NEW n \in Range(nodes), NEW m \in SavedIndex.tests, EndsWith(m.source, n.path)
      PROVE  m.test \in ReviewSources(context)
  <2>1. m \in FindTestsForSource(SavedIndex, n.path)
    BY <1>8 DEF FindTestsForSource
  <2>2. m \in tests
    BY <2>1 DEF tests
  <2>. QED  BY <1>7, <2>2
<1>. QED  BY <1>6, <1>8 DEF results, context

\* A review, whatever else the index and the graph find, and with whatever
\* scores: with k <= 6 the sources it names include each changed file that
\* the index has and every test of one.
THEOREM ChangesKept == Spec => []ReviewKeepsChanges
<1>1. ASSUME NEW ask \in Reviews, ask.repo, ask.k <= 6,
             NEW file \in Range(FilesChanged(ask.diff)), NEW node \in FindFile(SavedIndex, file)
      PROVE  /\ node.path \in ReviewSources(ContextOf(ask))
             /\ \A m \in SavedIndex.tests : m.source = node.path => m.test \in ReviewSources(ContextOf(ask))
  <2>. DEFINE files == FilesChanged(ask.diff)
              nodes == Changed(SavedIndex, files)
              first == [i \in DOMAIN nodes |-> ChangedFile(nodes[i])]
              merged == Merge(Merge(first \o ask.found) \o GraphContext(SavedGraph, files, ask))
              results == Top(merged, ask.k + Len(first) + 6)
              named == ReviewSources(ContextOf(ask))
  <2>1. IsFiniteSet(SavedIndex.files) /\ IsFiniteSet(SavedGraph.nodes)
    BY FoundIsFinite
  <2>2. IsSeq(files)
    BY FilesAreSeq
  <2>3. /\ \A r \in Range(results) : r.paths \subseteq named
        /\ \A n \in Range(nodes), m \in SavedIndex.tests : EndsWith(m.source, n.path) => m.test \in named
    BY <1>1, ContextSources
  <2>4. IsSeq(nodes) /\ \A i \in DOMAIN files : FindFile(SavedIndex, files[i]) \subseteq Range(nodes)
    BY <2>1, <2>2, ChangedFacts
  <2>. HIDE DEF nodes, files
  <2>5. node \in Range(nodes)
    BY <1>1, <2>4 DEF Range, files
  <2>6. LET changes == [i \in DOMAIN nodes |-> ChangedFile(nodes[i])]
            all == Merge(Merge(changes \o ask.found) \o GraphContext(SavedGraph, files, ask))
        IN  \E r \in Range(Top(all, ask.k + Len(changes) + 6)) : r.paths = {node.path}
    <3>1. IsFiniteSet(SavedGraph.nodes) /\ IsSeq(nodes) /\ IsSeq(files) /\ ask.k <= 6
      BY <1>1, <2>1, <2>2, <2>4
    <3>. QED  BY <2>5, <3>1, ChangedFileKept
  <2>7. node.path \in named
    <3>1. \E r \in Range(results) : r.paths = {node.path}
      BY <2>6
    <3>. HIDE DEF results, named
    <3>. QED  BY <2>3, <3>1
  <2>. HIDE DEF results, named
  <2>8. EndsWith(node.path, node.path)
    <3>1. node \in SavedIndex.files
      BY DEF FindFile
    <3>2. node.path \in DOMAIN Repo
      BY <3>1 DEF SavedIndex, Index, FileNodes, FileNode
    <3>3. IsSeq(node.path.dirs) /\ IsSeq(node.path.stem)
      BY <3>2, SourcesAssumption DEF SourcesAssumption, IsSeq
    <3>. QED  BY <3>3, EndsWithItself
  <2>9. \A m \in SavedIndex.tests : m.source = node.path => m.test \in named
    BY <2>3, <2>5, <2>8
  <2>. QED  BY <2>7, <2>9 DEF named
<1>2. ReviewKeepsChanges
  BY <1>1 DEF ReviewKeepsChanges
<1>. QED  BY <1>2, PTL
=============================================================================
