-------------------------- MODULE MemoryGovernance --------------------------
(***************************************************************************)
(* Governed memory (dream/memory/distiller.py, repository.py): scans store *)
(* claims, reviewers decide about them, and the decisions go to a ledger   *)
(* that overrides the status a claim had in its scan.                      *)
(*                                                                         *)
(* A ledger is one JSON file of the team: appending an event reads the     *)
(* file, adds the event and writes the file, with no lock.  Resolving a    *)
(* conflict is two reviews and a third append to another file.  A worker   *)
(* is a thread of the API's pool or a CLI process; each file access is a   *)
(* step.  Scan files are never rewritten, so a handler that holds a scan   *)
(* and one that reads it again see the same claims.                        *)
(***************************************************************************)
EXTENDS Naturals, Sequences, FiniteSets

CONSTANTS
    Claims,      \* claim ids; a claim keeps its id from scan to scan
    Status,      \* governance.status of a claim in the scans that hold it
    Rivals,      \* pairs of claims: one entity, one relation, two values
    Scans,       \* scan ids
    Content,     \* the claims of each scan
    IdOrder,     \* all claims, in the order of their ids
    FoundOrder,  \* all claims, in the order a scan comes upon them
    Decisions,   \* statuses reviewers give by hand
    Workers,     \* handler threads and CLI processes
    MaxRequests, \* bound: requests issued
    MaxAborts    \* bound: handlers that stop half-way

\* REVIEWABLE_STATUSES
Statuses == {"candidate", "approved", "rejected", "quarantined"}

ASSUME ConstantsAssumption ==
    /\ Status \in [Claims -> Statuses]
    /\ \A pair \in Rivals : \E a, b \in Claims : a # b /\ pair = {a, b}
    /\ Content \in [Scans -> SUBSET Claims]
    /\ \A order \in {IdOrder, FoundOrder} :
            /\ order \in Seq(Claims) /\ \A claim \in Claims : \E i \in DOMAIN order : order[i] = claim
            /\ \A i, j \in DOMAIN order : order[i] = order[j] => i = j
    /\ Decisions \subseteq Statuses
    /\ MaxRequests \in Nat
    /\ MaxAborts \in Nat

VARIABLES
    scans,       \* memory-scans/<team>/<scan>.json: the scans stored
    latest,      \* memory-scans/<team>/latest.json: {} or the id of one scan
    ledger,      \* memory-ledgers/<team>.json
    resolutions, \* memory-conflict-resolutions/<team>.json
    worker,      \* where each worker is in its handler, and what it holds
    requests,    \* requests issued so far
    aborts       \* handlers stopped so far

stores == <<scans, latest, ledger, resolutions>>
vars == <<stores, worker, requests, aborts>>
bounds == <<requests, aborts>>

-----------------------------------------------------------------------------
(* Data *)

\* A review event; request stands for its id, which is fresh.
Event == [request : Nat, claim : Claims, previous : Statuses, new : Statuses]

Resolution == [request : Nat, winner : Claims, loser : Claims]

Decision == [claim : Claims, new : Statuses]

\* The latest event of a claim decides; a claim never reviewed has its scan's
\* status.
Effective(claim, events) ==
    LET IsLatest(i) == /\ events[i].claim = claim
                       /\ \A j \in DOMAIN events : events[j].claim = claim => j <= i
    IN  IF \E i \in DOMAIN events : IsLatest(i)
        THEN events[CHOOSE i \in DOMAIN events : IsLatest(i)].new
        ELSE Status[claim]

Active(claim) == Effective(claim, ledger) \in {"candidate", "approved"}

-----------------------------------------------------------------------------
(* Conflicts *)

\* Mutant: claims are stored as they were found.
AsFound == FoundOrder

\* The claims of a scan as they are stored: _dedupe_claims has sorted them.
StoredOrder == IdOrder

\* The place of a claim in a list of some claims.
Place(order, listed, claim) ==
    Cardinality({c \in listed : \E i, j \in DOMAIN order : i <= j /\ order[i] = c /\ order[j] = claim})

\* conflicts(): the left claim of a pair is taken from the sorted active
\* claims, the right one from behind its place in the list that is stored.
ConflictReport(scan) ==
    LET active == {c \in Content[scan] : Active(c)}
    IN  {row \in [left : active, right : active] :
            /\ {row.left, row.right} \in Rivals
            /\ Place(IdOrder, active, row.left) < Place(StoredOrder, active, row.right)}

-----------------------------------------------------------------------------
(* Workers *)

Ops == {"scan", "review", "resolve"}

Pcs == {"save_scan", "save_latest", "read_status", "read_ledger", "save_ledger",
        "read_resolutions", "save_resolutions"}

Idle == [pc |-> "idle"]

\* decisions is what is left to review; held, the ledger read to append to;
\* previous, the status read for the claim under review.
Busy == [pc : Pcs, op : Ops, id : Nat, scan : Scans, pair : Seq(Claims),
         decisions : Seq(Decision), previous : Statuses,
         held : Seq(Event) \cup Seq(Resolution)]

TypeOK ==
    /\ scans \subseteq Scans
    /\ latest \subseteq Scans
    /\ ledger \in Seq(Event)
    /\ resolutions \in Seq(Resolution)
    /\ worker \in [Workers -> {Idle} \cup Busy]
    /\ requests \in Nat
    /\ aborts \in Nat

Init ==
    /\ scans = {}
    /\ latest = {}
    /\ ledger = <<>>
    /\ resolutions = <<>>
    /\ worker = [w \in Workers |-> Idle]
    /\ requests = 0
    /\ aborts = 0

-----------------------------------------------------------------------------
(* Requests *)

Serve(w, op, pc, scan, pair, decisions) ==
    /\ worker[w] = Idle
    /\ requests < MaxRequests
    /\ requests' = requests + 1
    /\ worker' = [worker EXCEPT ![w] =
                    [pc |-> pc, op |-> op, id |-> requests + 1, scan |-> scan, pair |-> pair,
                     decisions |-> decisions, previous |-> "candidate", held |-> <<>>]]
    /\ UNCHANGED <<stores, aborts>>

\* MemoryDistillationService.scan: the id of a scan is fresh.
Scan(w, scan) ==
    /\ scan \notin scans
    /\ \A v \in Workers : worker[v] # Idle => worker[v].scan # scan
    /\ Serve(w, "scan", "save_scan", scan, <<>>, <<>>)

ReviewClaim(w, scan, claim, new) ==
    /\ scan \in scans
    /\ claim \in Content[scan]
    /\ Serve(w, "review", "read_status", scan, <<>>, <<[claim |-> claim, new |-> new]>>)

\* Mutant: the loser is rejected first.
ResolveLoserFirst(w, scan, winner, loser) ==
    /\ scan \in scans
    /\ {winner, loser} \in Rivals
    /\ {winner, loser} \subseteq Content[scan]
    /\ Active(winner) /\ Active(loser)
    /\ Serve(w, "resolve", "read_status", scan, <<winner, loser>>,
             <<[claim |-> loser, new |-> "rejected"], [claim |-> winner, new |-> "approved"]>>)

\* Mutant: the loser is given a status that reviews do not know.
ResolveSuperseding(w, scan, winner, loser) ==
    /\ scan \in scans
    /\ {winner, loser} \in Rivals
    /\ {winner, loser} \subseteq Content[scan]
    /\ Active(winner) /\ Active(loser)
    /\ Serve(w, "resolve", "read_status", scan, <<winner, loser>>,
             <<[claim |-> winner, new |-> "approved"], [claim |-> loser, new |-> "superseded"]>>)

\* conflicts() reports the pair: this is its reading of the ledger.  The scan
\* of the report is kept, whichever scan becomes the latest.
ResolveConflict(w, scan, winner, loser) ==
    /\ scan \in scans
    /\ {winner, loser} \in Rivals
    /\ {winner, loser} \subseteq Content[scan]
    /\ Active(winner) /\ Active(loser)
    /\ Serve(w, "resolve", "read_status", scan, <<winner, loser>>,
             <<[claim |-> winner, new |-> "approved"], [claim |-> loser, new |-> "rejected"]>>)

-----------------------------------------------------------------------------
(* The other steps of a handler *)

At(w, pc) == worker[w].pc = pc
GoTo(w, pc) == worker' = [worker EXCEPT ![w].pc = pc]
Return(w) == worker' = [worker EXCEPT ![w] = Idle]

SaveScan(w) ==
    /\ At(w, "save_scan")
    /\ scans' = scans \cup {worker[w].scan}
    /\ GoTo(w, "save_latest")
    /\ UNCHANGED <<latest, ledger, resolutions, bounds>>

SaveLatest(w) ==
    /\ At(w, "save_latest")
    /\ latest' = {worker[w].scan}
    /\ Return(w)
    /\ UNCHANGED <<scans, ledger, resolutions, bounds>>

\* Mutant: the status in the scan is taken for the current one.
ReadScanStatus(w) ==
    /\ At(w, "read_status")
    /\ worker' = [worker EXCEPT ![w].previous = Status[worker[w].decisions[1].claim],
                                ![w].pc = "read_ledger"]
    /\ UNCHANGED <<stores, bounds>>

\* review_claim reads the status of the claim ...
ReadStatus(w) ==
    /\ At(w, "read_status")
    /\ worker' = [worker EXCEPT
                    ![w].previous = Effective(worker[w].decisions[1].claim, ledger),
                    ![w].pc = "read_ledger"]
    /\ UNCHANGED <<stores, bounds>>

\* Mutant: an event replaces the earlier ones of its claim.
ReadOtherClaims(w) ==
    LET Other(e) == e.claim # worker[w].decisions[1].claim
    IN  /\ At(w, "read_ledger")
        /\ worker' = [worker EXCEPT ![w].held = SelectSeq(ledger, Other), ![w].pc = "save_ledger"]
        /\ UNCHANGED <<stores, bounds>>

\* ... and append_review_event reads the ledger again ...
ReadLedger(w) ==
    /\ At(w, "read_ledger")
    /\ worker' = [worker EXCEPT ![w].held = ledger, ![w].pc = "save_ledger"]
    /\ UNCHANGED <<stores, bounds>>

\* ... and writes what it read with the event at the end.
SaveLedger(w) ==
    LET self == worker[w]
        event == [request |-> self.id, claim |-> self.decisions[1].claim,
                  previous |-> self.previous, new |-> self.decisions[1].new]
        rest == Tail(self.decisions)
    IN  /\ At(w, "save_ledger")
        /\ ledger' = Append(self.held, event)
        /\ IF self.op = "review" THEN Return(w)
           ELSE worker' = [worker EXCEPT
                    ![w].decisions = rest,
                    ![w].pc = IF rest = <<>> THEN "read_resolutions" ELSE "read_status"]
        /\ UNCHANGED <<scans, latest, resolutions, bounds>>

ReadResolutions(w) ==
    /\ At(w, "read_resolutions")
    /\ worker' = [worker EXCEPT ![w].held = resolutions, ![w].pc = "save_resolutions"]
    /\ UNCHANGED <<stores, bounds>>

SaveResolutions(w) ==
    /\ At(w, "save_resolutions")
    /\ resolutions' = Append(worker[w].held,
                             [request |-> worker[w].id, winner |-> worker[w].pair[1],
                              loser |-> worker[w].pair[2]])
    /\ Return(w)
    /\ UNCHANGED <<scans, latest, ledger, bounds>>

\* A file cannot be read or written, or the process is killed.
Abort(w) ==
    /\ worker[w] # Idle
    /\ aborts < MaxAborts
    /\ aborts' = aborts + 1
    /\ Return(w)
    /\ UNCHANGED <<stores, requests>>

Request(w) ==
    \E scan \in Scans :
        \/ Scan(w, scan)
        \/ \E claim \in Claims, new \in Decisions : ReviewClaim(w, scan, claim, new)
        \/ \E winner, loser \in Claims : ResolveConflict(w, scan, winner, loser)

Step(w) ==
    \/ SaveScan(w) \/ SaveLatest(w)
    \/ ReadStatus(w) \/ ReadLedger(w) \/ SaveLedger(w)
    \/ ReadResolutions(w) \/ SaveResolutions(w)

Next == \E w \in Workers : Request(w) \/ Step(w) \/ Abort(w)

Spec == Init /\ [][Next]_vars

-----------------------------------------------------------------------------
(* Properties *)

Idling == \A w \in Workers : worker[w] = Idle

\* The report of a scan has each pair of active rivals of the scan, once, and
\* nothing else: which claim is the left one does not depend on the order in
\* which they were found.
ConflictsAreListedOnce ==
    \A scan \in scans : \A pair \in Rivals :
        LET Lists(row) == {row.left, row.right} = pair
            isConflict == \A claim \in pair : claim \in Content[scan] /\ Active(claim)
        IN  /\ isConflict <=> \E row \in ConflictReport(scan) : Lists(row)
            /\ \A p, q \in ConflictReport(scan) : Lists(p) /\ Lists(q) => p = q

\* The ledger ends in the approval of a winner, and the resolution that wrote it
\* is not on file: its handler was stopped before it rejected the loser.
LeftHalfWay ==
    /\ aborts > 0
    /\ ledger # <<>>
    /\ LET last == ledger[Len(ledger)]
       IN  last.new = "approved" /\ \A k \in DOMAIN resolutions : resolutions[k].request # last.request

\* However many handlers resolve the conflict of one pair in parallel, for one
\* side or the other and with the appends they lose, both claims are approved at
\* rest only when the last handler to write was stopped between its two reviews;
\* the next resolution that gets through sets them apart again.  (With decisions
\* about other claims going on, both may be approved.)
RivalsApartUnlessHalfWay ==
    Idling => \A pair \in Rivals :
        LeftHalfWay \/ \E claim \in pair : Effective(claim, ledger) # "approved"

\* docs/memory-distillation.md:125 - "Review events are appended to a durable
\* ledger": a write of the ledger keeps every event that was in it.  With one
\* worker that is so.
LedgerIsAppendOnly ==
    [][/\ Len(ledger') = Len(ledger) + 1
       /\ \A i \in 1..Len(ledger) : ledger'[i] = ledger[i]]_ledger

\* With one worker each event says from which status its claim came, so that
\* the ledger of a claim can be read as its history.
LedgerChains ==
    \A i \in DOMAIN ledger :
        ledger[i].previous = Effective(ledger[i].claim, SubSeq(ledger, 1, i - 1))

\* With one worker a resolution is on file only with both its reviews, the
\* winner's first, wherever its handler is stopped.
ResolutionIsBacked ==
    \A k \in DOMAIN resolutions : \E i, j \in DOMAIN ledger :
        /\ i < j
        /\ ledger[i].request = resolutions[k].request
        /\ ledger[i].claim = resolutions[k].winner /\ ledger[i].new = "approved"
        /\ ledger[j].request = resolutions[k].request
        /\ ledger[j].claim = resolutions[k].loser /\ ledger[j].new = "rejected"
=============================================================================
