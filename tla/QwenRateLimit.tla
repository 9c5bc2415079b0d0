--------------------------- MODULE QwenRateLimit ---------------------------
(***************************************************************************)
(* The limiter of public Qwen calls, _enforce_public_qwen_rate_limit of    *)
(* dream/api/routes.py: a deque of the times of admitted requests, shared  *)
(* by the handler threads of one API process.                              *)
(*                                                                         *)
(* A handler reads the clock before it takes the lock, so that between the *)
(* two other handlers may enter with later times: the deque is not sorted, *)
(* and what a handler drops as expired is judged by an old clock.  The     *)
(* section under the lock is one step, since nothing else uses the deque.  *)
(* A misconfigured limit (503) and an absent one (no limiter) change no    *)
(* state; Limit is the value the variable is set to otherwise.             *)
(***************************************************************************)
EXTENDS Integers, Sequences

CONSTANTS
    Workers,  \* handler threads
    Limit,    \* DREAM_PUBLIC_QWEN_REQUESTS_PER_MINUTE
    Window,   \* the minute, in ticks of the clock
    MaxStall, \* most ticks a handler takes from reading the clock to unlocking
    MaxClock  \* bound: ticks of the clock

ASSUME ConstantsAssumption ==
    /\ Limit \in Nat \ {0}
    /\ Window \in Nat
    /\ MaxStall \in Nat
    /\ MaxClock \in Nat

VARIABLES
    clock,    \* what monotonic() returns
    times,    \* _PUBLIC_QWEN_REQUEST_TIMES
    now,      \* now[w]: the set of the time handler w has read and not used yet
    admitted  \* history: when each admitted request really was, in order

vars == <<clock, times, now, admitted>>

TypeOK ==
    /\ clock \in Nat
    /\ times \in Seq(Nat)
    /\ now \in [Workers -> SUBSET Nat]
    /\ admitted \in Seq(Nat)

Init ==
    /\ clock = 0
    /\ times = <<>>
    /\ now = [w \in Workers |-> {}]
    /\ admitted = <<>>

Tick ==
    /\ clock < MaxClock
    /\ \A w \in Workers : \A n \in now[w] : clock < n + MaxStall
    /\ clock' = clock + 1
    /\ UNCHANGED <<times, now, admitted>>

ReadClock(w) ==
    /\ now[w] = {}
    /\ now' = [now EXCEPT ![w] = {clock}]
    /\ UNCHANGED <<clock, times, admitted>>

\* Mutant: a time just one window old has not expired.
ExpiredLate(time, n) == time < n - Window

Expired(time, n) == time <= n - Window

\* Mutant: one more than the limit.
OverFull(queue) == Len(queue) > Limit

Full(queue) == Len(queue) >= Limit

\* The popleft loop removes k entries: it stops at the first that has not
\* expired, whatever is behind it.
Removes(k, n) ==
    /\ \A i \in 1 .. k : Expired(times[i], n)
    /\ k < Len(times) => ~Expired(times[k + 1], n)

Kept(k) == SubSeq(times, k + 1, Len(times))

\* Mutant: the cut-off is stored in place of the time.
AdmitCutoff(w) ==
    \E n \in now[w], k \in 0 .. Len(times) :
        /\ Removes(k, n)
        /\ ~Full(Kept(k))
        /\ times' = Append(Kept(k), n - Window)
        /\ admitted' = Append(admitted, clock)
        /\ now' = [now EXCEPT ![w] = {}]
        /\ UNCHANGED clock

Admit(w) ==
    \E n \in now[w], k \in 0 .. Len(times) :
        /\ Removes(k, n)
        /\ ~Full(Kept(k))
        /\ times' = Append(Kept(k), n)
        /\ admitted' = Append(admitted, clock)
        /\ now' = [now EXCEPT ![w] = {}]
        /\ UNCHANGED clock

\* 429: what has expired is gone all the same.
Refuse(w) ==
    \E n \in now[w], k \in 0 .. Len(times) :
        /\ Removes(k, n)
        /\ Full(Kept(k))
        /\ times' = Kept(k)
        /\ now' = [now EXCEPT ![w] = {}]
        /\ UNCHANGED <<clock, admitted>>

Next ==
    \/ Tick
    \/ \E w \in Workers : ReadClock(w) \/ Admit(w) \/ Refuse(w)

Spec == Init /\ [][Next]_vars

-----------------------------------------------------------------------------
(* Properties *)

\* More than Limit requests are never admitted within a window, shortened by
\* what handlers stall: the Limit-th request after one comes no sooner.
AdmissionsAreSpaced ==
    \A i \in 1 .. Len(admitted) :
        i + Limit <= Len(admitted) =>
            admitted[i + Limit] >= admitted[i] + Window - MaxStall

\* "Public Qwen demo rate limit reached; retry in one minute." (routes.py:1210):
\* a handler is refused only when Limit requests were admitted in the window
\* before the time it read, so a lone retry a minute later is admitted.
RefusalsAreEarned ==
    [][\A w \in Workers : \A n \in now[w] :
        now'[w] = {} /\ admitted' = admitted =>
            /\ Len(admitted) >= Limit
            /\ admitted[Len(admitted) - Limit + 1] > n - Window]_vars
=============================================================================
