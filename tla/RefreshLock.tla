------------------------------ MODULE RefreshLock ------------------------------
(***************************************************************************)
(* Refreshing an AI dashboard: the lease in its Firestore document, the    *)
(* POST handler that claims it, the background worker that gives it back,  *)
(* and the page that starts a refresh and polls for its outcome.           *)
(*                                                                         *)
(* Time is relative.  A tick is a fraction of MIN_REFRESH_INTERVAL_MS; the *)
(* lease counts down, ages count up.  A handler reads the clock once, when *)
(* it is about to claim, and its transaction compares that reading with    *)
(* the document later: elapsed[p] is how old the reading has become.       *)
(* Only one dashboard is modelled, and the access checks that precede the  *)
(* claim are left out: they change nothing.                                *)
(***************************************************************************)
EXTENDS Integers

CONSTANTS
    Procs,      \* refresh attempts: a page, its POST handler and its worker
    Interval,   \* MIN_REFRESH_INTERVAL_MS, in ticks
    MaxRun,     \* ticks between the clock reading and the end of a worker
    PollLimit,  \* REFRESH_POLL_TIMEOUT_MS, in ticks
    Faults      \* what may go wrong, a subset of AllFaults

AllFaults == {"lostPost", "lostPoll", "lostAck", "start", "work", "unrecorded",
              "crash", "save"}

ASSUME LockAssumption ==
    /\ Interval \in Nat \ {0}
    /\ MaxRun \in Nat
    /\ PollLimit \in Nat
    /\ Faults \subseteq AllFaults

VARIABLES
    lease,    \* refreshLockedUntil - now
    age,      \* now - aiRecipe.lastRefreshedAt
    job,      \* refreshJob.status
    pc,       \* where the handler or the worker of an attempt is
    elapsed,  \* now - the clock reading of the attempt
    page,     \* what the page of an attempt shows
    waited,   \* ticks since the page asked
    since,    \* history: ticks since a worker last published a refresh
    fresh,    \* history: published after an attempt's page asked, or recently before
    cut       \* history: a call was cut off or failed unrecorded, or an edit saved

vars == <<lease, age, job, pc, elapsed, page, waited, since, fresh, cut>>

LongAgo  == Interval + MaxRun     \* ages are not counted beyond this
Released == -MaxRun               \* a lease that no clock reading finds held

Told    == {"done", "failed", "notStarted", "gaveUp"}
Waiting == {"polling", "rechecking"}  \* polls; polls after a call that threw

Init ==
    /\ lease = Released
    /\ age = LongAgo
    /\ job \in {"none", "completed"}     \* never refreshed, or long ago
    /\ pc = [p \in Procs |-> "idle"]
    /\ elapsed = [p \in Procs |-> 0]
    /\ page = [p \in Procs |-> "gaveUp"]
    /\ waited = [p \in Procs |-> 0]
    /\ since = LongAgo
    /\ fresh = [p \in Procs |-> FALSE]
    /\ cut = FALSE

-----------------------------------------------------------------------------
(* Time *)

OneMore(n, cap) == IF n < cap THEN n + 1 ELSE cap

\* No attempt outlives MaxRun: the AI and MCP calls of a worker end.
Tick ==
    /\ \A p \in Procs : pc[p] # "idle" => elapsed[p] < MaxRun
    /\ lease' = IF lease > Released THEN lease - 1 ELSE Released
    /\ age' = OneMore(age, LongAgo)
    /\ since' = OneMore(since, LongAgo)
    /\ elapsed' = [p \in Procs |-> IF pc[p] # "idle" THEN elapsed[p] + 1 ELSE 0]
    /\ waited' = [p \in Procs |-> IF page[p] \in Waiting
                                  THEN OneMore(waited[p], PollLimit) ELSE 0]
    /\ UNCHANGED <<job, pc, page, fresh, cut>>

-----------------------------------------------------------------------------
(* deriveDashboardRefreshStatus, and what the page makes of it *)

\* Mutant: a running job is believed whatever its lease says.
StatusByJob ==
    CASE job = "running"   -> "running"
      [] age < Interval    -> "recently_completed"
      [] job = "failed"    -> "failed"
      [] job = "completed" -> "completed"
      [] OTHER             -> "idle"

Status ==
    CASE age < Interval                          -> "recently_completed"
      [] age >= Interval /\ lease > 0            -> "running"
      [] age >= Interval /\ lease <= 0 ->
            CASE job = "failed"    -> "failed"
              [] job = "completed" -> "completed"
              [] OTHER             -> "idle"

Outcome(status, otherwise) ==
    IF status \in {"completed", "recently_completed"} THEN "done"
    ELSE IF status = "failed" THEN "failed"
    ELSE IF status = "idle" THEN "notStarted"
    ELSE otherwise

\* Mutant: every answer starts the page's clock again.
PollRestartsClock(p) ==
    /\ page[p] \in Waiting
    /\ waited[p] < PollLimit
    /\ page' = [page EXCEPT ![p] = Outcome(Status, @)]
    /\ waited' = [waited EXCEPT ![p] = 0]
    /\ UNCHANGED <<lease, age, job, pc, elapsed, since, fresh, cut>>

\* One poll; a GET that is not ok is the same as no poll.
Poll(p) ==
    /\ page[p] \in Waiting
    /\ waited[p] < PollLimit
    /\ page' = [page EXCEPT ![p] = Outcome(Status, @)]
    /\ UNCHANGED <<lease, age, job, pc, elapsed, waited, since, fresh, cut>>

\* A poll that throws: the page starts over, once, with a new clock.
PollThrows(p) ==
    /\ "lostPoll" \in Faults
    /\ page[p] \in Waiting
    /\ waited[p] < PollLimit
    /\ page' = [page EXCEPT ![p] = IF @ = "polling" THEN "rechecking" ELSE "failed"]
    /\ waited' = [waited EXCEPT ![p] = 0]
    /\ UNCHANGED <<lease, age, job, pc, elapsed, since, fresh, cut>>

GiveUp(p) ==
    /\ page[p] \in Waiting
    /\ waited[p] >= PollLimit
    /\ page' = [page EXCEPT ![p] = "gaveUp"]
    /\ UNCHANGED <<lease, age, job, pc, elapsed, waited, since, fresh, cut>>

-----------------------------------------------------------------------------
(* POST: claim the lease, mark the job, start the worker *)

Ask(p) ==
    /\ page[p] \in Told /\ pc[p] = "idle"
    /\ page' = [page EXCEPT ![p] = "posting"]
    /\ pc' = [pc EXCEPT ![p] = "claim"]
    /\ elapsed' = [elapsed EXCEPT ![p] = 0]
    /\ waited' = [waited EXCEPT ![p] = 0]
    /\ fresh' = [fresh EXCEPT ![p] = since < Interval]
    /\ UNCHANGED <<lease, age, job, since, cut>>

\* The page gets no answer, whether or not its request arrived.
LosePost(p) ==
    /\ "lostPost" \in Faults
    /\ page[p] = "posting"
    /\ page' = [page EXCEPT ![p] = "rechecking"]
    /\ pc' \in {pc, IF pc[p] = "claim" THEN [pc EXCEPT ![p] = "idle"] ELSE pc}
    /\ cut' = TRUE
    /\ UNCHANGED <<lease, age, job, elapsed, waited, since, fresh>>

Answer(p, what) == page' = [page EXCEPT ![p] = IF @ = "posting" THEN what ELSE @]
End(p)          == pc' = [pc EXCEPT ![p] = "idle"]

\* The two tests of the transaction in claimRefreshLock, for a handler whose
\* clock reading is e ticks old.
InProgress(e) == lease + e > 0
Recent(e)     == age - e < Interval

\* Mutants: no test of the lease; no test of the last refresh; a job that is
\* marked running is taken for one that runs.
CanClaimRecent(e)  == ~Recent(e)
CanClaimExpired(e) == ~InProgress(e)
CanClaimByJob(e)   == ~InProgress(e) /\ ~Recent(e) /\ job # "running"

CanClaim(e)   == ~InProgress(e) /\ ~Recent(e)

Claim(p) ==
    /\ pc[p] = "claim"
    /\ CanClaim(elapsed[p])
    /\ lease' = Interval - elapsed[p]
    /\ pc' = [pc EXCEPT ![p] = "mark"]
    /\ UNCHANGED <<age, job, elapsed, page, waited, since, fresh, cut>>

\* The transaction commits and its acknowledgement is lost: the handler does
\* not know that it holds the lease and does not release it.
ClaimUnacknowledged(p) ==
    /\ pc[p] = "claim"
    /\ "lostAck" \in Faults
    /\ CanClaim(elapsed[p])
    /\ lease' = Interval - elapsed[p]
    /\ End(p)
    /\ Answer(p, "failed")
    /\ cut' = TRUE
    /\ UNCHANGED <<age, job, elapsed, waited, since, fresh>>

Refuse(p) ==
    /\ pc[p] = "claim"
    /\ ~CanClaim(elapsed[p])
    /\ End(p)
    /\ Answer(p, IF InProgress(elapsed[p]) THEN "polling"
                 ELSE IF Outcome(Status, "failed") = "done" THEN "done" ELSE "failed")
    /\ UNCHANGED <<lease, age, job, elapsed, waited, since, fresh, cut>>

Mark(p) ==
    /\ pc[p] = "mark"
    /\ job' = "running"
    /\ pc' = [pc EXCEPT ![p] = "work"]
    /\ Answer(p, "polling")
    /\ UNCHANGED <<lease, age, elapsed, waited, since, fresh, cut>>

\* Marking failed: the catch block gives the lease back, if it can.
MarkFails(p) ==
    /\ pc[p] = "mark"
    /\ "start" \in Faults
    /\ \/ lease' = Released /\ job' = "failed" /\ cut' = cut
       \/ "unrecorded" \in Faults /\ UNCHANGED <<lease, job>> /\ cut' = TRUE
    /\ End(p)
    /\ Answer(p, "failed")
    /\ UNCHANGED <<age, elapsed, waited, since, fresh>>

-----------------------------------------------------------------------------
(* The worker *)

\* Mutant: aiRecipe.lastRefreshedAt is not written.
CompleteKeepsTime(p) ==
    /\ pc[p] = "work"
    /\ lease' = Released
    /\ job' = "completed"
    /\ since' = 0
    /\ fresh' = [q \in Procs |-> TRUE]
    /\ End(p)
    /\ UNCHANGED <<age, elapsed, page, waited, cut>>

Complete(p) ==
    /\ pc[p] = "work"
    /\ lease' = Released
    /\ job' = "completed"
    /\ age' = 0
    /\ since' = 0
    /\ fresh' = [q \in Procs |-> TRUE]
    /\ End(p)
    /\ UNCHANGED <<elapsed, page, waited, cut>>

\* failRefreshJob: the error of its own update is swallowed.
Fail(p) ==
    /\ pc[p] = "work"
    /\ "work" \in Faults
    /\ \/ lease' = Released /\ job' = "failed"
       \/ "unrecorded" \in Faults /\ UNCHANGED <<lease, job>>
    /\ End(p)
    /\ UNCHANGED <<age, elapsed, page, waited, since, fresh, cut>>

Crash(p) ==
    /\ "crash" \in Faults
    /\ pc[p] # "idle"
    /\ End(p)
    /\ Answer(p, "rechecking")
    /\ cut' = (cut \/ pc[p] # "work")
    /\ UNCHANGED <<lease, age, job, elapsed, waited, since, fresh>>

-----------------------------------------------------------------------------
\* Saving an edit in the builder replaces aiRecipe, lastRefreshedAt included.
Save ==
    /\ "save" \in Faults
    /\ age' = 0
    /\ cut' = TRUE
    /\ UNCHANGED <<lease, job, pc, elapsed, page, waited, since, fresh>>

Worker(p) == Complete(p) \/ Fail(p)

Handler(p) ==
    Claim(p) \/ ClaimUnacknowledged(p) \/ Refuse(p) \/ Mark(p) \/ MarkFails(p)

Page(p) == Ask(p) \/ LosePost(p) \/ Poll(p) \/ PollThrows(p) \/ GiveUp(p)

Next ==
    \/ \E p \in Procs : Page(p) \/ Handler(p) \/ Worker(p) \/ Crash(p)
    \/ Tick
    \/ Save

Spec == Init /\ [][Next]_vars

\* Time passes, every call of a handler or a worker returns or throws, and a
\* page whose deadline has passed notices it.
Fairness ==
    /\ WF_vars(Tick)
    /\ \A p \in Procs : 
        WF_vars(Handler(p)) /\ WF_vars(Worker(p)) /\ WF_vars(GiveUp(p))

FairSpec == Spec /\ Fairness

-----------------------------------------------------------------------------
(* Properties *)

TypeOK ==
    /\ lease \in Released..Interval
    /\ age \in 0..LongAgo
    /\ job \in {"none", "running", "failed", "completed"}
    /\ pc \in [Procs -> {"idle", "claim", "mark", "work"}]
    /\ elapsed \in [Procs -> 0..MaxRun]
    /\ page \in [Procs -> {"posting"} \cup Waiting \cup Told]
    /\ waited \in [Procs -> 0..PollLimit]
    /\ since \in 0..LongAgo
    /\ fresh \in [Procs -> BOOLEAN]
    /\ cut \in BOOLEAN

Working(p) == pc[p] \in {"mark", "work"}

\* The lease excludes: two attempts never regenerate the dashboard at the same
\* time, although nobody checks that the lease it releases is its own.
OneWorker == \A p, q \in Procs : Working(p) /\ Working(q) => p = q

\* "Rate limit: max 1 refresh per dashboard per hour" (refresh/route.ts): a
\* worker never publishes less than an interval after the previous one did.
RateLimited == [][\A p \in Procs : Complete(p) => since >= Interval]_vars

\* A page that says "Dashboard refreshed with latest data!" says so because a
\* refresh was published since it asked, or less than an interval before: at
\* least as long as no call was lost, no start was cut off and nobody saved.
ToldTheTruth ==
    [][\A p \in Procs : page'[p] = "done" /\ page[p] # "done" => fresh[p] \/ cut]_vars

\* Whatever died or failed, a new attempt can always claim the dashboard some
\* day, unless it is edited all the time: an abandoned lease runs out, whatever
\* the job's status still says.
RefreshableAgain == []<>(CanClaim(0) \/ age = 0)

\* A page that waits for a refresh is told something in the end.
PagesSettle == \A p \in Procs : page[p] \notin Told ~> page[p] \in Told
=============================================================================
