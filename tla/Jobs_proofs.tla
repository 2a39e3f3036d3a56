----------------------------- MODULE Jobs_proofs -----------------------------
(***************************************************************************)
(* The work that is done beside the requests: refreshes and thumbnails.    *)
(*                                                                         *)
(* The lease of RefreshLock excludes, and limits the rate of refreshes, as *)
(* long as no worker outlives it.  The argument is about clocks.  An       *)
(* attempt that holds the lease still has Interval - elapsed ticks of it:  *)
(* nobody has to check whose lease it is, because nobody else can have     *)
(* taken it.  And when it took the lease the last refresh was Interval     *)
(* old, so by now it is Interval + elapsed old: it may publish.  What a    *)
(* page is told is true because a completed job without a lease can only   *)
(* be one that was completed since the page asked.                         *)
(*                                                                         *)
(* The pictures of Thumbnails (the second part) need no lease: a path is   *)
(* chosen once, so only the worker that saved a picture can name it,       *)
(* and what a worker deletes is what the document named before it.         *)
(***************************************************************************)
EXTENDS RefreshLock, Thumbnails, TLAPS

\* The lease is the holder's for as long as the holder may run.
ShortRuns == MaxRun < Interval

\* What a holder of the lease knows of the clocks.
HolderClocks ==
    \A p \in Procs : Working(p) =>
        /\ lease = Interval - elapsed[p]
        /\ since >= Interval + elapsed[p]

IInv == TypeOK /\ OneWorker /\ HolderClocks /\ age <= since

-----------------------------------------------------------------------------
\* The initial states are idle, and a refresh long ago is long ago.
LEMMA InitIInv == Init => IInv
<1> SUFFICES ASSUME Init PROVE IInv
  OBVIOUS
<1>1. TypeOK
  <2>1. cut \in BOOLEAN
    BY DEF Init
  <2> QED
    BY <2>1, LockAssumption DEF Init, TypeOK, Released, LongAgo, Told
<1>2. \A p \in Procs : ~Working(p)
  BY DEF Init, Working
<1>3. age <= since
  BY LockAssumption DEF Init, LongAgo
<1> QED
  BY <1>1, <1>2, <1>3 DEF IInv, OneWorker, HolderClocks

\* A truth value stays one, whatever is cut off.
LEMMA CutType ==
  ASSUME NEW p \in Procs, TypeOK, Page(p) \/ Handler(p) \/ Worker(p) \/ Crash(p)
  PROVE  cut' \in BOOLEAN
<1>1. cut' = cut \/ cut' = TRUE \/ cut' = (cut \/ pc[p] # "work")
  BY DEF Page, Ask, LosePost, Poll, PollThrows, GiveUp, Handler, Claim,
         ClaimUnacknowledged, Refuse, Mark, MarkFails, Worker, Complete, Fail, Crash
<1>2. cut \in BOOLEAN
  BY Zenon DEF TypeOK
<1>3. (cut \/ pc[p] # "work") \in BOOLEAN
  OBVIOUS
<1> QED
  BY <1>1, <1>2, <1>3, Zenon

\* One tick moves every clock by one, up to its bound.
LEMMA TickStep ==
  ASSUME ShortRuns, IInv, Tick
  PROVE  IInv'
<1> USE LockAssumption DEF ShortRuns
<1>1. TypeOK'
  BY DEF IInv, Tick, TypeOK, OneMore, Released, LongAgo
<1>2. OneWorker'
  BY DEF IInv, Tick, OneWorker, Working
<1>3. (age <= since)'
  BY DEF IInv, Tick, TypeOK, OneMore, LongAgo
<1>4. ASSUME NEW p \in Procs, Working(p)'
      PROVE (lease = Interval - elapsed[p] /\ since >= Interval + elapsed[p])'
  <2>1. /\ Working(p) /\ elapsed[p] < MaxRun /\ elapsed'[p] = elapsed[p] + 1
        /\ elapsed[p] \in Nat
    BY <1>4 DEF IInv, Tick, TypeOK, Working
  <2>2. lease = Interval - elapsed[p] /\ since >= Interval + elapsed[p]
    BY <2>1 DEF IInv, HolderClocks
  <2>3. lease > Released /\ lease' = lease - 1
    BY <2>1, <2>2 DEF Tick, Released, IInv, TypeOK
  <2>4. since' >= Interval + elapsed[p] + 1
    BY <2>1, <2>2 DEF Tick, OneMore, LongAgo, IInv, TypeOK
  <2> QED
    BY <2>1, <2>2, <2>3, <2>4 DEF IInv, TypeOK
<1> QED
  BY <1>1, <1>2, <1>3, <1>4 DEF IInv, HolderClocks

\* What a page does leaves the lease, the clocks and the workers alone: at most
\* it starts a handler, or makes one idle that has not claimed.
LEMMA PageStep ==
  ASSUME NEW p \in Procs, IInv, Page(p)
  PROVE  IInv'
<1> USE LockAssumption
<1>1. /\ lease' = lease /\ age' = age /\ since' = since /\ job' = job
      /\ \A q \in Procs : Working(q)' => Working(q) /\ elapsed'[q] = elapsed[q]
  BY DEF Page, Ask, LosePost, Poll, PollThrows, GiveUp, Working, IInv, TypeOK
<1>2. pc' \in [Procs -> {"idle", "claim", "mark", "work"}]
  BY DEF Page, Ask, LosePost, Poll, PollThrows, GiveUp, IInv, TypeOK
<1>3. elapsed' \in [Procs -> 0..MaxRun] /\ waited' \in [Procs -> 0..PollLimit]
  BY DEF Page, Ask, LosePost, Poll, PollThrows, GiveUp, IInv, TypeOK
<1>4. fresh' \in [Procs -> BOOLEAN]
  <2>1. fresh' = fresh \/ fresh' = [fresh EXCEPT ![p] = since < Interval]
    BY DEF Page, Ask, LosePost, Poll, PollThrows, GiveUp
  <2>2. (since < Interval) \in BOOLEAN
    OBVIOUS
  <2>3. ASSUME NEW b \in BOOLEAN
        PROVE  [fresh EXCEPT ![p] = b] \in [Procs -> BOOLEAN]
    BY Zenon DEF IInv, TypeOK
  <2> QED
    BY <2>1, <2>2, <2>3, Zenon DEF IInv, TypeOK
<1>5. \A s : Outcome(s, page[p]) \in Told \cup {page[p]}
  BY DEF Outcome, Told
<1>6. page' \in [Procs -> {"posting"} \cup Waiting \cup Told]
  <2>1. PICK what \in {"posting"} \cup Waiting \cup Told :
           page' = [page EXCEPT ![p] = what]
    BY <1>5 DEF Page, Ask, LosePost, Poll, PollThrows, GiveUp, IInv, TypeOK,
                Told, Waiting
  <2> QED
    BY <2>1 DEF IInv, TypeOK
<1>7. cut' \in BOOLEAN
  BY CutType DEF IInv
<1> QED
  BY <1>1, <1>2, <1>3, <1>4, <1>6, <1>7 DEF IInv, TypeOK, OneWorker, HolderClocks

\* What an answer does to the pages: nothing that is not an answer.
LEMMA AnswerType ==
  ASSUME NEW p \in Procs, TypeOK, NEW what \in Waiting \cup Told, Answer(p, what)
  PROVE  page' \in [Procs -> {"posting"} \cup Waiting \cup Told]
BY DEF Answer, TypeOK

\* The claim: it finds the lease free, so nobody works, and the last refresh
\* an interval old at the clock reading it goes by.
LEMMA ClaimStep ==
  ASSUME ShortRuns, NEW p \in Procs, IInv, Claim(p) \/ ClaimUnacknowledged(p)
  PROVE  IInv'
<1> USE LockAssumption DEF ShortRuns
<1>1. /\ pc[p] = "claim" /\ lease' = Interval - elapsed[p]
      /\ lease + elapsed[p] <= 0 /\ age - elapsed[p] >= Interval
      /\ age' = age /\ since' = since /\ elapsed' = elapsed /\ job' = job
      /\ waited' = waited /\ fresh' = fresh
      /\ elapsed \in [Procs -> 0..MaxRun] /\ lease \in Int /\ age \in Int
  BY DEF Claim, ClaimUnacknowledged, CanClaim, InProgress, Recent, IInv, TypeOK,
         Released
<1>2. pc' = [pc EXCEPT ![p] = "mark"] \/ pc' = [pc EXCEPT ![p] = "idle"]
  BY DEF Claim, ClaimUnacknowledged, End
<1>3. \A q \in Procs : ~Working(q)
  <2> SUFFICES ASSUME NEW q \in Procs, Working(q) PROVE FALSE
    OBVIOUS
  <2>1. lease = Interval - elapsed[q]
    BY DEF IInv, HolderClocks
  <2>2. elapsed[q] \in 0..MaxRun /\ elapsed[p] \in 0..MaxRun
    BY <1>1
  <2> QED
    BY <1>1, <2>1, <2>2
<1>4. page' \in [Procs -> {"posting"} \cup Waiting \cup Told]
  BY AnswerType DEF Claim, ClaimUnacknowledged, Told, IInv, TypeOK
<1>5. lease' \in Released..Interval
  BY <1>1 DEF Released
<1>6. \A q \in Procs : Working(q)' => q = p
  BY <1>2, <1>3 DEF Working, IInv, TypeOK
<1>7. TypeOK'
  <2>1. cut' \in BOOLEAN
    BY CutType DEF Handler, IInv
  <2> QED
    BY <1>1, <1>2, <1>4, <1>5, <2>1 DEF IInv, TypeOK
<1>8. since' >= Interval + elapsed'[p]
  BY <1>1 DEF IInv, TypeOK
<1> QED
  BY <1>1, <1>6, <1>7, <1>8 DEF IInv, OneWorker, HolderClocks

\* A step after which its attempt is idle, and before which it was either not
\* working, and leaves the lease alone, or was, and may release it.
LEMMA EndStep ==
  ASSUME NEW p \in Procs, IInv, TypeOK',
         pc' = [pc EXCEPT ![p] = "idle"], elapsed' = elapsed,
         \/ lease' = lease /\ since' = since /\ age' = age
         \/ Working(p) /\ (age' <= since')
  PROVE  IInv'
<1>1. \A q \in Procs : Working(q)' => q # p /\ Working(q)
  BY DEF Working, IInv, TypeOK
<1>2. OneWorker'
  BY <1>1 DEF OneWorker, IInv
<1>3. CASE lease' = lease /\ since' = since /\ age' = age
  BY <1>1, <1>2, <1>3 DEF IInv, HolderClocks
<1>4. CASE Working(p) /\ (age' <= since')
  <2>1. \A q \in Procs : ~Working(q)'
    BY <1>1, <1>4 DEF IInv, OneWorker
  <2> QED
    BY <2>1, <1>2, <1>4 DEF IInv, HolderClocks
<1> QED
  BY <1>3, <1>4

\* The handler that marks the job goes on to work with what it knows.
LEMMA MarkStep ==
  ASSUME NEW p \in Procs, IInv, Mark(p)
  PROVE  IInv'
<1>1. /\ pc[p] = "mark" /\ pc' = [pc EXCEPT ![p] = "work"] /\ job' = "running"
      /\ UNCHANGED <<lease, age, elapsed, waited, since, fresh, cut>>
  BY DEF Mark
<1>2. page' \in [Procs -> {"posting"} \cup Waiting \cup Told]
  BY AnswerType DEF Mark, Waiting, IInv
<1>3. TypeOK'
  BY <1>1, <1>2 DEF IInv, TypeOK
<1>4. \A q \in Procs : Working(q)' <=> Working(q)
  BY <1>1 DEF Working, IInv, TypeOK
<1> QED
  BY <1>1, <1>3, <1>4 DEF IInv, OneWorker, HolderClocks

\* Every other step of a handler or a worker ends it.
LEMMA LastStep ==
  ASSUME NEW p \in Procs, IInv,
         Refuse(p) \/ MarkFails(p) \/ Complete(p) \/ Fail(p) \/ Crash(p)
  PROVE  IInv'
<1> USE LockAssumption
<1>1. pc' = [pc EXCEPT ![p] = "idle"] /\ elapsed' = elapsed /\ waited' = waited
  BY DEF Refuse, MarkFails, Complete, Fail, Crash, End
<1>2. /\ \/ lease' = lease /\ since' = since /\ age' = age
         \/ Working(p) /\ (age' <= since')
      /\ lease' \in {lease, Released} /\ age' \in {age, 0} /\ since' \in {since, 0}
      /\ job' \in {job, "completed", "failed"}
  BY DEF Refuse, MarkFails, Complete, Fail, Crash, Working, IInv, TypeOK
<1>3. fresh' \in [Procs -> BOOLEAN]
  BY DEF Refuse, MarkFails, Complete, Fail, Crash, IInv, TypeOK
<1>4. page' \in [Procs -> {"posting"} \cup Waiting \cup Told]
  <2>1. page' = page \/ \E what \in Waiting \cup Told : Answer(p, what)
    BY DEF Refuse, MarkFails, Complete, Fail, Crash, Waiting, Told
  <2> QED
    BY <2>1, AnswerType DEF IInv, TypeOK
<1>5. lease' \in Released..Interval /\ age' \in 0..LongAgo /\ since' \in 0..LongAgo
  BY <1>2 DEF IInv, TypeOK, Released, LongAgo
<1>6. TypeOK'
  <2>1. cut' \in BOOLEAN
    BY CutType DEF Handler, Worker, IInv
  <2> QED
    BY <1>1, <1>2, <1>3, <1>4, <1>5, <2>1 DEF IInv, TypeOK
<1> QED
  BY <1>1, <1>2, <1>6, EndStep

\* A save in the builder only makes the last refresh look younger.
LEMMA SaveStep == IInv /\ Save => IInv'
BY LockAssumption DEF IInv, Save, TypeOK, OneWorker, HolderClocks, Working, LongAgo

\* Every step keeps the inductive invariant.
LEMMA NextIInv ==
  ASSUME ShortRuns, IInv, [Next]_vars
  PROVE  IInv'
<1>1. CASE UNCHANGED vars
  BY <1>1 DEF IInv, vars, TypeOK, OneWorker, HolderClocks, Working
<1>2. CASE \E p \in Procs : Page(p) \/ Handler(p) \/ Worker(p) \/ Crash(p)
  BY <1>2, PageStep, ClaimStep, MarkStep, LastStep DEF Handler, Worker
<1> QED
  BY <1>1, <1>2, TickStep, SaveStep DEF Next

-----------------------------------------------------------------------------
\* While no worker outlives the lease, two attempts never regenerate the
\* dashboard at once, whatever is lost, fails or crashes around them.
THEOREM Exclusion ==
  ASSUME ShortRuns
  PROVE  Spec => []OneWorker
<1>1. IInv => OneWorker
  BY DEF IInv
<1>2. IInv /\ [Next]_vars => IInv'
  BY NextIInv
<1> QED
  BY <1>1, <1>2, InitIInv, PTL DEF Spec

\* And no refresh is published within an interval of the one before.
THEOREM RateLimit ==
  ASSUME ShortRuns
  PROVE  Spec => RateLimited
<1>1. IInv => [\A p \in Procs : Complete(p) => since >= Interval]_vars
  <2> SUFFICES ASSUME IInv, NEW p \in Procs, Complete(p)
               PROVE  since >= Interval
    OBVIOUS
  <2>1. Working(p) /\ elapsed[p] \in 0..MaxRun
    BY DEF IInv, TypeOK, Complete, Working
  <2> QED
    BY <2>1, LockAssumption DEF IInv, HolderClocks, TypeOK
<1>2. IInv /\ [Next]_vars => IInv'
  BY NextIInv
<1> QED
  BY <1>1, <1>2, InitIInv, PTL DEF Spec, RateLimited

\* Leases, ages and clock readings stay within their bounds.
THEOREM Types ==
  ASSUME ShortRuns
  PROVE  Spec => []TypeOK
<1>1. IInv => TypeOK
  BY DEF IInv
<1>2. IInv /\ [Next]_vars => IInv'
  BY NextIInv
<1> QED
  BY <1>1, <1>2, InitIInv, PTL DEF Spec

-----------------------------------------------------------------------------
(* What a page may conclude from what it is told.                          *)

\* As long as nobody saves, the document shows when the last refresh was.
SaveUnseen == cut = FALSE => age = since

\* Whoever has asked when a refresh was recent, or before one, knows of one.
AskedKnow ==
    \A p \in Procs :
        /\ page[p] \notin Told /\ since < Interval => fresh[p] = TRUE
        /\ pc[p] = "claim" /\ since - elapsed[p] < Interval => fresh[p] = TRUE

AnyMark == \E q \in Procs : pc[q] = "mark"

\* Unless something was cut off, a job that is not running has no lease, but for
\* the moment between the claim and the mark; a page that waits for a completed
\* job waits for one completed since it asked, or has seen that moment.
JobTrue ==
    /\ \A p \in Procs : pc[p] = "work" => job = "running"
    /\ cut = FALSE /\ job \in {"none", "completed"} => lease = Released \/ AnyMark
    /\ cut = FALSE /\ job = "completed" =>
         \A p \in Procs : page[p] \in Waiting => fresh[p] = TRUE \/ AnyMark

TruthInv == SaveUnseen /\ AskedKnow /\ JobTrue

LEMMA InitTruth == Init => TruthInv
BY LockAssumption DEF Init, TruthInv, SaveUnseen, AskedKnow, JobTrue, Told, Waiting,
                      LongAgo

LEMMA CutStays ==
  ASSUME IInv, Next, cut' = FALSE
  PROVE  cut = FALSE
<1>1. cut \in BOOLEAN
  BY Zenon DEF IInv, TypeOK
<1>2. ASSUME NEW p \in Procs, Page(p) \/ Handler(p) \/ Worker(p) \/ Crash(p)
      PROVE  cut' = cut \/ cut' = TRUE \/ cut' = (cut \/ pc[p] # "work")
  BY <1>2 DEF Page, Ask, LosePost, Poll, PollThrows, GiveUp, Handler, Claim,
         ClaimUnacknowledged, Refuse, Mark, MarkFails, Worker, Complete, Fail, Crash
<1>3. \/ cut' = cut \/ cut' = TRUE
      \/ \E p \in Procs : cut' = (cut \/ pc[p] # "work")
  BY <1>2 DEF Next, Tick, Save
<1> QED
  BY <1>1, <1>3, Zenon

\* A step at which nobody asks, no time passes and nothing is published.
LEMMA AskedKnowStays ==
  ASSUME AskedKnow, fresh' = fresh, since' = since, elapsed' = elapsed,
         \A q \in Procs : page'[q] \notin Told => page[q] \notin Told,
         \A q \in Procs : pc'[q] = "claim" => pc[q] = "claim"
  PROVE  AskedKnow'
BY DEF AskedKnow

LEMMA TickTruth ==
  ASSUME ShortRuns, IInv, TruthInv, Tick
  PROVE  TruthInv'
<1> USE LockAssumption DEF ShortRuns
<1>1. /\ UNCHANGED <<job, pc, page, fresh, cut>>
      /\ lease' = IF lease > Released THEN lease - 1 ELSE Released
      /\ age' = OneMore(age, LongAgo) /\ since' = OneMore(since, LongAgo)
      /\ \A p \in Procs : pc[p] # "idle" => elapsed[p] < MaxRun /\ elapsed'[p] = elapsed[p] + 1
  BY DEF Tick
<1>2. /\ since \in 0..LongAgo /\ \A p \in Procs : elapsed[p] \in 0..MaxRun
      /\ lease \in Int /\ Released \in Int
  BY DEF IInv, TypeOK, Released
<1>3. SaveUnseen'
  BY <1>1 DEF TruthInv, SaveUnseen
<1>4. AskedKnow'
  <2> SUFFICES ASSUME NEW p \in Procs
               PROVE  /\ page'[p] \notin Told /\ since' < Interval => fresh'[p] = TRUE
                      /\ pc'[p] = "claim" /\ since' - elapsed'[p] < Interval => fresh'[p] = TRUE
    BY DEF AskedKnow
  <2>1. since' < Interval => since < Interval
    BY <1>1, <1>2 DEF OneMore, LongAgo
  <2>2. pc[p] = "claim" /\ since' - elapsed'[p] < Interval => since - elapsed[p] < Interval
    BY <1>1, <1>2 DEF OneMore, LongAgo
  <2> QED BY <1>1, <2>1, <2>2 DEF TruthInv, AskedKnow
<1>5. JobTrue'
  <2>1. lease = Released => lease' = Released
    BY <1>1, <1>2
  <2>2. AnyMark' <=> AnyMark
    BY <1>1 DEF AnyMark
  <2> QED BY <1>1, <2>1, <2>2 DEF TruthInv, JobTrue
<1> QED
  BY <1>3, <1>4, <1>5 DEF TruthInv

LEMMA PageTruth ==
  ASSUME IInv, TruthInv, NEW p \in Procs, Page(p)
  PROVE  TruthInv'
<1> USE LockAssumption
<1>1. CASE Ask(p)
  <2>1. /\ page[p] \in Told /\ pc[p] = "idle"
        /\ page' = [page EXCEPT ![p] = "posting"]
        /\ pc' = [pc EXCEPT ![p] = "claim"]
        /\ elapsed' = [elapsed EXCEPT ![p] = 0]
        /\ fresh' = [fresh EXCEPT ![p] = since < Interval]
        /\ UNCHANGED <<lease, age, job, since, cut>>
    BY <1>1 DEF Ask
  <2>2. /\ DOMAIN page = Procs /\ DOMAIN pc = Procs /\ DOMAIN elapsed = Procs
        /\ DOMAIN fresh = Procs
    BY DEF IInv, TypeOK
  <2>3. /\ page'[p] = "posting" /\ pc'[p] = "claim" /\ elapsed'[p] = 0
        /\ \A q \in Procs \ {p} : /\ page'[q] = page[q] /\ pc'[q] = pc[q]
                                  /\ elapsed'[q] = elapsed[q] /\ fresh'[q] = fresh[q]
    BY <2>1, <2>2
  <2>4. since < Interval => fresh'[p] = TRUE
    BY <2>1, <2>2, Zenon
  <2>5. SaveUnseen'
    BY <2>1 DEF TruthInv, SaveUnseen
  <2>6. AskedKnow'
    <3>1. since \in Nat
      BY DEF IInv, TypeOK
    <3> QED BY <2>1, <2>3, <2>4, <3>1 DEF TruthInv, AskedKnow
  <2>7. JobTrue'
    <3>1. AnyMark' <=> AnyMark
      BY <2>1, <2>3 DEF AnyMark
    <3> QED BY <2>1, <2>3, <3>1 DEF TruthInv, JobTrue, Waiting
  <2> QED BY <2>5, <2>6, <2>7 DEF TruthInv
<1>2. CASE LosePost(p)
  <2>1. /\ cut' = TRUE /\ UNCHANGED <<lease, age, job, elapsed, since, fresh>>
        /\ page[p] = "posting" /\ page' = [page EXCEPT ![p] = "rechecking"]
        /\ pc' = pc \/ pc' = [pc EXCEPT ![p] = "idle"]
    BY <1>2 DEF LosePost
  <2>2. /\ \A q \in Procs : page'[q] \notin Told => page[q] \notin Told
        /\ \A q \in Procs : pc'[q] = "claim" => pc[q] = "claim"
        /\ \A q \in Procs : pc'[q] = "work" => pc[q] = "work"
    BY <2>1 DEF IInv, TypeOK, Told
  <2> QED BY <2>1, <2>2, AskedKnowStays DEF TruthInv, SaveUnseen, JobTrue
<1>3. CASE Poll(p) \/ PollThrows(p) \/ GiveUp(p)
  <2>1. /\ UNCHANGED <<lease, age, job, pc, elapsed, since, fresh, cut>>
        /\ page[p] \in Waiting
    BY <1>3 DEF Poll, PollThrows, GiveUp
  <2>2. \A q \in Procs \ {p} : page'[q] = page[q]
    BY <1>3 DEF Poll, PollThrows, GiveUp, IInv, TypeOK
  <2>3. \A q \in Procs : /\ page'[q] \notin Told => page[q] \notin Told
                         /\ page'[q] \in Waiting => page[q] \in Waiting
    BY <2>1, <2>2 DEF Told, Waiting
  <2>4. AnyMark' <=> AnyMark
    BY <2>1 DEF AnyMark
  <2> QED BY <2>1, <2>3, <2>4, AskedKnowStays DEF TruthInv, SaveUnseen, JobTrue
<1> QED
  BY <1>1, <1>2, <1>3 DEF Page

\* What an answer does to a page, and an end to an attempt.
LEMMA AnswerEnds ==
  ASSUME IInv, NEW p \in Procs, NEW what \in Waiting \cup Told, Answer(p, what)
  PROVE  /\ \A q \in Procs : page'[q] \notin Told => page[q] \notin Told
         /\ \A q \in Procs \ {p} : page'[q] = page[q]
         /\ page'[p] = IF page[p] = "posting" THEN what ELSE page[p]
BY DEF Answer, IInv, TypeOK, Told

LEMMA ClaimTruth ==
  ASSUME IInv, TruthInv, NEW p \in Procs, Claim(p) \/ ClaimUnacknowledged(p)
  PROVE  TruthInv'
<1>1. CASE Claim(p)
  <2>1. /\ pc[p] = "claim" /\ pc' = [pc EXCEPT ![p] = "mark"]
        /\ UNCHANGED <<age, job, elapsed, page, since, fresh, cut>>
    BY <1>1 DEF Claim
  <2>2. pc'[p] = "mark" /\ \A q \in Procs \ {p} : pc'[q] = pc[q]
    BY <2>1 DEF IInv, TypeOK
  <2>3. AnyMark'
    BY <2>2 DEF AnyMark
  <2> QED BY <2>1, <2>2, <2>3, AskedKnowStays DEF TruthInv, SaveUnseen, JobTrue
<1>2. CASE ClaimUnacknowledged(p)
  <2>1. /\ pc' = [pc EXCEPT ![p] = "idle"] /\ cut' = TRUE /\ Answer(p, "failed")
        /\ UNCHANGED <<age, job, elapsed, since, fresh>>
    BY <1>2 DEF ClaimUnacknowledged, End
  <2>2. \A q \in Procs : /\ pc'[q] = "claim" => pc[q] = "claim"
                         /\ pc'[q] = "work" => pc[q] = "work"
    BY <2>1 DEF IInv, TypeOK
  <2>3. \A q \in Procs : page'[q] \notin Told => page[q] \notin Told
    BY <2>1, AnswerEnds DEF Told
  <2> QED BY <2>1, <2>2, <2>3, AskedKnowStays DEF TruthInv, SaveUnseen, JobTrue
<1> QED
  BY <1>1, <1>2

\* A refusal that makes a page wait found the lease held: if the job is not
\* running, its holder is about to mark it.
LEMMA RefuseTruth ==
  ASSUME IInv, TruthInv, NEW p \in Procs, Refuse(p)
  PROVE  TruthInv'
<1> USE LockAssumption
<1>1. /\ pc[p] = "claim" /\ pc' = [pc EXCEPT ![p] = "idle"]
      /\ UNCHANGED <<lease, age, job, elapsed, since, fresh, cut>>
  BY DEF Refuse, End
<1>2. PICK what \in {"polling", "done", "failed"} :
        Answer(p, what) /\ (what = "polling" => InProgress(elapsed[p]))
  BY DEF Refuse
<1>3. /\ \A q \in Procs : page'[q] \notin Told => page[q] \notin Told
      /\ \A q \in Procs \ {p} : page'[q] = page[q]
      /\ page'[p] = IF page[p] = "posting" THEN what ELSE page[p]
  BY <1>2, AnswerEnds DEF Told, Waiting
<1>4. pc'[p] = "idle" /\ \A q \in Procs \ {p} : pc'[q] = pc[q]
  BY <1>1 DEF IInv, TypeOK
<1>5. AnyMark' <=> AnyMark
  BY <1>1, <1>4 DEF AnyMark
<1>6. InProgress(elapsed[p]) => lease # Released
  <2>1. elapsed[p] \in 0..MaxRun
    BY DEF IInv, TypeOK
  <2> QED BY <2>1 DEF InProgress, Released
<1>7. cut = FALSE /\ job = "completed" /\ page'[p] \in Waiting =>
        fresh[p] = TRUE \/ AnyMark
  BY <1>2, <1>3, <1>6 DEF TruthInv, JobTrue, Waiting
<1>8. JobTrue'
  <2>1. \A q \in Procs : pc'[q] = "work" => job' = "running"
    BY <1>1, <1>4 DEF TruthInv, JobTrue
  <2>2. cut' = FALSE /\ job' \in {"none", "completed"} => lease' = Released \/ AnyMark'
    BY <1>1, <1>5 DEF TruthInv, JobTrue
  <2>3. ASSUME NEW q \in Procs, cut' = FALSE, job' = "completed", page'[q] \in Waiting
        PROVE  fresh'[q] = TRUE \/ AnyMark'
    BY <1>1, <1>3, <1>5, <1>7, <2>3 DEF TruthInv, JobTrue
  <2> QED BY <2>1, <2>2, <2>3 DEF JobTrue
<1>9. AskedKnow'
  BY <1>1, <1>3, <1>4, AskedKnowStays DEF TruthInv
<1>10. SaveUnseen'
  BY <1>1 DEF TruthInv, SaveUnseen
<1> QED
  BY <1>8, <1>9, <1>10 DEF TruthInv

LEMMA MarkTruth ==
  ASSUME IInv, TruthInv, NEW p \in Procs, Mark(p) \/ MarkFails(p)
  PROVE  TruthInv'
<1>1. /\ pc[p] = "mark" /\ \E s \in {"work", "idle"} : pc' = [pc EXCEPT ![p] = s]
      /\ UNCHANGED <<age, elapsed, since, fresh>>
      /\ \E what \in Waiting \cup Told : Answer(p, what)
      /\ job' = "running" \/ (job' = "failed" /\ pc'[p] # "work") \/ (cut' = TRUE /\ pc'[p] # "work")
  BY DEF Mark, MarkFails, End, Waiting, Told, IInv, TypeOK
<1>2. \A q \in Procs : /\ page'[q] \notin Told => page[q] \notin Told
                       /\ pc'[q] = "claim" => pc[q] = "claim"
  BY <1>1, AnswerEnds DEF IInv, TypeOK
<1>3. \A q \in Procs : pc'[q] = "work" => q = p
  <2> SUFFICES ASSUME NEW q \in Procs, pc'[q] = "work", q # p PROVE FALSE
    OBVIOUS
  <2>1. pc[q] = "work"
    BY <1>1 DEF IInv, TypeOK
  <2> QED BY <1>1, <2>1 DEF IInv, OneWorker, Working
<1>4. AskedKnow'
  BY <1>1, <1>2, AskedKnowStays DEF TruthInv
<1>5. cut' = FALSE => cut = FALSE
  BY CutStays DEF Next, Handler
<1>6. SaveUnseen'
  BY <1>1, <1>5 DEF TruthInv, SaveUnseen
<1>7. \A q \in Procs : pc'[q] = "work" => job' = "running"
  BY <1>1, <1>3
<1>8. cut' = FALSE => job' \in {"running", "failed"}
  BY <1>1
<1> QED
  BY <1>4, <1>6, <1>7, <1>8 DEF TruthInv, JobTrue

\* The end of a worker, or of whoever crashes.
LEMMA EndTruth ==
  ASSUME IInv, TruthInv, NEW p \in Procs, Complete(p) \/ Fail(p) \/ Crash(p)
  PROVE  TruthInv'
<1>1. pc' = [pc EXCEPT ![p] = "idle"] /\ elapsed' = elapsed
  BY DEF Complete, Fail, Crash, End
<1>2. pc'[p] = "idle" /\ \A q \in Procs \ {p} : pc'[q] = pc[q]
  BY <1>1 DEF IInv, TypeOK
<1>3. CASE Complete(p)
  <2>1. /\ pc[p] = "work" /\ lease' = Released /\ job' = "completed"
        /\ age' = 0 /\ since' = 0 /\ fresh' = [q \in Procs |-> TRUE]
    BY <1>3 DEF Complete
  <2>2. \A q \in Procs : fresh'[q] = TRUE
    BY <2>1
  <2>3. \A q \in Procs : pc'[q] # "work"
    BY <1>2, <2>1 DEF IInv, OneWorker, Working
  <2> QED BY <2>1, <2>2, <2>3 DEF TruthInv, SaveUnseen, AskedKnow, JobTrue
<1>4. CASE Fail(p)
  <2>1. /\ pc[p] = "work" /\ (job' = "failed" \/ job' = job)
        /\ UNCHANGED <<age, elapsed, page, since, fresh, cut>>
    BY <1>4 DEF Fail
  <2>2. \A q \in Procs : pc'[q] # "work"
    BY <1>2, <2>1 DEF IInv, OneWorker, Working
  <2>3. job' \notin {"none", "completed"}
    BY <2>1 DEF TruthInv, JobTrue
  <2>4. AskedKnow'
    BY <1>2, <2>1, AskedKnowStays DEF TruthInv
  <2> QED BY <2>1, <2>2, <2>3, <2>4 DEF TruthInv, SaveUnseen, JobTrue
<1>5. CASE Crash(p)
  <2>1. /\ UNCHANGED <<lease, age, job, elapsed, since, fresh>>
        /\ Answer(p, "rechecking") /\ cut' = (cut \/ pc[p] # "work")
    BY <1>5 DEF Crash
  <2>2. \A q \in Procs : page'[q] \notin Told => page[q] \notin Told
    BY <2>1, AnswerEnds DEF Waiting
  <2>3. AskedKnow'
    BY <1>2, <2>1, <2>2, AskedKnowStays DEF TruthInv
  <2>4. cut' = FALSE => cut = FALSE /\ pc[p] = "work"
    <3>1. cut \in BOOLEAN
      BY Zenon DEF IInv, TypeOK
    <3> QED BY <2>1, <3>1, Zenon
  <2>5. cut' = FALSE => job' = "running"
    BY <2>1, <2>4 DEF TruthInv, JobTrue
  <2>6. SaveUnseen'
    BY <2>1, <2>4 DEF TruthInv, SaveUnseen
  <2>7. \A q \in Procs : pc'[q] = "work" => job' = "running"
    BY <1>2, <2>1 DEF TruthInv, JobTrue
  <2> QED BY <2>3, <2>5, <2>6, <2>7 DEF TruthInv, JobTrue
<1> QED
  BY <1>3, <1>4, <1>5

LEMMA SaveTruth == ASSUME TruthInv, Save PROVE TruthInv'
<1>1. cut' = TRUE /\ UNCHANGED <<job, pc, elapsed, page, since, fresh>>
  BY DEF Save
<1>2. AskedKnow'
  BY <1>1, AskedKnowStays DEF TruthInv
<1> QED
  BY <1>1, <1>2 DEF TruthInv, SaveUnseen, JobTrue

LEMMA NextTruth ==
  ASSUME ShortRuns, IInv, TruthInv, [Next]_vars
  PROVE  TruthInv'
<1>1. CASE UNCHANGED vars
  BY <1>1 DEF vars, TruthInv, SaveUnseen, AskedKnow, JobTrue, AnyMark
<1>2. CASE \E p \in Procs : Page(p) \/ Handler(p) \/ Worker(p) \/ Crash(p)
  BY <1>2, PageTruth, ClaimTruth, RefuseTruth, MarkTruth, EndTruth DEF Handler, Worker
<1> QED
  BY <1>1, <1>2, TickTruth, SaveTruth DEF Next

\* What a page is told when it is told that the refresh is done.
LEMMA DoneTrue ==
  ASSUME ShortRuns, IInv, TruthInv, Next, NEW p \in Procs,
         page'[p] = "done", page[p] # "done", cut = FALSE
  PROVE  fresh[p] = TRUE
<1> USE LockAssumption DEF ShortRuns
<1>1. /\ page[p] \notin Told => (since < Interval => fresh[p] = TRUE)
      /\ age = since
      /\ age \in Nat /\ lease \in Int /\ elapsed[p] \in 0..MaxRun /\ Released = -MaxRun
  BY DEF TruthInv, AskedKnow, SaveUnseen, IInv, TypeOK, Released
\* A completed job whose lease is over was completed since the page asked.
<1>2. ASSUME Outcome(Status, "failed") = "done" \/ Outcome(Status, page[p]) = "done",
             age >= Interval
      PROVE  job = "completed" /\ lease <= 0
  BY <1>2, <1>1 DEF Outcome, Status
<1>3. AnyMark => lease > 0
  <2> SUFFICES ASSUME NEW q \in Procs, pc[q] = "mark" PROVE lease > 0
    BY DEF AnyMark
  <2>1. lease = Interval - elapsed[q] /\ elapsed[q] \in 0..MaxRun
    BY DEF IInv, HolderClocks, Working, TypeOK
  <2> QED BY <2>1
<1>4. CASE Poll(p)
  <2>1. page[p] \in Waiting /\ page'[p] = Outcome(Status, page[p])
    BY <1>4 DEF Poll, IInv, TypeOK
  <2>2. page[p] \notin Told
    BY <2>1 DEF Waiting, Told
  <2>3. CASE age < Interval
    BY <1>1, <2>2, <2>3
  <2>4. CASE age >= Interval
    <3>1. job = "completed" /\ lease <= 0
      BY <1>2, <2>1, <2>4
    <3>2. fresh[p] = TRUE \/ AnyMark
      BY <2>1, <3>1 DEF TruthInv, JobTrue
    <3>3. ~AnyMark
      BY <1>1, <1>3, <3>1
    <3> QED BY <3>2, <3>3
  <2>5. age < Interval \/ age >= Interval
    BY <1>1
  <2> QED BY <2>3, <2>4, <2>5
<1>5. CASE Refuse(p)
  <2>1. pc[p] = "claim" /\ page[p] = "posting"
    BY <1>5 DEF Refuse, Answer, IInv, TypeOK
  <2>2. Outcome(Status, "failed") = "done" /\ ~InProgress(elapsed[p]) /\ ~CanClaim(elapsed[p])
    BY <1>5, <2>1 DEF Refuse, Answer, IInv, TypeOK
  <2>3. age - elapsed[p] < Interval
    BY <2>2 DEF CanClaim, Recent
  <2> QED BY <1>1, <2>1, <2>3 DEF TruthInv, AskedKnow
<1>6. Poll(p) \/ Refuse(p)
  <2>1. PICK q \in Procs : Page(q) \/ Handler(q) \/ Crash(q)
    <3>1. ~Tick /\ ~Save /\ \A q \in Procs : ~Worker(q)
      BY DEF Tick, Save, Worker, Complete, Fail
    <3> QED BY <3>1 DEF Next
  <2>2. q = p
    BY <2>1 DEF Page, Ask, LosePost, Poll, PollThrows, GiveUp, Handler, Claim,
                ClaimUnacknowledged, Refuse, Mark, MarkFails, Crash, Answer, IInv, TypeOK
  <2>3. ~Ask(p) /\ ~LosePost(p) /\ ~PollThrows(p) /\ ~GiveUp(p)
    BY DEF Ask, LosePost, PollThrows, GiveUp, IInv, TypeOK
  <2>4. ~Claim(p) /\ ~ClaimUnacknowledged(p) /\ ~Mark(p) /\ ~MarkFails(p) /\ ~Crash(p)
    BY DEF Claim, ClaimUnacknowledged, Mark, MarkFails, Crash, Answer, IInv, TypeOK
  <2> QED BY <2>1, <2>2, <2>3, <2>4 DEF Page, Handler
<1> QED
  BY <1>4, <1>5, <1>6

\* Nobody is told that the data are the latest unless they are, as long as no
\* call was cut off and nobody saved: markRefreshComplete (view/[id]/page.tsx)
\* speaks the truth about what deriveDashboardRefreshStatus said.
THEOREM ToldTrue ==
  ASSUME ShortRuns
  PROVE  Spec => ToldTheTruth
<1>1. IInv /\ TruthInv /\ [Next]_vars =>
        [\A p \in Procs : page'[p] = "done" /\ page[p] # "done" => fresh[p] \/ cut]_vars
  <2> SUFFICES ASSUME IInv, TruthInv, Next, NEW p \in Procs,
                      page'[p] = "done", page[p] # "done"
               PROVE  fresh[p] \/ cut
    OBVIOUS
  <2>1. cut \in BOOLEAN
    BY Zenon DEF IInv, TypeOK
  <2>2. cut = FALSE => fresh[p] = TRUE
    BY DoneTrue
  <2> QED BY <2>1, <2>2, Zenon
<1>2. IInv /\ TruthInv /\ [Next]_vars => IInv' /\ TruthInv'
  BY NextIInv, NextTruth
<1>3. Init => IInv /\ TruthInv
  BY InitIInv, InitTruth
<1> QED
  BY <1>1, <1>2, <1>3, PTL DEF Spec, ToldTheTruth

-----------------------------------------------------------------------------
(* Thumbnails. *)

USE ThumbnailsAssumption

-----------------------------------------------------------------------------
(* The inductive invariant. *)

\* A worker has a picture once it has downloaded, and a path once it has saved;
\* the paths it knows have been chosen already.
Holding ==
  /\ called <= Current /\ newest <= Current
  /\ thumb # None => thumb <= time
  /\ \A w \in Workers :
       /\ h[w].old # None => h[w].old <= time
       /\ h[w].pc # "idle" => h[w].pic # None
       /\ h[w].pc # "idle" /\ h[w].pic # Own => h[w].pic <= Current
       /\ h[w].pc = "download" => /\ h[w].pic \in 1..Current
                                  /\ stored[h[w].pic] = h[w].file
       /\ h[w].pc = "update" => /\ h[w].path # None /\ h[w].path <= time
                                /\ blob[h[w].path] = h[w].pic

\* A picture that is not named yet is known to the worker that saved it only,
\* and one that is about to be deleted is not named any more.
Apart ==
  /\ thumb # None => blob[thumb] # None
  /\ \A w \in Workers : h[w].pc = "update" =>
       /\ h[w].path # thumb
       /\ \A x \in Workers : /\ h[x].old # h[w].path
                             /\ x # w /\ h[x].pc = "update" => h[x].path # h[w].path
  /\ \A w \in Workers : h[w].pc = "delete" /\ h[w].old # None => h[w].old # thumb

\* As long as the document has not had a picture of the current content, one is
\* on its way; afterwards it has that one or the owner's.
Coming ==
  there /\ Current \notin unseen =>
    /\ newest = Current => thumb # None /\ blob[thumb] \in {Current, Own}
    /\ newest # Current =>
         \/ called > 0
         \/ \E w \in Workers : /\ h[w].pc \in {"download", "save", "update"}
                               /\ h[w].pic = Current

PictureInv == PictureTypeOK /\ Holding /\ Apart /\ NoneForgotten /\ Coming

-----------------------------------------------------------------------------
(* What the proof knows of the numbers of contents and of the workers. *)

\* Contents are numbered without gaps, and the last one is the current one.
LEMMA CurrentIsLast ==
  ASSUME PictureTypeOK
  PROVE  /\ Current \in Versions
         /\ stored \in [1..Current -> Versions]
<1>1. PICK n \in Versions : stored \in [1..n -> Versions]
  BY DEF PictureTypeOK
<1>2. n \in Nat \ {0}
  BY DEF Versions
<1>3. \A v \in 1..n : (v + 1 \notin 1..n) <=> v = n
  BY <1>2
<1>4. Current = n
  BY <1>1, <1>2, <1>3 DEF Current
<1> QED BY <1>1, <1>4

\* Going live makes one content more and keeps the others where they are.
LEMMA StoresOne ==
  ASSUME PictureTypeOK, NEW f \in Versions, Stores(f)
  PROVE  /\ Current + 1 \in Versions
         /\ Current' = Current + 1
         /\ stored' \in [1..(Current + 1) -> Versions]
         /\ \A v \in 1..Current : stored'[v] = stored[v]
<1>1. PICK n \in Nat \ {0} : Current = n /\ stored \in [1..n -> Versions]
  BY CurrentIsLast DEF Versions
<1>2. /\ stored' = [v \in 1..(n + 1) |-> IF v > n THEN f ELSE stored[v]]
      /\ n < MaxContent
  BY <1>1 DEF Stores
<1>3. n + 1 \in Versions
  BY <1>2 DEF Versions
<1>4. \A v \in 1..(n + 1) : stored'[v] \in Versions
  BY <1>1, <1>2
<1>5. \A v \in 1..(n + 1) : (v + 1 \notin 1..(n + 1)) <=> v = n + 1
  BY <1>1
<1>6. DOMAIN stored' = 1..(n + 1) /\ n + 1 \in 1..(n + 1)
  BY <1>1, <1>2
<1>7. Current' = n + 1
  BY <1>5, <1>6 DEF Current
<1>8. \A v \in 1..n : stored'[v] = stored[v]
  BY <1>1, <1>2
<1> QED BY <1>1, <1>2, <1>3, <1>4, <1>7, <1>8

\* What does not store does not change the current content.
LEMMA CurrentSame == UNCHANGED stored => Current' = Current
BY DEF Current

\* What is in a worker's record.
LEMMA WorkerFields ==
  ASSUME PictureTypeOK, NEW w \in Workers
  PROVE  /\ h[w] \in WorkerState
         /\ h[w].pc \in {"idle", "download", "save", "update", "delete"}
         /\ h[w].old \in Paths \cup {None}
         /\ h[w].file \in 0..MaxContent
         /\ h[w].pic \in Versions \cup {Own, None}
         /\ h[w].path \in Paths \cup {None}
BY DEF PictureTypeOK, WorkerState

LEMMA IdleFields ==
  /\ Idle \in WorkerState
         /\ Idle.pc = "idle" /\ Idle.old = None /\ Idle.pic = None /\ Idle.path = None
BY DEF Idle, WorkerState

\* The invariant holds of a dashboard that has just been created.
LEMMA PictureInvInit ==
  ASSUME PictureInit
  PROVE  PictureInv
<1>1. /\ 1 \in Versions /\ Paths \subseteq Nat /\ Versions \subseteq Nat
  BY DEF Versions, Paths
<1>2. stored \in [1..1 -> Versions] /\ stored[1] = 1
  BY <1>1 DEF PictureInit
<1>3. PictureTypeOK
  <2>1. \E n \in Versions : stored \in [1..n -> Versions]
    BY <1>1, <1>2
  <2>2. h \in [Workers -> WorkerState]
    BY IdleFields DEF PictureInit
  <2>3. /\ called \in 0..MaxContent /\ time \in 0..MaxPaths /\ newest \in 0..MaxContent
    BY DEF PictureInit
  <2>4. /\ there \in BOOLEAN /\ thumb \in Paths \cup {None}
        /\ blob \in [Paths -> Versions \cup {Own, None}]
        /\ unseen \subseteq Versions /\ left \subseteq Paths
    BY DEF PictureInit
  <2> QED BY <2>1, <2>2, <2>3, <2>4 DEF PictureTypeOK
<1>4. Current = 1
  BY <1>2, <1>3, CurrentIsLast DEF Current
<1>5. \A w \in Workers : h[w].pc = "idle" /\ h[w].old = None
  BY IdleFields DEF PictureInit
<1>6. Holding
  BY <1>4, <1>5 DEF PictureInit, Holding
<1>7. Apart
  BY <1>5 DEF PictureInit, Apart
<1>8. NoneForgotten
  BY DEF PictureInit, NoneForgotten
<1>9. Coming
  BY <1>4 DEF PictureInit, Coming
<1> QED BY <1>3, <1>6, <1>7, <1>8, <1>9 DEF PictureInv

-----------------------------------------------------------------------------
(* The dashboard's steps. *)

LEMMA StoresType ==
  ASSUME PictureInv, NEW f \in {1, Current + 1}, Stores(f)
  PROVE  /\ f \in Versions /\ Current \in Versions /\ Current + 1 \in Versions
         /\ Current' = Current + 1
         /\ stored' \in [1..(Current + 1) -> Versions]
         /\ \A v \in 1..Current : stored'[v] = stored[v]
         /\ called + 1 \in 0..MaxContent
<1>1. Current \in Versions /\ Current < MaxContent
  BY CurrentIsLast DEF PictureInv, Stores
<1>2. f \in Versions
  BY <1>1 DEF Versions
<1>3. called \in Nat /\ called <= Current
  BY DEF PictureInv, Holding, PictureTypeOK
<1>4. called + 1 \in 0..MaxContent
  BY <1>1, <1>3 DEF Versions
<1> QED BY <1>1, <1>2, <1>4, StoresOne DEF PictureInv

LEMMA DashboardStep ==
  ASSUME PictureInv, Publish \/ Restore
  PROVE  PictureInv'
<1>0. PictureTypeOK /\ Holding /\ Apart /\ NoneForgotten /\ Coming
  BY DEF PictureInv
<1>1. /\ UNCHANGED <<there, thumb, blob, h, time, newest, left>>
      /\ \/ called' = called + 1 /\ unseen' = unseen
         \/ called' = called /\ unseen' = unseen \cup {Current + 1}
  BY DEF Publish, Restore
<1>2. PICK f \in {1, Current + 1} : Stores(f)
  BY DEF Publish, Restore
<1>3. PICK n \in Versions : Current = n
  BY CurrentIsLast, <1>0
<1>4. /\ n + 1 \in Versions
      /\ Current' = n + 1
      /\ stored' \in [1..(n + 1) -> Versions]
      /\ \A v \in 1..n : stored'[v] = stored[v]
      /\ called + 1 \in 0..MaxContent
  BY <1>2, <1>3, StoresType
<1>5. n \in Nat \ {0} /\ called \in Nat /\ newest \in Nat
  BY <1>0 DEF Versions, PictureTypeOK
<1>6. PictureTypeOK'
  BY <1>0, <1>1, <1>3, <1>4 DEF PictureTypeOK
<1>7. Holding'
  <2>1. /\ called <= n /\ newest <= n /\ called' <= n + 1 /\ newest' <= n + 1
    BY <1>0, <1>1, <1>3, <1>5 DEF Holding
  <2>2. ASSUME NEW w \in Workers
        PROVE  /\ h[w].pc # "idle" /\ h[w].pic # Own => h[w].pic <= n + 1
               /\ h[w].pc = "download" => /\ h[w].pic \in 1..(n + 1)
                                          /\ stored'[h[w].pic] = h[w].file
    <3>1. h[w].pc # "idle" /\ h[w].pic # Own => h[w].pic \in Nat /\ h[w].pic <= n
      BY <1>0, <1>3, WorkerFields DEF Holding, Versions
    <3>2. h[w].pc = "download" => /\ h[w].pic \in 1..n
                                  /\ stored[h[w].pic] = h[w].file
      BY <1>0, <1>3 DEF Holding
    <3> QED BY <3>1, <3>2, <1>4, <1>5
  <2> QED BY <2>1, <2>2, <1>0, <1>1, <1>4 DEF Holding
<1>8. Apart' /\ NoneForgotten'
  BY <1>0, <1>1 DEF Apart, NoneForgotten
<1>9. Coming'
  <2>1. newest <= n
    BY <1>0, <1>3 DEF Holding
  <2>2. CASE called' = called + 1
    BY <2>1, <2>2, <1>1, <1>4, <1>5 DEF Coming
  <2>3. CASE unseen' = unseen \cup {Current + 1}
    BY <2>3, <1>3, <1>4 DEF Coming
  <2> QED BY <1>1, <2>2, <2>3
<1> QED BY <1>6, <1>7, <1>8, <1>9 DEF PictureInv

LEMMA DeleteStep ==
  ASSUME PictureInv, Delete
  PROVE  PictureInv'
<1>1. Current' = Current
  BY CurrentSame DEF Delete
<1>2. PictureTypeOK'
  BY DEF Delete, PictureInv, PictureTypeOK
<1>3. Holding' /\ Apart'
  BY <1>1 DEF Delete, PictureInv, Holding, Apart
<1>4. NoneForgotten' /\ Coming'
  BY DEF Delete, PictureInv, NoneForgotten, Coming
<1> QED BY <1>2, <1>3, <1>4 DEF PictureInv

\* Whoever loses the last call says so.
LEMMA LoseCallStep ==
  ASSUME PictureInv, LoseCall
  PROVE  PictureInv'
<1>0. PictureTypeOK /\ Holding /\ Apart /\ NoneForgotten /\ Coming
  BY DEF PictureInv
<1>1. /\ UNCHANGED <<stored, there, thumb, blob, h, time, newest, left>>
      /\ called > 0 /\ called' = called - 1
      /\ unseen' = IF called = 1 /\ newest < Current THEN unseen \cup {Current} ELSE unseen
  BY DEF LoseCall
<1>2. Current' = Current /\ Current \in Versions
  BY <1>0, <1>1, CurrentSame, CurrentIsLast
<1>3. /\ called \in Nat /\ newest \in Nat /\ Current \in Nat /\ newest <= Current
      /\ called' \in 0..MaxContent /\ called' <= Current
  BY <1>0, <1>1, <1>2 DEF PictureTypeOK, Holding, Versions
<1>4. PictureTypeOK'
  BY <1>0, <1>1, <1>2, <1>3 DEF PictureTypeOK
<1>5. Holding'
  BY <1>0, <1>1, <1>2, <1>3 DEF Holding
<1>6. Apart' /\ NoneForgotten'
  BY <1>0, <1>1 DEF Apart, NoneForgotten
<1>7. Coming'
  <2>1. CASE called = 1 /\ newest < Current
    BY <2>1, <1>1, <1>2 DEF Coming
  <2>2. CASE called # 1 /\ newest < Current
    BY <2>2, <1>0, <1>1, <1>2, <1>3 DEF Coming
  <2>3. CASE newest = Current
    BY <2>3, <1>0, <1>1, <1>2 DEF Coming
  <2> QED BY <1>3, <2>1, <2>2, <2>3
<1> QED BY <1>4, <1>5, <1>6, <1>7 DEF PictureInv

-----------------------------------------------------------------------------
(* The workers' steps. *)

\* What a step of a worker starts from, and that it concerns no other worker.
LEMMA PictureStep ==
  ASSUME PictureInv, NEW w \in Workers, Work(w)
  PROVE  /\ PictureTypeOK /\ Holding /\ Apart /\ NoneForgotten /\ Coming
         /\ Paths \subseteq Nat /\ Versions \subseteq Nat
         /\ None \notin Paths \cup Versions /\ Own \notin Versions \cup {None}
         /\ Current \in Versions /\ Current' = Current
         /\ UNCHANGED <<stored, there>>
         /\ h' = [h EXCEPT ![w] = h'[w]]
         /\ DOMAIN h' = Workers
         /\ \A x \in Workers \ {w} : h'[x] = h[x]
<1>1. UNCHANGED <<stored, there>>
  BY DEF Work, Generate, Download, Upload, SavePicture, Update, Forget, Abandon, doc
<1>2. /\ h' = [h EXCEPT ![w] = h'[w]]
      /\ DOMAIN h' = Workers
      /\ \A x \in Workers \ {w} : h'[x] = h[x]
  <2>1. h \in [Workers -> WorkerState]
    BY DEF PictureInv, PictureTypeOK
  <2>2. \E r : h' = [h EXCEPT ![w] = r]
    BY DEF Work, Generate, Download, Upload, SavePicture, Update, Forget, Abandon
  <2> QED BY <2>1, <2>2
<1>3. Current \in Versions /\ Current' = Current
  BY <1>1, CurrentIsLast, CurrentSame DEF PictureInv
<1>4. /\ Paths \subseteq Nat /\ Versions \subseteq Nat
      /\ None \notin Paths \cup Versions /\ Own \notin Versions \cup {None}
  BY DEF Paths, Versions
<1> QED BY <1>1, <1>2, <1>3, <1>4 DEF PictureInv

\* The types are kept when the new record has its type.
LEMMA PictureTypeStep ==
  ASSUME PictureTypeOK, NEW w \in Workers, UNCHANGED <<stored, there>>,
         h' = [h EXCEPT ![w] = h'[w]], h'[w] \in WorkerState,
         thumb' \in Paths \cup {None},
         blob' \in [Paths -> Versions \cup {Own, None}],
         called' \in 0..MaxContent, time' \in 0..MaxPaths, newest' \in 0..MaxContent,
         unseen' \subseteq Versions, left' \subseteq Paths
  PROVE  PictureTypeOK'
<1>1. h' \in [Workers -> WorkerState]
  BY DEF PictureTypeOK
<1> QED BY <1>1 DEF PictureTypeOK

LEMMA GenerateStep ==
  ASSUME PictureInv, NEW w \in Workers, Generate(w)
  PROVE  PictureInv'
<1>1. /\ PictureTypeOK /\ Holding /\ Apart /\ NoneForgotten /\ Coming
      /\ Paths \subseteq Nat /\ Versions \subseteq Nat
      /\ None \notin Paths \cup Versions /\ Own \notin Versions \cup {None}
      /\ Current \in Versions /\ Current' = Current
      /\ UNCHANGED <<stored, there>>
      /\ h' = [h EXCEPT ![w] = h'[w]]
      /\ \A x \in Workers \ {w} : h'[x] = h[x]
  BY PictureStep DEF Work
<1>2. /\ called > 0 /\ called' = called - 1 /\ h[w].pc = "idle"
      /\ UNCHANGED <<thumb, blob, time, newest, unseen, left>>
      /\ h'[w] = Reads(w)
  BY DEF Generate, doc, PictureTypeOK, PictureInv
<1>3. /\ h'[w].pc = "download" /\ h'[w].old = thumb /\ h'[w].file = stored[Current]
      /\ h'[w].pic = Current /\ h'[w].path = None /\ h'[w] \in WorkerState
  <2>1. stored[Current] \in 0..MaxContent /\ thumb \in Paths \cup {None}
    BY <1>1, CurrentIsLast DEF PictureTypeOK, Versions
  <2> QED BY <1>1, <1>2, <2>1 DEF Reads, Idle, WorkerState
<1>4. called \in Nat /\ Current \in Nat /\ called <= Current /\ Current <= MaxContent
      /\ newest <= Current /\ newest \in Nat
  BY <1>1 DEF PictureTypeOK, Holding, Versions
<1>5. PictureTypeOK'
  <2>1. called' \in 0..MaxContent
    BY <1>2, <1>4 
  <2>2. /\ thumb' \in Paths \cup {None}
        /\ blob' \in [Paths -> Versions \cup {Own, None}]
        /\ time' \in 0..MaxPaths /\ newest' \in 0..MaxContent
        /\ unseen' \subseteq Versions /\ left' \subseteq Paths
    BY <1>1, <1>2 DEF PictureTypeOK
  <2> QED BY <1>1, <1>3, <2>1, <2>2, PictureTypeStep
<1>6. Holding'
  <2>1. called' <= Current' /\ newest' <= Current'
    BY <1>1, <1>2, <1>4
  <2>2. thumb' # None => thumb' <= time'
    BY <1>1, <1>2 DEF Holding
  <2>3. Current \in 1..Current
    BY <1>1, <1>4 DEF Versions
  <2>4. /\ h'[w].old # None => h'[w].old <= time'
        /\ h'[w].pic # None /\ h'[w].pic <= Current'
        /\ h'[w].pic \in 1..Current' /\ stored'[h'[w].pic] = h'[w].file
        /\ h'[w].pc # "update"
    BY <1>1, <1>2, <1>3, <1>4, <2>2, <2>3
  <2>5. ASSUME NEW x \in Workers \ {w}
        PROVE  /\ h'[x].old # None => h'[x].old <= time'
               /\ h'[x].pc # "idle" => h'[x].pic # None
               /\ h'[x].pc # "idle" /\ h'[x].pic # Own => h'[x].pic <= Current'
               /\ h'[x].pc = "download" => /\ h'[x].pic \in 1..Current'
                                           /\ stored'[h'[x].pic] = h'[x].file
               /\ h'[x].pc = "update" => /\ h'[x].path # None /\ h'[x].path <= time'
                                         /\ blob'[h'[x].path] = h'[x].pic
    BY <1>1, <1>2 DEF Holding
  <2> QED BY <2>1, <2>2, <2>4, <2>5 DEF Holding
<1>7. Apart'
  BY <1>1, <1>2, <1>3 DEF Apart
<1>8. NoneForgotten'
  BY <1>1, <1>2 DEF NoneForgotten
<1>9. Coming'
  BY <1>1, <1>2, <1>3 DEF Coming
<1> QED BY <1>5, <1>6, <1>7, <1>8, <1>9 DEF PictureInv

\* Whoever was about to show the current content still is.
LEMMA DownloadStep ==
  ASSUME PictureInv, NEW w \in Workers, Download(w)
  PROVE  PictureInv'
<1>1. /\ PictureTypeOK /\ Holding /\ Apart /\ NoneForgotten /\ Coming
      /\ Paths \subseteq Nat /\ Versions \subseteq Nat
      /\ None \notin Paths \cup Versions /\ Own \notin Versions \cup {None}
      /\ Current \in Versions /\ Current' = Current
      /\ UNCHANGED <<stored, there>>
      /\ h' = [h EXCEPT ![w] = h'[w]]
      /\ \A x \in Workers \ {w} : h'[x] = h[x]
  BY PictureStep DEF Work
<1>2. /\ h[w].pc = "download"
      /\ UNCHANGED <<thumb, blob, called, time, newest, unseen, left>>
  BY DEF Download, doc
<1>3. PICK v \in DOMAIN stored :
        /\ stored[v] = h[w].file
        /\ \A x \in DOMAIN stored : stored[x] = h[w].file => x <= v
        /\ h' = [h EXCEPT ![w] = [h[w] EXCEPT !.pc = "save", !.pic = v]]
  BY DEF Download
<1>4. v \in 1..Current /\ v \in Versions /\ stored \in [1..Current -> Versions]
  BY <1>1, <1>3, CurrentIsLast DEF Versions
<1>5. h[w] \in WorkerState /\ h'[w] = [h[w] EXCEPT !.pc = "save", !.pic = v]
  BY <1>1, <1>3 DEF PictureTypeOK
<1>6. /\ h'[w].pc = "save" /\ h'[w].pic = v /\ h'[w].old = h[w].old
      /\ h'[w].path = h[w].path /\ h'[w] \in WorkerState
  BY <1>4, <1>5 DEF WorkerState
<1>7. h[w].pic = Current => v = Current
  <2>1. h[w].pic \in 1..Current /\ stored[h[w].pic] = h[w].file
    BY <1>1, <1>2 DEF Holding
  <2>2. h[w].pic <= v
    BY <2>1, <1>3, <1>4
  <2>3. Current \in Nat /\ v \in Nat
    BY <1>1, <1>4
  <2>4. v <= Current
    BY <2>3, <1>4
  <2> QED BY <2>2, <2>3, <2>4
<1>8. PictureTypeOK'
  <2>1. /\ thumb' \in Paths \cup {None}
        /\ blob' \in [Paths -> Versions \cup {Own, None}]
        /\ called' \in 0..MaxContent
        /\ time' \in 0..MaxPaths /\ newest' \in 0..MaxContent
        /\ unseen' \subseteq Versions /\ left' \subseteq Paths
    BY <1>1, <1>2 DEF PictureTypeOK
  <2> QED BY <1>1, <1>6, <2>1, PictureTypeStep
<1>9. Holding'
  <2>1. /\ called' <= Current' /\ newest' <= Current'
        /\ thumb' # None => thumb' <= time'
    BY <1>1, <1>2 DEF Holding
  <2>2. /\ h'[w].old # None => h'[w].old <= time'
        /\ h'[w].pic # None /\ h'[w].pic <= Current'
        /\ h'[w].pc # "update" /\ h'[w].pc # "download"
    BY <1>1, <1>2, <1>4, <1>6 DEF Holding
  <2>3. ASSUME NEW x \in Workers \ {w}
        PROVE  /\ h'[x].old # None => h'[x].old <= time'
               /\ h'[x].pc # "idle" => h'[x].pic # None
               /\ h'[x].pc # "idle" /\ h'[x].pic # Own => h'[x].pic <= Current'
               /\ h'[x].pc = "download" => /\ h'[x].pic \in 1..Current'
                                           /\ stored'[h'[x].pic] = h'[x].file
               /\ h'[x].pc = "update" => /\ h'[x].path # None /\ h'[x].path <= time'
                                         /\ blob'[h'[x].path] = h'[x].pic
    BY <1>1, <1>2 DEF Holding
  <2> QED BY <2>1, <2>2, <2>3 DEF Holding
<1>10. Apart' /\ NoneForgotten'
  BY <1>1, <1>2, <1>6 DEF Apart, NoneForgotten
<1>11. Coming'
  BY <1>1, <1>2, <1>6, <1>7 DEF Coming
<1> QED BY <1>8, <1>9, <1>10, <1>11 DEF PictureInv

LEMMA UploadStep ==
  ASSUME PictureInv, NEW w \in Workers, Upload(w)
  PROVE  PictureInv'
<1>1. /\ PictureTypeOK /\ Holding /\ Apart /\ NoneForgotten /\ Coming
      /\ Paths \subseteq Nat /\ Versions \subseteq Nat
      /\ None \notin Paths \cup Versions /\ Own \notin Versions \cup {None}
      /\ Current \in Versions /\ Current' = Current
      /\ UNCHANGED <<stored, there>>
      /\ h' = [h EXCEPT ![w] = h'[w]]
      /\ \A x \in Workers \ {w} : h'[x] = h[x]
  BY PictureStep DEF Work
<1>2. /\ h[w].pc = "idle"
      /\ UNCHANGED <<thumb, blob, called, time, newest, unseen, left>>
      /\ h'[w] = [Idle EXCEPT !.pc = "save", !.old = thumb, !.pic = Own]
  BY DEF Upload, doc, PictureTypeOK, PictureInv
<1>3. /\ h'[w].pc = "save" /\ h'[w].old = thumb /\ h'[w].pic = Own
      /\ h'[w].path = None /\ h'[w] \in WorkerState
  <2>1. thumb \in Paths \cup {None} /\ 0 \in 0..MaxContent
    BY <1>1 DEF PictureTypeOK
  <2> QED BY <1>2, <2>1 DEF Idle, WorkerState
<1>4. PictureTypeOK'
  <2>1. /\ thumb' \in Paths \cup {None}
        /\ blob' \in [Paths -> Versions \cup {Own, None}]
        /\ called' \in 0..MaxContent
        /\ time' \in 0..MaxPaths /\ newest' \in 0..MaxContent
        /\ unseen' \subseteq Versions /\ left' \subseteq Paths
    BY <1>1, <1>2 DEF PictureTypeOK
  <2> QED BY <1>1, <1>3, <2>1, PictureTypeStep
<1>5. Holding'
  <2>1. /\ called' <= Current' /\ newest' <= Current'
        /\ thumb' # None => thumb' <= time'
    BY <1>1, <1>2 DEF Holding
  <2>2. /\ h'[w].old # None => h'[w].old <= time'
        /\ h'[w].pic = Own /\ h'[w].pic # None
        /\ h'[w].pc # "update" /\ h'[w].pc # "download"
    BY <2>1, <1>1, <1>2, <1>3
  <2>3. ASSUME NEW x \in Workers \ {w}
        PROVE  /\ h'[x].old # None => h'[x].old <= time'
               /\ h'[x].pc # "idle" => h'[x].pic # None
               /\ h'[x].pc # "idle" /\ h'[x].pic # Own => h'[x].pic <= Current'
               /\ h'[x].pc = "download" => /\ h'[x].pic \in 1..Current'
                                           /\ stored'[h'[x].pic] = h'[x].file
               /\ h'[x].pc = "update" => /\ h'[x].path # None /\ h'[x].path <= time'
                                         /\ blob'[h'[x].path] = h'[x].pic
    BY <1>1, <1>2 DEF Holding
  <2> QED BY <2>1, <2>2, <2>3 DEF Holding
<1>6. Apart'
  <2>1. ASSUME NEW x \in Workers, h'[x].pc = "update"
        PROVE  /\ h'[x].path # thumb'
               /\ \A y \in Workers : /\ h'[y].old # h'[x].path
                                     /\ y # x /\ h'[y].pc = "update" =>
                                         h'[y].path # h'[x].path
    <3>1. x # w /\ h'[x] = h[x] /\ thumb' = thumb
      BY <1>1, <1>2, <1>3, <2>1
    <3>2. h[x].path # thumb
      BY <3>1, <2>1, <1>1 DEF Apart
    <3>3. \A y \in Workers \ {w} : /\ h[y].old # h[x].path
                                   /\ y # x /\ h[y].pc = "update" =>
                                        h[y].path # h[x].path
      BY <3>1, <2>1, <1>1 DEF Apart
    <3> QED BY <3>1, <3>2, <3>3, <1>1, <1>3
  <2>2. ASSUME NEW x \in Workers, h'[x].pc = "delete", h'[x].old # None
        PROVE  h'[x].old # thumb'
    BY <2>2, <1>1, <1>2, <1>3 DEF Apart
  <2>3. thumb' # None => blob'[thumb'] # None
    BY <1>1, <1>2 DEF Apart
  <2> QED BY <2>1, <2>2, <2>3 DEF Apart
<1>7. NoneForgotten'
  BY <1>1, <1>2, <1>3 DEF NoneForgotten
<1>8. Coming'
  BY <1>1, <1>2, <1>3 DEF Coming
<1> QED BY <1>4, <1>5, <1>6, <1>7, <1>8 DEF PictureInv

\* The picture is saved under a path that nobody knows yet.
LEMMA SavePictureStep ==
  ASSUME PictureInv, NEW w \in Workers, SavePicture(w)
  PROVE  PictureInv'
<1>1. /\ PictureTypeOK /\ Holding /\ Apart /\ NoneForgotten /\ Coming
      /\ Paths \subseteq Nat /\ Versions \subseteq Nat
      /\ None \notin Paths \cup Versions /\ Own \notin Versions \cup {None}
      /\ Current \in Versions /\ Current' = Current
      /\ UNCHANGED <<stored, there>>
      /\ h' = [h EXCEPT ![w] = h'[w]]
      /\ \A x \in Workers \ {w} : h'[x] = h[x]
  BY PictureStep DEF Work
<1>2. /\ h[w].pc = "save" /\ time < MaxPaths /\ time' = time + 1
      /\ UNCHANGED <<thumb, called, newest, unseen, left>>
      /\ blob' = [blob EXCEPT ![time + 1] = h[w].pic]
      /\ h' = [h EXCEPT ![w] = [h[w] EXCEPT !.pc = "update", !.path = time + 1]]
  BY DEF SavePicture, doc
<1>3. PICK p \in Paths : p = time + 1 /\ time \in Nat
  BY <1>1, <1>2 DEF PictureTypeOK, Paths
<1>4. /\ time' = p /\ p # None /\ p \in Nat
      /\ blob'[p] = h[w].pic
      /\ \A q \in Paths \ {p} : blob'[q] = blob[q]
      /\ DOMAIN blob = Paths
  BY <1>1, <1>2, <1>3 DEF PictureTypeOK
<1>5. h[w] \in WorkerState /\ h'[w] = [h[w] EXCEPT !.pc = "update", !.path = p]
  BY <1>1, <1>2, <1>3 DEF PictureTypeOK
<1>6. /\ h'[w].pc = "update" /\ h'[w].pic = h[w].pic /\ h'[w].old = h[w].old
      /\ h'[w].path = p /\ h'[w] \in WorkerState
  BY <1>5 DEF WorkerState
<1>7. /\ \A q \in Paths : q <= time => q # p /\ q <= time'
      /\ thumb # None => thumb \in Paths /\ thumb <= time /\ thumb # p
      /\ \A x \in Workers :
           /\ h[x].old \in Paths \cup {None}
           /\ h[x].path \in Paths \cup {None}
           /\ h[x].old # None => h[x].old <= time /\ h[x].old # p /\ h[x].old <= time'
           /\ h[x].pc = "update" => /\ h[x].path \in Paths /\ h[x].path <= time
                                    /\ h[x].path # p /\ h[x].path <= time'
  <2>1. ASSUME NEW q \in Paths, q <= time
        PROVE  q # p /\ q <= time'
    <3>1. q \in Nat /\ time \in Nat /\ p = time + 1 /\ time' = p
      BY <1>1, <1>3, <1>4
    <3> QED BY <2>1, <3>1
  <2>2. thumb # None => thumb \in Paths /\ thumb <= time
    BY <1>1 DEF PictureTypeOK, Holding
  <2>3. ASSUME NEW x \in Workers
        PROVE  /\ h[x].old \in Paths \cup {None}
               /\ h[x].path \in Paths \cup {None}
               /\ h[x].old # None => h[x].old \in Paths /\ h[x].old <= time
               /\ h[x].pc = "update" => h[x].path \in Paths /\ h[x].path <= time
    BY <1>1, WorkerFields DEF Holding
  <2> QED BY <2>1, <2>2, <2>3
<1>8. PictureTypeOK'
  <2>1. h[w].pic \in Versions \cup {Own, None}
    BY <1>1, WorkerFields
  <2>2. blob' \in [Paths -> Versions \cup {Own, None}]
    BY <1>1, <1>2, <1>3, <2>1 DEF PictureTypeOK
  <2>3. time' \in 0..MaxPaths
    BY <1>3, <1>4 DEF Paths
  <2>4. /\ thumb' \in Paths \cup {None} /\ called' \in 0..MaxContent
        /\ newest' \in 0..MaxContent
        /\ unseen' \subseteq Versions /\ left' \subseteq Paths
    BY <1>1, <1>2 DEF PictureTypeOK
  <2> QED BY <1>1, <1>6, <2>2, <2>3, <2>4, PictureTypeStep
<1>9. Holding'
  <2>1. /\ called' <= Current' /\ newest' <= Current'
        /\ thumb' # None => thumb' <= time'
    BY <1>1, <1>2, <1>7 DEF Holding
  <2>2. /\ h'[w].old # None => h'[w].old <= time'
        /\ h'[w].pic # None
        /\ h'[w].pic # Own => h'[w].pic <= Current'
        /\ h'[w].pc # "download"
        /\ h'[w].path # None /\ h'[w].path <= time'
        /\ blob'[h'[w].path] = h'[w].pic
    BY <1>1, <1>2, <1>3, <1>4, <1>6, <1>7 DEF Holding
  <2>3. ASSUME NEW x \in Workers \ {w}
        PROVE  /\ h'[x].old # None => h'[x].old <= time'
               /\ h'[x].pc # "idle" => h'[x].pic # None
               /\ h'[x].pc # "idle" /\ h'[x].pic # Own => h'[x].pic <= Current'
               /\ h'[x].pc = "download" => /\ h'[x].pic \in 1..Current'
                                           /\ stored'[h'[x].pic] = h'[x].file
               /\ h'[x].pc = "update" => /\ h'[x].path # None /\ h'[x].path <= time'
                                         /\ blob'[h'[x].path] = h'[x].pic
    <3>1. h'[x] = h[x]
      BY <1>1
    <3>2. h[x].pc = "update" => /\ h[x].path # None /\ h[x].path <= time'
                                /\ blob'[h[x].path] = h[x].pic
      BY <1>1, <1>4, <1>7 DEF Holding
    <3> QED BY <3>1, <3>2, <1>1, <1>7 DEF Holding
  <2> QED BY <2>1, <2>2, <2>3 DEF Holding
<1>10. Apart'
  <2>1. thumb' # None => blob'[thumb'] # None
    BY <1>1, <1>2, <1>4, <1>7 DEF Apart
  <2>2. ASSUME NEW x \in Workers, h'[x].pc = "update"
        PROVE  /\ h'[x].path # thumb'
               /\ \A y \in Workers : /\ h'[y].old # h'[x].path
                                     /\ y # x /\ h'[y].pc = "update" =>
                                         h'[y].path # h'[x].path
    <3>1. \A y \in Workers : h'[y].old = h[y].old
      BY <1>1, <1>6
    <3>2. CASE x = w
      BY <3>1, <3>2, <1>1, <1>2, <1>4, <1>6, <1>7
    <3>3. CASE x # w
      BY <3>1, <3>3, <2>2, <1>1, <1>2, <1>6, <1>7 DEF Apart
    <3> QED BY <3>2, <3>3
  <2>3. ASSUME NEW x \in Workers, h'[x].pc = "delete", h'[x].old # None
        PROVE  h'[x].old # thumb'
    BY <2>3, <1>1, <1>2, <1>6 DEF Apart
  <2> QED BY <2>1, <2>2, <2>3 DEF Apart
<1>11. NoneForgotten'
  <2> SUFFICES ASSUME NEW q \in Paths, blob'[q] # None
               PROVE  \/ q = thumb'
                      \/ q \in left'
                      \/ \E x \in Workers : \/ h'[x].pc = "update" /\ h'[x].path = q
                                            \/ h'[x].pc = "delete" /\ h'[x].old = q
    BY DEF NoneForgotten
  <2>1. CASE q = p
    BY <2>1, <1>6
  <2>2. CASE q # p
    BY <2>2, <1>1, <1>2, <1>4 DEF NoneForgotten
  <2> QED BY <2>1, <2>2
<1>12. Coming'
  <2>1. thumb' # None => blob'[thumb'] = blob[thumb]
    BY <1>2, <1>4, <1>7
  <2> QED BY <2>1, <1>1, <1>2, <1>6 DEF Coming
<1> QED BY <1>8, <1>9, <1>10, <1>11, <1>12 DEF PictureInv

\* The document gets the new picture; the one it had is the writer's to delete,
\* or it is left.
LEMMA ShowPictureStep ==
  ASSUME PictureInv, NEW w \in Workers, Update(w)
  PROVE  PictureInv'
<1>1. /\ PictureTypeOK /\ Holding /\ Apart /\ NoneForgotten /\ Coming
      /\ Paths \subseteq Nat /\ Versions \subseteq Nat
      /\ None \notin Paths \cup Versions /\ Own \notin Versions \cup {None}
      /\ Current \in Versions /\ Current' = Current
      /\ UNCHANGED <<stored, there>>
      /\ h' = [h EXCEPT ![w] = h'[w]]
      /\ \A x \in Workers \ {w} : h'[x] = h[x]
  BY PictureStep DEF Work
<1>2. /\ h[w].pc = "update"
      /\ UNCHANGED <<blob, called, time>>
      /\ thumb' = h[w].path
      /\ left' = IF thumb \in {None, h[w].old} THEN left ELSE left \cup {thumb}
      /\ newest' = IF h[w].pic # Own /\ h[w].pic > newest THEN h[w].pic ELSE newest
      /\ unseen' = IF h[w].pic # Own /\ h[w].pic < newest THEN unseen \cup {newest}
                   ELSE unseen \ {h[w].pic}
      /\ h' = [h EXCEPT ![w] = [h[w] EXCEPT !.pc = "delete"]]
  BY DEF Update
<1>3. h[w] \in WorkerState /\ h'[w] = [h[w] EXCEPT !.pc = "delete"]
  BY <1>1, <1>2 DEF PictureTypeOK
<1>4. /\ h'[w].pc = "delete" /\ h'[w].pic = h[w].pic /\ h'[w].old = h[w].old
      /\ h'[w].path = h[w].path /\ h'[w] \in WorkerState
  BY <1>3 DEF WorkerState
<1>5. /\ h[w].path \in Paths /\ h[w].path # None /\ h[w].path <= time
      /\ blob[h[w].path] = h[w].pic /\ h[w].pic # None
      /\ h[w].pic \in Versions \cup {Own}
      /\ h[w].pic # Own => h[w].pic \in Versions /\ h[w].pic <= Current
  BY <1>1, <1>2, WorkerFields DEF Holding
<1>6. /\ newest \in Nat /\ newest <= Current /\ Current \in Nat /\ Current <= MaxContent
      /\ newest' \in Nat /\ newest' <= Current
      /\ newest \in Versions \cup {0}
  BY <1>1, <1>2, <1>5 DEF PictureTypeOK, Holding, Versions
<1>7. PictureTypeOK'
  <2>1. unseen' \subseteq Versions
    <3>1. h[w].pic # Own /\ h[w].pic < newest => newest \in Versions
      BY <1>1, <1>5, <1>6 DEF Versions
    <3> QED BY <3>1, <1>1, <1>2 DEF PictureTypeOK
  <2>2. left' \subseteq Paths /\ thumb' \in Paths \cup {None}
    BY <1>1, <1>2, <1>5 DEF PictureTypeOK
  <2>3. newest' \in 0..MaxContent
    BY <1>6 
  <2>4. /\ blob' \in [Paths -> Versions \cup {Own, None}]
        /\ called' \in 0..MaxContent /\ time' \in 0..MaxPaths
    BY <1>1, <1>2 DEF PictureTypeOK
  <2> QED BY <1>1, <1>4, <2>1, <2>2, <2>3, <2>4, PictureTypeStep
<1>8. Holding'
  <2>1. /\ called' <= Current' /\ newest' <= Current'
        /\ thumb' # None => thumb' <= time'
    BY <1>1, <1>2, <1>5, <1>6 DEF Holding
  <2>2. /\ h'[w].old # None => h'[w].old <= time'
        /\ h'[w].pic # None
        /\ h'[w].pic # Own => h'[w].pic <= Current'
        /\ h'[w].pc # "download" /\ h'[w].pc # "update"
    BY <1>1, <1>2, <1>4, <1>5 DEF Holding
  <2>3. ASSUME NEW x \in Workers \ {w}
        PROVE  /\ h'[x].old # None => h'[x].old <= time'
               /\ h'[x].pc # "idle" => h'[x].pic # None
               /\ h'[x].pc # "idle" /\ h'[x].pic # Own => h'[x].pic <= Current'
               /\ h'[x].pc = "download" => /\ h'[x].pic \in 1..Current'
                                           /\ stored'[h'[x].pic] = h'[x].file
               /\ h'[x].pc = "update" => /\ h'[x].path # None /\ h'[x].path <= time'
                                         /\ blob'[h'[x].path] = h'[x].pic
    BY <1>1, <1>2 DEF Holding
  <2> QED BY <2>1, <2>2, <2>3 DEF Holding
<1>9. Apart'
  <2>1. thumb' # None => blob'[thumb'] # None
    BY <1>2, <1>5
  <2>2. ASSUME NEW x \in Workers, h'[x].pc = "update"
        PROVE  /\ h'[x].path # thumb'
               /\ \A y \in Workers : /\ h'[y].old # h'[x].path
                                     /\ y # x /\ h'[y].pc = "update" =>
                                         h'[y].path # h'[x].path
    <3>1. \A y \in Workers : h'[y].old = h[y].old /\ h'[y].path = h[y].path
      BY <1>1, <1>4
    <3>2. x # w /\ h[x].pc = "update"
      BY <2>2, <1>1, <1>4
    <3>3. \A y \in Workers : h[y].old # h[x].path
      BY <1>1, <3>2 DEF Apart
    <3>4. \A y \in Workers : y # x /\ h[y].pc = "update" => h[y].path # h[x].path
      BY <1>1, <3>2 DEF Apart
    <3>5. \A y \in Workers : h'[y].pc = "update" => h[y].pc = "update"
      BY <1>1, <1>4
    <3>6. h[x].path # h[w].path
      BY <1>2, <3>2, <3>4
    <3> QED BY <1>2, <3>1, <3>3, <3>4, <3>5, <3>6
  <2>3. ASSUME NEW x \in Workers, h'[x].pc = "delete", h'[x].old # None
        PROVE  h'[x].old # thumb'
    <3>1. h'[x].old = h[x].old
      BY <1>1, <1>4
    <3> QED BY <3>1, <1>1, <1>2 DEF Apart
  <2> QED BY <2>1, <2>2, <2>3 DEF Apart
<1>10. NoneForgotten'
  <2> SUFFICES ASSUME NEW q \in Paths, blob[q] # None
               PROVE  \/ q = thumb'
                      \/ q \in left'
                      \/ \E x \in Workers : \/ h'[x].pc = "update" /\ h'[x].path = q
                                            \/ h'[x].pc = "delete" /\ h'[x].old = q
    BY <1>2 DEF NoneForgotten
  <2>1. CASE q = thumb
    <3>1. CASE q = h[w].old
      BY <3>1, <1>4
    <3>2. CASE q # h[w].old
      BY <2>1, <3>2, <1>1, <1>2
    <3> QED BY <3>1, <3>2
  <2>2. CASE q \in left
    BY <2>2, <1>2
  <2>3. CASE \E x \in Workers : \/ h[x].pc = "update" /\ h[x].path = q
                                \/ h[x].pc = "delete" /\ h[x].old = q
    BY <2>3, <1>1, <1>2
  <2> QED BY <2>1, <2>2, <2>3, <1>1 DEF NoneForgotten
<1>11. Coming'
  <2> SUFFICES ASSUME there, Current \notin unseen'
               PROVE  /\ newest' = Current => thumb' # None /\ blob[thumb'] \in {Current, Own}
                      /\ newest' # Current =>
                         \/ called > 0
                         \/ \E x \in Workers : /\ h'[x].pc \in {"download", "save", "update"}
                                               /\ h'[x].pic = Current
    BY <1>1, <1>2 DEF Coming
  <2>1. CASE h[w].pic = Current
    <3>1. h[w].pic # Own /\ (newest < Current \/ newest = Current)
      BY <2>1, <1>1, <1>6
    <3>2. newest' = Current
      BY <2>1, <3>1, <1>2, <1>6
    <3> QED BY <2>1, <3>2, <1>2, <1>5
  <2>2. CASE h[w].pic = Own
    <3>1. newest' = newest /\ unseen' = unseen \ {Own}
      BY <2>2, <1>2
    <3>2. Current \notin unseen
      BY <3>1, <1>1
    <3>3. \A x \in Workers : h[x].pic = Current => x # w
      BY <2>2, <1>1
    <3> QED BY <2>2, <3>1, <3>2, <3>3, <1>1, <1>2, <1>5 DEF Coming
  <2>3. CASE h[w].pic \in Versions /\ h[w].pic # Current
    <3>1. h[w].pic # Own /\ h[w].pic < Current /\ h[w].pic \in Nat
      <4>1. h[w].pic # Own /\ h[w].pic \in Nat
        BY <2>3, <1>1
      <4>2. h[w].pic <= Current
        BY <4>1, <1>5
      <4> QED BY <4>1, <4>2, <2>3, <1>6
    <3>2. newest # Current
      BY <3>1, <1>2, <1>6
    <3>3. Current \notin unseen
      BY <2>3, <3>1, <3>2, <1>2
    <3>4. newest' # Current
      BY <3>1, <3>2, <1>2
    <3>5. \/ called > 0
          \/ \E x \in Workers : /\ h[x].pc \in {"download", "save", "update"}
                                /\ h[x].pic = Current
      BY <3>2, <3>3, <1>1 DEF Coming
    <3> QED BY <2>3, <3>4, <3>5, <1>1
  <2> QED BY <2>1, <2>2, <2>3, <1>5
<1> QED BY <1>7, <1>8, <1>9, <1>10, <1>11 DEF PictureInv

\* The old picture is deleted, which the document does not name any more.
LEMMA ForgetStep ==
  ASSUME PictureInv, NEW w \in Workers, Forget(w)
  PROVE  PictureInv'
<1>1. /\ PictureTypeOK /\ Holding /\ Apart /\ NoneForgotten /\ Coming
      /\ Paths \subseteq Nat /\ Versions \subseteq Nat
      /\ None \notin Paths \cup Versions /\ Own \notin Versions \cup {None}
      /\ Current \in Versions /\ Current' = Current
      /\ UNCHANGED <<stored, there>>
      /\ h' = [h EXCEPT ![w] = h'[w]]
      /\ \A x \in Workers \ {w} : h'[x] = h[x]
  BY PictureStep DEF Work
<1>2. /\ h[w].pc = "delete"
      /\ UNCHANGED <<thumb, called, time, newest, unseen, left>>
      /\ blob' = [p \in Paths |-> IF p = h[w].old THEN None ELSE blob[p]]
      /\ h'[w] = Idle
  BY DEF Forget, Previous, doc, PictureTypeOK, PictureInv
<1>3. h'[w].pc = "idle" /\ h'[w].old = None /\ h'[w] \in WorkerState
  BY <1>2, IdleFields
<1>4. \A p \in Paths : p # h[w].old => blob'[p] = blob[p]
  BY <1>2
<1>5. /\ thumb # None => thumb \in Paths /\ blob'[thumb] = blob[thumb]
      /\ \A x \in Workers : h[x].pc = "update" =>
           h[x].path \in Paths /\ blob'[h[x].path] = blob[h[x].path]
  <2>1. thumb # None => thumb \in Paths /\ thumb # h[w].old
    BY <1>1, <1>2 DEF PictureTypeOK, Apart
  <2>2. ASSUME NEW x \in Workers, h[x].pc = "update"
        PROVE  h[x].path \in Paths /\ h[x].path # h[w].old
    BY <2>2, <1>1, WorkerFields DEF Holding, Apart
  <2> QED BY <2>1, <2>2, <1>4
<1>6. PictureTypeOK'
  <2>1. blob' \in [Paths -> Versions \cup {Own, None}]
    BY <1>1, <1>2 DEF PictureTypeOK
  <2>2. /\ thumb' \in Paths \cup {None}
        /\ called' \in 0..MaxContent
        /\ time' \in 0..MaxPaths /\ newest' \in 0..MaxContent
        /\ unseen' \subseteq Versions /\ left' \subseteq Paths
    BY <1>1, <1>2 DEF PictureTypeOK
  <2> QED BY <1>1, <1>3, <2>1, <2>2, PictureTypeStep
<1>7. Holding'
  <2>1. /\ called' <= Current' /\ newest' <= Current'
        /\ thumb' # None => thumb' <= time'
    BY <1>1, <1>2 DEF Holding
  <2>2. ASSUME NEW x \in Workers \ {w}
        PROVE  /\ h'[x].old # None => h'[x].old <= time'
               /\ h'[x].pc # "idle" => h'[x].pic # None
               /\ h'[x].pc # "idle" /\ h'[x].pic # Own => h'[x].pic <= Current'
               /\ h'[x].pc = "download" => /\ h'[x].pic \in 1..Current'
                                           /\ stored'[h'[x].pic] = h'[x].file
               /\ h'[x].pc = "update" => /\ h'[x].path # None /\ h'[x].path <= time'
                                         /\ blob'[h'[x].path] = h'[x].pic
    BY <1>1, <1>2, <1>5 DEF Holding
  <2> QED BY <2>1, <2>2, <1>3 DEF Holding
<1>8. Apart'
  <2>1. thumb' # None => blob'[thumb'] # None
    BY <1>1, <1>2, <1>5 DEF Apart
  <2>2. ASSUME NEW x \in Workers, h'[x].pc = "update"
        PROVE  /\ h'[x].path # thumb'
               /\ \A y \in Workers : /\ h'[y].old # h'[x].path
                                     /\ y # x /\ h'[y].pc = "update" =>
                                          h'[y].path # h'[x].path
    <3>1. x # w /\ h'[x] = h[x]
      BY <2>2, <1>1, <1>3
    <3>2. h[x].path \in Paths
      BY <2>2, <3>1, <1>5
    <3> QED BY <2>2, <3>1, <3>2, <1>1, <1>2, <1>3 DEF Apart
  <2>3. ASSUME NEW x \in Workers, h'[x].pc = "delete", h'[x].old # None
        PROVE  h'[x].old # thumb'
    BY <2>3, <1>1, <1>2, <1>3 DEF Apart
  <2> QED BY <2>1, <2>2, <2>3 DEF Apart
<1>9. NoneForgotten'
  <2> SUFFICES ASSUME NEW q \in Paths, blob'[q] # None
               PROVE  \/ q = thumb
                      \/ q \in left
                      \/ \E x \in Workers : \/ h'[x].pc = "update" /\ h'[x].path = q
                                            \/ h'[x].pc = "delete" /\ h'[x].old = q
    BY <1>2 DEF NoneForgotten
  <2>1. q # h[w].old /\ blob[q] # None
    BY <1>2
  <2> QED BY <2>1, <1>1, <1>2 DEF NoneForgotten
<1>10. Coming'
  BY <1>1, <1>2, <1>3, <1>5 DEF Coming
<1> QED BY <1>6, <1>7, <1>8, <1>9, <1>10 DEF PictureInv

\* Whoever fails leaves his picture and says that it is not seen.
LEMMA AbandonStep ==
  ASSUME PictureInv, NEW w \in Workers, Abandon(w)
  PROVE  PictureInv'
<1>1. /\ PictureTypeOK /\ Holding /\ Apart /\ NoneForgotten /\ Coming
      /\ Paths \subseteq Nat /\ Versions \subseteq Nat
      /\ None \notin Paths \cup Versions /\ Own \notin Versions \cup {None}
      /\ Current \in Versions /\ Current' = Current
      /\ UNCHANGED <<stored, there>>
      /\ h' = [h EXCEPT ![w] = h'[w]]
      /\ \A x \in Workers \ {w} : h'[x] = h[x]
  BY PictureStep DEF Work
<1>2. /\ h[w].pc # "idle"
      /\ UNCHANGED <<thumb, blob, called, time, newest>>
      /\ h'[w] = Idle
      /\ unseen' = IF h[w].pc # "delete" /\ h[w].pic # Own /\ h[w].pic > newest
                   THEN unseen \cup {h[w].pic} ELSE unseen
  BY DEF Abandon, doc, PictureTypeOK, PictureInv
<1>3. h'[w].pc = "idle" /\ h'[w].old = None /\ h'[w] \in WorkerState
  BY <1>2, IdleFields
<1>4. /\ h[w].pc = "update" => left' = left \cup {h[w].path}
      /\ h[w].pc = "delete" => left' = left \cup ({h[w].old} \ {None})
      /\ h[w].pc \in {"download", "save"} => left' = left
  BY DEF Abandon
<1>5. /\ h[w].pc \in {"download", "save", "update", "delete"}
      /\ h[w].pc = "update" => h[w].path \in Paths
      /\ h[w].old \in Paths \cup {None}
      /\ h[w].pic # None
      /\ h[w].pic \in Versions \cup {Own}
      /\ h[w].pic # Own => h[w].pic <= Current
  BY <1>1, <1>2, WorkerFields DEF Holding
<1>6. left \subseteq left' /\ left' \subseteq Paths
  BY <1>1, <1>4, <1>5 DEF PictureTypeOK
<1>7. PictureTypeOK'
  <2>1. unseen' \subseteq Versions
    BY <1>1, <1>2, <1>5 DEF PictureTypeOK
  <2>2. /\ thumb' \in Paths \cup {None}
        /\ blob' \in [Paths -> Versions \cup {Own, None}]
        /\ called' \in 0..MaxContent
        /\ time' \in 0..MaxPaths /\ newest' \in 0..MaxContent
    BY <1>1, <1>2 DEF PictureTypeOK
  <2> QED BY <1>1, <1>3, <1>6, <2>1, <2>2, PictureTypeStep
<1>8. Holding'
  <2>1. /\ called' <= Current' /\ newest' <= Current'
        /\ thumb' # None => thumb' <= time'
    BY <1>1, <1>2 DEF Holding
  <2>2. ASSUME NEW x \in Workers \ {w}
        PROVE  /\ h'[x].old # None => h'[x].old <= time'
               /\ h'[x].pc # "idle" => h'[x].pic # None
               /\ h'[x].pc # "idle" /\ h'[x].pic # Own => h'[x].pic <= Current'
               /\ h'[x].pc = "download" => /\ h'[x].pic \in 1..Current'
                                           /\ stored'[h'[x].pic] = h'[x].file
               /\ h'[x].pc = "update" => /\ h'[x].path # None /\ h'[x].path <= time'
                                         /\ blob'[h'[x].path] = h'[x].pic
    BY <1>1, <1>2 DEF Holding
  <2> QED BY <2>1, <2>2, <1>3 DEF Holding
<1>9. Apart'
  <2>1. thumb' # None => blob'[thumb'] # None
    BY <1>1, <1>2 DEF Apart
  <2>2. ASSUME NEW x \in Workers, h'[x].pc = "update"
        PROVE  /\ h'[x].path # thumb'
               /\ \A y \in Workers : /\ h'[y].old # h'[x].path
                                     /\ y # x /\ h'[y].pc = "update" =>
                                          h'[y].path # h'[x].path
    <3>1. x # w /\ h'[x] = h[x]
      BY <2>2, <1>1, <1>3
    <3>2. h[x].path # None
      BY <2>2, <3>1, <1>1 DEF Holding
    <3> QED BY <2>2, <3>1, <3>2, <1>1, <1>2, <1>3 DEF Apart
  <2>3. ASSUME NEW x \in Workers, h'[x].pc = "delete", h'[x].old # None
        PROVE  h'[x].old # thumb'
    BY <2>3, <1>1, <1>2, <1>3 DEF Apart
  <2> QED BY <2>1, <2>2, <2>3 DEF Apart
<1>10. NoneForgotten'
  <2> SUFFICES ASSUME NEW q \in Paths, blob[q] # None
               PROVE  \/ q = thumb
                      \/ q \in left'
                      \/ \E x \in Workers : \/ h'[x].pc = "update" /\ h'[x].path = q
                                            \/ h'[x].pc = "delete" /\ h'[x].old = q
    BY <1>2 DEF NoneForgotten
  <2>1. CASE \/ h[w].pc = "update" /\ h[w].path = q
             \/ h[w].pc = "delete" /\ h[w].old = q
    BY <2>1, <1>1, <1>4
  <2>2. CASE ~ (\/ h[w].pc = "update" /\ h[w].path = q
                \/ h[w].pc = "delete" /\ h[w].old = q)
    BY <2>2, <1>1, <1>6 DEF NoneForgotten
  <2> QED BY <2>1, <2>2
<1>11. Coming'
  <2> SUFFICES ASSUME there, Current \notin unseen'
               PROVE  /\ newest = Current => thumb # None /\ blob[thumb] \in {Current, Own}
                      /\ newest # Current =>
                         \/ called > 0
                         \/ \E x \in Workers : /\ h'[x].pc \in {"download", "save", "update"}
                                               /\ h'[x].pic = Current
    BY <1>1, <1>2 DEF Coming
  <2>1. Current \notin unseen
    BY <1>2
  <2>2. CASE newest = Current
    BY <2>1, <2>2, <1>1 DEF Coming
  <2>3. CASE newest # Current
    <3>1. newest \in Nat /\ Current \in Nat /\ newest < Current
      BY <2>3, <1>1 DEF PictureTypeOK, Holding
    <3>2. ~ (h[w].pc \in {"download", "save", "update"} /\ h[w].pic = Current)
      BY <3>1, <1>1, <1>2
    <3>3. \/ called > 0
          \/ \E x \in Workers : /\ h[x].pc \in {"download", "save", "update"}
                                /\ h[x].pic = Current
      BY <2>1, <2>3, <1>1 DEF Coming
    <3> QED BY <2>3, <3>2, <3>3, <1>1
  <2> QED BY <2>2, <2>3
<1> QED BY <1>7, <1>8, <1>9, <1>10, <1>11 DEF PictureInv

LEMMA PictureInvNext ==
  ASSUME PictureInv, [PictureNext]_pictureVars
  PROVE  PictureInv'
<1>1. CASE PictureNext
  BY <1>1, DashboardStep, DeleteStep, LoseCallStep, GenerateStep, DownloadStep,
     UploadStep, SavePictureStep, ShowPictureStep, ForgetStep, AbandonStep DEF PictureNext, Work
<1>2. CASE UNCHANGED pictureVars
  BY <1>2, CurrentSame DEF pictureVars, PictureInv, PictureTypeOK, Holding, Apart, NoneForgotten, Coming
<1> QED BY <1>1, <1>2

\* The document, the bucket and the workers keep their types.
THEOREM PictureTypes ==
  PictureSpec => []PictureTypeOK
<1>1. PictureInv => PictureTypeOK
  BY DEF PictureInv
<1> QED BY <1>1, PictureInvInit, PictureInvNext, PTL DEF PictureSpec

\* The document never names a picture that has been deleted, for any number of
\* workers (thumbnail/route.ts:162).
THEOREM PictureThere ==
  PictureSpec => []NeverDangles
<1>1. PictureInv => NeverDangles
  BY DEF PictureInv, Apart, NeverDangles
<1> QED BY <1>1, PictureInvInit, PictureInvNext, PTL DEF PictureSpec

\* A picture that nobody is going to name or delete was left by one of the known
\* ways (thumbnail.ts, functions/generate-thumbnail/index.ts).
THEOREM PictureKnown ==
  PictureSpec => []NoneForgotten
<1>1. PictureInv => NoneForgotten
  BY DEF PictureInv
<1> QED BY <1>1, PictureInvInit, PictureInvNext, PTL DEF PictureSpec

\* When all is quiet the picture is current, the owner's, or was lost or passed
\* by in one of the known ways.
THEOREM PictureCurrent ==
  PictureSpec => []PicturesCurrent
<1>1. PictureInv => PicturesCurrent
  <2> SUFFICES ASSUME PictureInv, there, called = 0, \A w \in Workers : h[w].pc = "idle",
                      Current \notin unseen
               PROVE  thumb # None /\ blob[thumb] \in {Current, Own}
    BY DEF PicturesCurrent
  <2>1. newest = Current
    BY DEF PictureInv, Coming
  <2> QED BY <2>1 DEF PictureInv, Coming
<1> QED BY <1>1, PictureInvInit, PictureInvNext, PTL DEF PictureSpec
=============================================================================
