---------------------------- MODULE AuditBudget ----------------------------
(***************************************************************************)
(* The audit budget of unauthenticated rejections                          *)
(* (internal/api/audit_budget.go): past a source's allowance its           *)
(* rejections are counted instead of recorded, and the count is folded     *)
(* into one summary record later -- by the next rejection of the source,   *)
(* by the flush goroutine, or by Close.                                    *)
(*                                                                         *)
(* Counting is one step, under the budget's mutex.  Writing what it led to *)
(* is another: the records still to be written are the variable todo of    *)
(* the request, of the flush goroutine or of Close.  A count is modelled   *)
(* by the set of the rejections it counts, of which the code keeps the     *)
(* number.                                                                 *)
(***************************************************************************)
EXTENDS Integers, FiniteSets

CONSTANTS
  MaxRequests, \* bound: how many requests are rejected
  Sources,     \* peer addresses
  Overflow,    \* the bucket that unseen sources share
  MaxSources,  \* auditBudgetMaxSources (1024 in the code)
  Burst,       \* auditBudgetBurst (20 in the code)
  Window,      \* auditBudgetWindow, in instants
  Flush, Close \* the flush goroutine and the caller of Close

ASSUME BudgetAssumption ==
  /\ MaxRequests \in Nat /\ IsFiniteSet(Sources)
  /\ Overflow \notin Sources
  /\ Flush \notin Nat /\ Close \notin Nat /\ Flush # Close
  /\ MaxSources \in Nat /\ Burst \in Nat \ {0} /\ Window \in Nat \ {0}

VARIABLES
  sources,  \* auditBudget.sources, with the age of each window
  todo,     \* audit records still to be written, by each writer
  arrived,  \* requests rejected so far; a request is known by its turn
  flusher,  \* "running" or "stopped"
  closer,   \* where main's shutdown is
  timedOut, \* Shutdown gave up on handlers that had not finished
  \* What happened; the program keeps none of it but the audit log.
  single,   \* rejections in the log by themselves
  summed,   \* rejections counted by summaries in the log
  failed    \* rejections whose record the audit store refused (auditFailures)

vars == <<sources, todo, arrived, flusher, closer, timedOut, single, summed, failed>>

Keys == Sources \cup {Overflow}
Requests == 1..MaxRequests
Writers == Requests \cup {Flush, Close}

Windows == [age : 0..Window, recorded : 0..Burst, suppressed : SUBSET Requests]

Records == [kind : {"single", "summary"}, src : Keys, of : SUBSET Requests]

\* A record of one rejection, or a summary of those in S.
Single(src, r) == [kind |-> "single", src |-> src, of |-> {r}]
Summary(src, S) == [kind |-> "summary", src |-> src, of |-> S]

TypeOK ==
  /\ DOMAIN sources \subseteq Keys /\ sources \in [DOMAIN sources -> Windows]
  /\ Cardinality(DOMAIN sources) <= MaxSources + 1
  /\ todo \in [Writers -> SUBSET Records]
  /\ arrived \in 0..MaxRequests
  /\ flusher \in {"running", "stopped"}
  /\ closer \in {"running", "stopping", "draining", "closed"}
  /\ timedOut \in BOOLEAN
  /\ single \subseteq Requests /\ summed \subseteq Requests /\ failed \subseteq Requests

Init ==
  /\ sources = [k \in {} |-> {}]
  /\ todo = [w \in Writers |-> {}]
  /\ arrived = 0
  /\ flusher = "running"
  /\ closer = "running"
  /\ timedOut = FALSE
  /\ single = {} /\ summed = {} /\ failed = {}
-----------------------------------------------------------------------------
(* take *)

\* Mutant: the table has no cap.
Bucket_Uncapped(src) == src

\* Unseen sources share a bucket once the table is full.
Bucket(src) ==
  IF src \notin DOMAIN sources /\ Cardinality(DOMAIN sources) >= MaxSources
  THEN Overflow ELSE src

NewWindow == [age |-> 0, recorded |-> 0, suppressed |-> {}]

Current(k) == IF k \in DOMAIN sources THEN sources[k] ELSE NewWindow

\* Mutant: a new window forgets what the last one counted.
Folded_Lost(k) == {}

\* The count a window that has passed hands over to the next rejection.
Folded(k) == IF Current(k).age >= Window THEN Current(k).suppressed ELSE {}

Opened(k) == IF Current(k).age >= Window THEN NewWindow ELSE Current(k)

Within(k) == Opened(k).recorded < Burst

\* Rejection r recorded by itself, or counted.
Counted(k, r) ==
  IF Within(k) THEN [Opened(k) EXCEPT !.recorded = @ + 1]
  ELSE [Opened(k) EXCEPT !.suppressed = @ \cup {r}]

\* recordAnonymousRejection: both records name the source of this request.
Reject(src) ==
  LET k == Bucket(src)
      r == arrived + 1 IN
  /\ r \in Requests
  /\ closer = "running" \/ (timedOut /\ closer # "closed")
  /\ arrived' = r
  /\ sources' = [j \in DOMAIN sources \cup {k} |->
                   IF j = k THEN Counted(k, r) ELSE sources[j]]
  /\ todo' = [todo EXCEPT ![r] =
       (IF Folded(k) # {} THEN {Summary(src, Folded(k))} ELSE {})
         \cup (IF Within(k) THEN {Single(src, r)} ELSE {})]
  /\ UNCHANGED <<flusher, closer, timedOut, single, summed, failed>>

\* A request writes its summary first; the store may refuse any record.
Write(w) ==
  \E rec \in todo[w] :
    /\ closer # "closed"
    /\ rec.kind = "single" => \A other \in todo[w] : other = rec
    /\ todo' = [todo EXCEPT ![w] = @ \ {rec}]
    /\ \/ /\ rec.kind = "single"
          /\ single' = single \cup rec.of
          /\ UNCHANGED <<summed, failed>>
       \/ /\ rec.kind = "summary"
          /\ summed' = summed \cup rec.of
          /\ UNCHANGED <<single, failed>>
       \/ /\ failed' = failed \cup rec.of
          /\ UNCHANGED <<single, summed>>
    /\ UNCHANGED <<sources, arrived, flusher, closer, timedOut>>
-----------------------------------------------------------------------------
(* collect: sweep, from the flush goroutine, and drain, from Close *)

\* Mutant: drain leaves the windows that have not passed.
Collected_Passed(all) == {k \in DOMAIN sources : sources[k].age >= Window}

Collected(all) == {k \in DOMAIN sources : all \/ sources[k].age >= Window}

Summaries(S) ==
  {Summary(k, sources[k].suppressed) : k \in {j \in S : sources[j].suppressed # {}}}

Forget(S) == [k \in DOMAIN sources \ S |-> sources[k]]

\* Mutant: the flush goroutine is never started.
Sweep_NotStarted == FALSE /\ UNCHANGED vars

\* A tick of the flush goroutine.
Sweep ==
  /\ flusher = "running"
  /\ todo[Flush] = {}
  /\ \E k \in DOMAIN sources : sources[k].age >= Window
  /\ todo' = [todo EXCEPT ![Flush] = Summaries(Collected(FALSE))]
  /\ sources' = Forget(Collected(FALSE))
  /\ UNCHANGED <<arrived, flusher, closer, timedOut, single, summed, failed>>

\* main: Shutdown lets the handlers finish, or gives up on them.
Stop ==
  /\ closer = "running"
  /\ closer' = "stopping"
  /\ timedOut' \in BOOLEAN
  /\ timedOut' \/ \A r \in Requests : todo[r] = {}
  /\ UNCHANGED <<sources, todo, arrived, flusher, single, summed, failed>>

\* Close waits for the flush goroutine, which ends between two ticks.
FlushStops ==
  /\ closer = "stopping"
  /\ flusher = "running"
  /\ todo[Flush] = {}
  /\ flusher' = "stopped"
  /\ UNCHANGED <<sources, todo, arrived, closer, timedOut, single, summed, failed>>

Drain ==
  /\ closer = "stopping"
  /\ flusher = "stopped"
  /\ todo' = [todo EXCEPT ![Close] = Summaries(Collected(TRUE))]
  /\ sources' = Forget(Collected(TRUE))
  /\ closer' = "draining"
  /\ UNCHANGED <<arrived, flusher, timedOut, single, summed, failed>>

CloseReturns ==
  /\ closer = "draining"
  /\ todo[Close] = {}
  /\ closer' = "closed"
  /\ UNCHANGED <<sources, todo, arrived, flusher, timedOut, single, summed, failed>>

\* Time passes; an age is exact up to Window.
Tick ==
  /\ \E k \in DOMAIN sources : sources[k].age < Window
  /\ sources' = [k \in DOMAIN sources |->
                   [sources[k] EXCEPT !.age = IF @ < Window THEN @ + 1 ELSE @]]
  /\ UNCHANGED <<todo, arrived, flusher, closer, timedOut, single, summed, failed>>

Next ==
  \/ \E src \in Sources : Reject(src)
  \/ \E w \in Writers : Write(w)
  \/ Sweep
  \/ Stop
  \/ FlushStops
  \/ Drain
  \/ CloseReturns
  \/ Tick

\* Goroutines run, the ticker ticks and time passes; nobody has to send a
\* request or to stop the server.
Fairness ==
  /\ \A w \in Writers : WF_vars(Write(w))
  /\ WF_vars(Sweep) /\ WF_vars(FlushStops) /\ WF_vars(Drain)
  /\ WF_vars(CloseReturns) /\ WF_vars(Tick)

Spec == Init /\ [][Next]_vars /\ Fairness
-----------------------------------------------------------------------------
(* Properties *)

\* Rejections the audit store has been given, those in a record still to be
\* written, and those only a count in memory knows of.
Accounted == single \cup summed \cup failed
Unwritten == UNION {rec.of : rec \in UNION {todo[w] : w \in Writers}}
Held == UNION {sources[k].suppressed : k \in DOMAIN sources}

\* No rejection is in two of them, nor twice in one.
OnlyOnce ==
  /\ single \cap summed = {} /\ failed \cap (single \cup summed) = {}
  /\ Accounted \cap Unwritten = {} /\ Accounted \cap Held = {} /\ Unwritten \cap Held = {}
  /\ \A w, v \in Writers : \A rec \in todo[w], other \in todo[v] :
       rec.of \cap other.of # {} => w = v /\ rec = other
  /\ \A j, k \in DOMAIN sources :
       sources[j].suppressed \cap sources[k].suppressed # {} => j = k

\* "Folded, never dropped": every rejection is in the log, on its way there or
\* in one count, and in no two of them, whoever folds that count.
FoldedNeverDropped ==
  1..arrived = Accounted \cup Unwritten \cup Held /\ OnlyOnce

\* "Folded, not dropped" on the shutdown path: once Close returns, after
\* handlers that all finished, no rejection is left uncounted in memory.
CloseLeavesNothing ==
  closer = "closed" => timedOut \/ 1..arrived \subseteq Accounted

\* A flood that stops sending: a counted rejection does not wait for another
\* one of its source, it reaches the log by the flush or by Close -- unless
\* Shutdown gave up on its handler.
EventuallyAccounted ==
  \A n \in Requests : n <= arrived ~> (n \in Accounted \/ timedOut)
=============================================================================
