-------------------------- MODULE AuditBudget_proofs --------------------------
(***************************************************************************)
(* Theorems about AuditBudget: the table is bounded, and every rejection   *)
(* is in one place from the moment it is counted to the log.               *)
(***************************************************************************)
EXTENDS AuditBudget, FiniteSetTheorems, TLAPS

TInv ==
  /\ DOMAIN sources \subseteq Keys /\ sources \in [DOMAIN sources -> Windows]
  /\ todo \in [Writers -> SUBSET Records]
  /\ arrived \in 0..MaxRequests
  /\ flusher \in {"running", "stopped"}
  /\ closer \in {"running", "stopping", "draining", "closed"}
  /\ timedOut \in BOOLEAN
  /\ single \subseteq Requests /\ summed \subseteq Requests /\ failed \subseteq Requests

\* The shared bucket comes on top of those the table has room for.
Room == Cardinality(DOMAIN sources \ {Overflow}) <= MaxSources

\* Who may still write, in the order of the shutdown.
Orderly ==
  /\ \A r \in Requests : arrived < r => todo[r] = {}
  /\ closer \in {"running", "stopping"} => todo[Close] = {}
  /\ closer \in {"draining", "closed"} => flusher = "stopped"
  /\ flusher = "stopped" => todo[Flush] = {}
  /\ closer = "closed" => todo[Close] = {}
  /\ closer # "running" /\ ~ timedOut => \A r \in Requests : todo[r] = {}
  /\ closer \in {"draining", "closed"} /\ ~ timedOut => DOMAIN sources = {}

IInv == TInv /\ Room /\ Orderly /\ FoldedNeverDropped
-----------------------------------------------------------------------------
(* The buckets *)

\* The flush goroutine, Close and the requests are different writers.
LEMMA WritersDiffer ==
  /\ Flush \in Writers /\ Close \in Writers /\ Flush # Close
  /\ Requests \subseteq Writers /\ Flush \notin Requests /\ Close \notin Requests
BY BudgetAssumption DEF Writers, Requests

\* A new window has counted nothing.
LEMMA NewWindowTyped == NewWindow \in Windows /\ NewWindow.suppressed = {}
BY BudgetAssumption DEF NewWindow, Windows

\* What the bucket of a rejection holds before: nothing where it is new.
LEMMA CurrentFacts ==
  ASSUME TInv, NEW k \in Keys
  PROVE  /\ Current(k) \in Windows
         /\ k \in DOMAIN sources => Current(k) = sources[k]
         /\ k \notin DOMAIN sources => Current(k).suppressed = {}
BY NewWindowTyped DEF TInv, Current

\* A window that has passed hands its whole count over; the rejection is then
\* recorded or counted.
LEMMA CountedFacts ==
  ASSUME TInv, NEW k \in Keys, NEW r \in Requests
  PROVE  /\ Counted(k, r) \in Windows
         /\ Folded(k) \cup Opened(k).suppressed = Current(k).suppressed
         /\ Folded(k) \cap Opened(k).suppressed = {}
         /\ Counted(k, r).suppressed =
              Opened(k).suppressed \cup (IF Within(k) THEN {} ELSE {r})
<1>1. PICK c \in Windows : c = Current(k)
  BY CurrentFacts
<1>2. /\ Folded(k) \cup Opened(k).suppressed = c.suppressed
      /\ Folded(k) \cap Opened(k).suppressed = {}
  BY <1>1, NewWindowTyped DEF Folded, Opened
<1>3. PICK o \in Windows : o = Opened(k)
  BY <1>1, NewWindowTyped DEF Opened
<1>4. CASE Within(k)
  <2>1. o.recorded + 1 \in 0..Burst
    BY <1>3, <1>4, BudgetAssumption DEF Within, Windows
  <2>2. Counted(k, r) = [age |-> o.age, recorded |-> o.recorded + 1,
                         suppressed |-> o.suppressed]
    BY <1>3, <1>4 DEF Counted, Windows
  <2>3. Counted(k, r) \in Windows /\ Counted(k, r).suppressed = o.suppressed
    BY <2>1, <2>2 DEF Windows
  <2> QED
    BY <1>1, <1>2, <1>3, <1>4, <2>3
<1>5. CASE ~ Within(k)
  <2>1. Counted(k, r) = [age |-> o.age, recorded |-> o.recorded,
                         suppressed |-> o.suppressed \cup {r}]
    BY <1>3, <1>5 DEF Counted, Windows
  <2>2. Counted(k, r) \in Windows /\ Counted(k, r).suppressed = o.suppressed \cup {r}
    BY <2>1 DEF Windows
  <2> QED
    BY <1>1, <1>2, <1>3, <1>5, <2>2
<1> QED
  BY <1>4, <1>5

\* The record of a rejection, and the summary written before it.
Answer(src, k, r) ==
  (IF Folded(k) # {} THEN {Summary(src, Folded(k))} ELSE {})
    \cup (IF Within(k) THEN {Single(src, r)} ELSE {})

\* Those records count the folded rejections and the new one, and no others.
LEMMA AnswerFacts ==
  ASSUME TInv, NEW src \in Sources, NEW k \in Keys, NEW r \in Requests
  PROVE  /\ Answer(src, k, r) \subseteq Records
         /\ \A rec \in Answer(src, k, r) :
              \/ rec = Summary(src, Folded(k)) /\ rec.of = Folded(k)
              \/ Within(k) /\ rec = Single(src, r) /\ rec.of = {r}
         /\ Folded(k) # {} => Summary(src, Folded(k)) \in Answer(src, k, r)
         /\ Within(k) => Single(src, r) \in Answer(src, k, r)
         /\ Summary(src, Folded(k)).of = Folded(k) /\ Single(src, r).of = {r}
<1>1. src \in Keys
  BY DEF Keys
<1>2. Folded(k) \subseteq Requests
  BY CurrentFacts DEF Folded, Windows
<1>3. Summary(src, Folded(k)) \in Records /\ Summary(src, Folded(k)).of = Folded(k)
  BY <1>1, <1>2 DEF Summary, Records
<1>4. Single(src, r) \in Records /\ Single(src, r).of = {r}
  BY <1>1 DEF Single, Records
<1> QED
  BY <1>3, <1>4 DEF Answer

\* Collecting some buckets gives a summary for each count, and no other record.
LEMMA SummariesFacts ==
  ASSUME TInv, NEW S \in SUBSET DOMAIN sources
  PROVE  /\ Summaries(S) \subseteq Records
         /\ \A rec \in Summaries(S) : \E k \in S :
              rec = Summary(k, sources[k].suppressed) /\ rec.of = sources[k].suppressed
         /\ \A k \in S : sources[k].suppressed # {} =>
              \E rec \in Summaries(S) : rec.of = sources[k].suppressed
<1>1. ASSUME NEW k \in S
      PROVE  /\ Summary(k, sources[k].suppressed) \in Records
             /\ Summary(k, sources[k].suppressed).of = sources[k].suppressed
  <2>1. k \in Keys /\ sources[k].suppressed \subseteq Requests
    BY DEF TInv, Windows
  <2> QED
    BY <2>1 DEF Summary, Records
<1> QED
  BY <1>1 DEF Summaries
-----------------------------------------------------------------------------
(* What the steps do *)

\* A rejection changes one bucket and gives its request at most two records.
LEMMA RejectEffect ==
  ASSUME TInv, NEW src \in Sources, Reject(src)
  PROVE  \E k \in Keys, r \in Requests :
           /\ k = Bucket(src) /\ r = arrived + 1 /\ arrived' = r
           /\ closer = "running" \/ timedOut
           /\ DOMAIN sources' = DOMAIN sources \cup {k}
           /\ sources' \in [DOMAIN sources' -> Windows]
           /\ sources'[k] = Counted(k, r)
           /\ \A j \in DOMAIN sources \ {k} : sources'[j] = sources[j]
           /\ todo' \in [Writers -> SUBSET Records]
           /\ todo'[r] = Answer(src, k, r)
           /\ \A w \in Writers \ {r} : todo'[w] = todo[w]
           /\ UNCHANGED <<flusher, closer, timedOut, single, summed, failed>>
<1>1. PICK k : k = Bucket(src)
  OBVIOUS
<1>2. k \in Keys
  BY <1>1 DEF Bucket, Keys
<1>3. PICK r \in Requests : r = arrived + 1
  BY DEF Reject
<1>4. /\ arrived' = r /\ (closer = "running" \/ timedOut)
      /\ sources' = [j \in DOMAIN sources \cup {k} |->
                       IF j = k THEN Counted(k, r) ELSE sources[j]]
      /\ UNCHANGED <<flusher, closer, timedOut, single, summed, failed>>
  BY <1>1, <1>3 DEF Reject
<1>5. /\ DOMAIN sources' = DOMAIN sources \cup {k}
      /\ sources'[k] = Counted(k, r)
      /\ \A j \in DOMAIN sources \ {k} : sources'[j] = sources[j]
  BY <1>4
<1>6. sources' \in [DOMAIN sources' -> Windows]
  BY <1>2, <1>4, CountedFacts DEF TInv
<1>7. todo' = [todo EXCEPT ![r] = Answer(src, k, r)]
  BY <1>1, <1>3 DEF Reject, Answer
<1>8. Answer(src, k, r) \in SUBSET Records /\ r \in Writers
  BY <1>2, AnswerFacts, WritersDiffer
<1>9. /\ todo' \in [Writers -> SUBSET Records] /\ todo'[r] = Answer(src, k, r)
      /\ \A w \in Writers \ {r} : todo'[w] = todo[w]
  BY <1>7, <1>8 DEF TInv
<1> QED
  BY <1>1, <1>2, <1>3, <1>4, <1>5, <1>6, <1>9

\* A writer is done with one record: it is in the log, or refused.
LEMMA WriteEffect ==
  ASSUME TInv, NEW w \in Writers, Write(w)
  PROVE  \E rec \in todo[w] :
           /\ rec.of \subseteq Requests
           /\ todo' \in [Writers -> SUBSET Records]
           /\ todo'[w] = todo[w] \ {rec}
           /\ \A v \in Writers \ {w} : todo'[v] = todo[v]
           /\ \/ single' = single \cup rec.of /\ UNCHANGED <<summed, failed>>
              \/ summed' = summed \cup rec.of /\ UNCHANGED <<single, failed>>
              \/ failed' = failed \cup rec.of /\ UNCHANGED <<single, summed>>
           /\ UNCHANGED <<sources, arrived, flusher, closer, timedOut>>
<1>1. PICK rec \in todo[w] :
        /\ todo' = [todo EXCEPT ![w] = @ \ {rec}]
        /\ \/ single' = single \cup rec.of /\ UNCHANGED <<summed, failed>>
           \/ summed' = summed \cup rec.of /\ UNCHANGED <<single, failed>>
           \/ failed' = failed \cup rec.of /\ UNCHANGED <<single, summed>>
        /\ UNCHANGED <<sources, arrived, flusher, closer, timedOut>>
  BY DEF Write
<1>2. rec.of \subseteq Requests
  BY DEF TInv, Records
<1>3. /\ todo' \in [Writers -> SUBSET Records] /\ todo'[w] = todo[w] \ {rec}
      /\ \A v \in Writers \ {w} : todo'[v] = todo[v]
  BY <1>1 DEF TInv
<1> QED
  BY <1>1, <1>2, <1>3

\* The counts of the buckets in S become the records of writer w.
Collects(w, S) ==
  /\ todo' \in [Writers -> SUBSET Records]
  /\ todo'[w] = Summaries(S)
  /\ \A v \in Writers \ {w} : todo'[v] = todo[v]
  /\ DOMAIN sources' = DOMAIN sources \ S
  /\ sources' \in [DOMAIN sources' -> Windows]
  /\ \A k \in DOMAIN sources \ S : sources'[k] = sources[k]
  /\ UNCHANGED <<arrived, flusher, timedOut, single, summed, failed>>

\* What sweep and drain do to the table and to their records.
LEMMA CollectsEffect ==
  ASSUME TInv, NEW w \in Writers, NEW S \in SUBSET DOMAIN sources,
         todo' = [todo EXCEPT ![w] = Summaries(S)], sources' = Forget(S),
         UNCHANGED <<arrived, flusher, timedOut, single, summed, failed>>
  PROVE  Collects(w, S)
<1>1. Summaries(S) \in SUBSET Records
  BY SummariesFacts
<1>2. /\ todo' \in [Writers -> SUBSET Records] /\ todo'[w] = Summaries(S)
      /\ \A v \in Writers \ {w} : todo'[v] = todo[v]
  BY <1>1 DEF TInv
<1>3. /\ DOMAIN sources' = DOMAIN sources \ S
      /\ sources' \in [DOMAIN sources' -> Windows]
      /\ \A k \in DOMAIN sources \ S : sources'[k] = sources[k]
  BY DEF Forget, TInv
<1> QED
  BY <1>2, <1>3 DEF Collects

\* The flush goroutine collects some buckets when it has nothing to write.
LEMMA SweepEffect ==
  ASSUME TInv, Sweep
  PROVE  /\ flusher = "running" /\ todo[Flush] = {} /\ UNCHANGED closer
         /\ \E S \in SUBSET DOMAIN sources : Collects(Flush, S)
<1>1. Collected(FALSE) \in SUBSET DOMAIN sources
  BY DEF Collected
<1> QED
  BY <1>1, CollectsEffect, WritersDiffer DEF Sweep

\* Close collects them all, once the flush goroutine has ended.
LEMMA DrainEffect ==
  ASSUME TInv, Drain
  PROVE  /\ closer = "stopping" /\ flusher = "stopped" /\ closer' = "draining"
         /\ Collects(Close, DOMAIN sources)
<1>1. Collected(TRUE) = DOMAIN sources
  BY DEF Collected
<1> QED
  BY <1>1, CollectsEffect, WritersDiffer DEF Drain

\* Time passes over counts and records.
LEMMA TickEffect ==
  ASSUME TInv, Tick
  PROVE  /\ DOMAIN sources' = DOMAIN sources
         /\ sources' \in [DOMAIN sources' -> Windows]
         /\ \A k \in DOMAIN sources : sources'[k].suppressed = sources[k].suppressed
         /\ UNCHANGED <<todo, arrived, flusher, closer, timedOut, single, summed, failed>>
<1>1. ASSUME NEW b \in Windows
      PROVE  /\ [b EXCEPT !.age = IF @ < Window THEN @ + 1 ELSE @] \in Windows
             /\ [b EXCEPT !.age = IF @ < Window THEN @ + 1 ELSE @].suppressed = b.suppressed
  BY BudgetAssumption DEF Windows
<1> QED
  BY <1>1 DEF Tick, TInv
-----------------------------------------------------------------------------
(* Types, the bound of the table and the order of the shutdown *)

\* Nobody has sent anything yet.
LEMMA StartsTyped == Init => TInv /\ Room /\ Orderly
<1> SUFFICES ASSUME Init PROVE TInv /\ Room /\ Orderly
  OBVIOUS
<1>1. DOMAIN sources = {}
  BY DEF Init
<1>2. Room
  <2>1. DOMAIN sources \ {Overflow} = {}
    BY <1>1
  <2> QED
    BY <2>1, FS_EmptySet, BudgetAssumption DEF Room
<1>3. TInv
  <2>1. sources \in [DOMAIN sources -> Windows]
    BY <1>1 DEF Init
  <2>2. todo \in [Writers -> SUBSET Records]
    BY DEF Init
  <2>3. arrived \in 0..MaxRequests
    BY BudgetAssumption DEF Init
  <2> QED
    BY <1>1, <2>1, <2>2, <2>3 DEF Init, TInv
<1>4. Orderly
  BY WritersDiffer DEF Init, Orderly
<1> QED
  BY <1>2, <1>3, <1>4

\* The table is finite, as the addresses are.
LEMMA KeysFinite ==
  ASSUME TInv
  PROVE  IsFiniteSet(DOMAIN sources)
<1>1. IsFiniteSet(Keys)
  BY FS_AddElement, BudgetAssumption DEF Keys
<1> QED
  BY <1>1, FS_Subset DEF TInv

\* A bucket of its own only while there is room.
LEMMA RejectRoom ==
  ASSUME TInv, Room, NEW src \in Sources, Reject(src)
  PROVE  Room'
<1>1. PICK k \in Keys : k = Bucket(src) /\ DOMAIN sources' = DOMAIN sources \cup {k}
  BY RejectEffect
<1>2. IsFiniteSet(DOMAIN sources) /\ IsFiniteSet(DOMAIN sources \ {Overflow})
  BY KeysFinite, FS_Subset
<1>3. CASE k = Overflow \/ k \in DOMAIN sources
  <2>1. DOMAIN sources' \ {Overflow} = DOMAIN sources \ {Overflow}
    BY <1>1, <1>3
  <2> QED
    BY <2>1 DEF Room
<1>4. CASE k # Overflow /\ k \notin DOMAIN sources
  <2>1. Cardinality(DOMAIN sources) < MaxSources
    BY <1>1, <1>2, <1>4, FS_CardinalityType, BudgetAssumption DEF Bucket
  <2>2. Cardinality(DOMAIN sources \ {Overflow}) <= Cardinality(DOMAIN sources)
    BY <1>2, FS_Subset
  <2>3. DOMAIN sources' \ {Overflow} = (DOMAIN sources \ {Overflow}) \cup {k}
    BY <1>1, <1>4
  <2>4. Cardinality(DOMAIN sources' \ {Overflow}) = Cardinality(DOMAIN sources \ {Overflow}) + 1
    BY <1>2, <1>4, <2>3, FS_AddElement
  <2> QED
    BY <1>2, <2>1, <2>2, <2>4, FS_CardinalityType, BudgetAssumption DEF Room
<1> QED
  BY <1>3, <1>4

\* A table that does not grow keeps to its bound.
LEMMA RoomKept ==
  ASSUME TInv, Room, DOMAIN sources' \subseteq DOMAIN sources
  PROVE  Room'
<1>1. IsFiniteSet(DOMAIN sources \ {Overflow})
  BY KeysFinite, FS_Subset
<1>2. DOMAIN sources' \ {Overflow} \subseteq DOMAIN sources \ {Overflow}
  OBVIOUS
<1>3. /\ IsFiniteSet(DOMAIN sources' \ {Overflow})
      /\ Cardinality(DOMAIN sources' \ {Overflow}) <= Cardinality(DOMAIN sources \ {Overflow})
  BY <1>1, <1>2, FS_Subset
<1> QED
  BY <1>1, <1>3, FS_CardinalityType, BudgetAssumption DEF Room

\* Each step keeps the types, the bound and the order of the shutdown.
LEMMA TypesKept ==
  ASSUME TInv, Room, Orderly, [Next]_vars
  PROVE  TInv' /\ Room' /\ Orderly'
<1>1. CASE UNCHANGED vars
  BY <1>1 DEF vars, TInv, Room, Orderly
<1>2. ASSUME NEW src \in Sources, Reject(src) PROVE TInv' /\ Room' /\ Orderly'
  <2>1. PICK k \in Keys, r \in Requests :
           /\ r = arrived + 1 /\ arrived' = r
           /\ closer = "running" \/ timedOut
           /\ DOMAIN sources' = DOMAIN sources \cup {k}
           /\ sources' \in [DOMAIN sources' -> Windows]
           /\ todo' \in [Writers -> SUBSET Records]
           /\ \A w \in Writers \ {r} : todo'[w] = todo[w]
           /\ UNCHANGED <<flusher, closer, timedOut, single, summed, failed>>
    BY <1>2, RejectEffect
  <2>2. TInv'
    BY <2>1 DEF TInv, Requests
  <2>3. Orderly'
    BY <2>1, WritersDiffer DEF Orderly, TInv, Requests
  <2> QED
    BY <1>2, <2>2, <2>3, RejectRoom
<1>3. ASSUME NEW w \in Writers, Write(w) PROVE TInv' /\ Room' /\ Orderly'
  <2>1. PICK rec \in todo[w] :
           /\ rec.of \subseteq Requests
           /\ todo' \in [Writers -> SUBSET Records]
           /\ todo'[w] = todo[w] \ {rec}
           /\ \A v \in Writers \ {w} : todo'[v] = todo[v]
           /\ \/ single' = single \cup rec.of /\ UNCHANGED <<summed, failed>>
              \/ summed' = summed \cup rec.of /\ UNCHANGED <<single, failed>>
              \/ failed' = failed \cup rec.of /\ UNCHANGED <<single, summed>>
           /\ UNCHANGED <<sources, arrived, flusher, closer, timedOut>>
    BY <1>3, WriteEffect
  <2>2. TInv'
    BY <2>1 DEF TInv
  <2>3. \A v \in Writers : todo'[v] \subseteq todo[v]
    BY <2>1
  <2>4. Orderly'
    BY <2>1, <2>3, WritersDiffer DEF Orderly
  <2> QED
    BY <2>1, <2>2, <2>4 DEF Room
<1>4. CASE Sweep
  <2>1. PICK S \in SUBSET DOMAIN sources : Collects(Flush, S)
    BY <1>4, SweepEffect
  <2>2. flusher = "running" /\ UNCHANGED closer
    BY <1>4, SweepEffect
  <2>3. TInv'
    BY <2>1, <2>2 DEF TInv, Collects
  <2>4. Orderly'
    BY <2>1, <2>2, WritersDiffer DEF Orderly, Collects
  <2> QED
    BY <2>1, <2>3, <2>4, RoomKept DEF Collects
<1>5. CASE Stop
  BY <1>5, WritersDiffer DEF Stop, TInv, Room, Orderly
<1>6. CASE FlushStops
  BY <1>6, WritersDiffer DEF FlushStops, TInv, Room, Orderly
<1>7. CASE Drain
  <2>1. Collects(Close, DOMAIN sources) /\ flusher = "stopped" /\ closer' = "draining"
        /\ closer = "stopping"
    BY <1>7, DrainEffect
  <2>2. TInv'
    BY <2>1 DEF TInv, Collects
  <2>3. Orderly'
    BY <2>1, WritersDiffer DEF Orderly, Collects
  <2> QED
    BY <2>1, <2>2, <2>3, RoomKept DEF Collects
<1>8. CASE CloseReturns
  BY <1>8, WritersDiffer DEF CloseReturns, TInv, Room, Orderly
<1>9. CASE Tick
  <2>1. /\ DOMAIN sources' = DOMAIN sources
        /\ sources' \in [DOMAIN sources' -> Windows]
        /\ UNCHANGED <<todo, arrived, flusher, closer, timedOut, single, summed, failed>>
    BY <1>9, TickEffect
  <2>2. TInv'
    BY <2>1 DEF TInv
  <2> QED
    BY <2>1, <2>2 DEF Room, Orderly
<1> QED
  BY <1>1, <1>2, <1>3, <1>4, <1>5, <1>6, <1>7, <1>8, <1>9 DEF Next
-----------------------------------------------------------------------------
(* Every rejection is in one place *)

\* There is no rejection yet.
LEMMA StartsFolded == Init => FoldedNeverDropped
<1> SUFFICES ASSUME Init PROVE FoldedNeverDropped
  OBVIOUS
<1>1. DOMAIN sources = {} /\ \A w \in Writers : todo[w] = {}
  BY DEF Init
<1>2. Unwritten = {} /\ Held = {} /\ Accounted = {}
  BY <1>1 DEF Unwritten, Held, Accounted, Init
<1>3. 1..arrived = {}
  BY DEF Init
<1> QED
  BY <1>1, <1>2, <1>3 DEF FoldedNeverDropped, OnlyOnce, Init

\* A rejection goes to the log or into its bucket's count; a count that is
\* folded leaves the bucket for the summary.
LEMMA RejectFolded ==
  ASSUME TInv, Orderly, FoldedNeverDropped, NEW src \in Sources, Reject(src)
  PROVE  FoldedNeverDropped'
<1>1. PICK k \in Keys, r \in Requests :
         /\ r = arrived + 1 /\ arrived' = r
         /\ DOMAIN sources' = DOMAIN sources \cup {k}
         /\ sources'[k] = Counted(k, r)
         /\ \A j \in DOMAIN sources \ {k} : sources'[j] = sources[j]
         /\ todo'[r] = Answer(src, k, r)
         /\ \A w \in Writers \ {r} : todo'[w] = todo[w]
         /\ UNCHANGED <<single, summed, failed>>
  BY RejectEffect
<1>2. PICK F, O :
         /\ F = Folded(k) /\ O = Opened(k).suppressed
         /\ F \cup O = Current(k).suppressed /\ F \cap O = {}
         /\ sources'[k].suppressed = O \cup (IF Within(k) THEN {} ELSE {r})
  BY <1>1, CountedFacts
<1>3. /\ k \in DOMAIN sources => F \cup O = sources[k].suppressed
      /\ k \notin DOMAIN sources => F = {} /\ O = {}
  BY <1>2, CurrentFacts
<1>4. r \in Writers /\ todo[r] = {}
  BY <1>1, WritersDiffer DEF Orderly, TInv
<1>5. r \notin 1..arrived /\ 1..arrived' = 1..arrived \cup {r}
  BY <1>1 DEF TInv
<1>6. r \notin Accounted /\ r \notin Unwritten /\ r \notin Held
  BY <1>5 DEF FoldedNeverDropped
<1>7. \A rec \in todo'[r] :
        \/ rec.of = F /\ rec = Summary(src, F)
        \/ Within(k) /\ rec.of = {r} /\ rec = Single(src, r)
  BY <1>1, <1>2, AnswerFacts
<1>8. /\ F # {} => \E rec \in todo'[r] : rec.of = F
      /\ Within(k) => \E rec \in todo'[r] : rec.of = {r}
  BY <1>1, <1>2, AnswerFacts
<1>9. F \subseteq Held /\ O \subseteq Held
  BY <1>3 DEF Held
<1>10. Accounted' = Accounted
  BY <1>1 DEF Accounted
<1>11. \A w \in Writers \ {r} : todo'[w] = todo[w]
  BY <1>1
<1>12. Unwritten' = Unwritten \cup F \cup (IF Within(k) THEN {r} ELSE {})
  <2>1. ASSUME NEW x \in Unwritten
        PROVE  x \in Unwritten'
    <3>1. PICK w \in Writers : \E rec \in todo[w] : x \in rec.of
      BY DEF Unwritten
    <3>2. w # r
      BY <1>4, <3>1
    <3>3. todo'[w] = todo[w]
      BY <1>1, <3>2
    <3> QED
      BY <3>1, <3>3 DEF Unwritten
  <2>2. F \subseteq Unwritten' /\ (Within(k) => r \in Unwritten')
    BY <1>4, <1>8 DEF Unwritten
  <2>3. ASSUME NEW x \in Unwritten'
        PROVE  x \in Unwritten \/ x \in F \/ (Within(k) /\ x = r)
    <3>1. PICK w \in Writers : \E rec \in todo'[w] : x \in rec.of
      BY DEF Unwritten
    <3>2. CASE w = r
      BY <1>7, <3>1, <3>2
    <3>3. CASE w # r
      <4>1. todo'[w] = todo[w]
        BY <1>1, <3>3
      <4> QED
        BY <3>1, <4>1 DEF Unwritten
    <3> QED
      BY <3>2, <3>3
  <2> QED
    BY <2>1, <2>2, <2>3
<1>13. Held' = (Held \ F) \cup (IF Within(k) THEN {} ELSE {r})
  <2>1. ASSUME NEW x \in Held, x \notin F PROVE x \in Held'
    <3>1. PICK j \in DOMAIN sources : x \in sources[j].suppressed
      BY DEF Held
    <3>2. j \in DOMAIN sources' /\ x \in sources'[j].suppressed
      BY <1>1, <1>2, <1>3, <2>1, <3>1
    <3> QED
      BY <3>2 DEF Held
  <2>2. ~ Within(k) => r \in Held'
    BY <1>1, <1>2 DEF Held
  <2>3. ASSUME NEW x \in Held'
        PROVE  x \in Held \ F \/ (~ Within(k) /\ x = r)
    <3>1. PICK j \in DOMAIN sources' : x \in sources'[j].suppressed
      BY DEF Held
    <3>2. CASE j = k
      BY <1>2, <1>9, <3>1, <3>2
    <3>3. CASE j # k
      <4>1. j \in DOMAIN sources /\ x \in sources[j].suppressed
        BY <1>1, <3>1, <3>3
      <4>2. x \notin F
        BY <1>3, <3>3, <4>1 DEF FoldedNeverDropped, OnlyOnce
      <4> QED
        BY <4>1, <4>2 DEF Held
    <3> QED
      BY <3>2, <3>3
  <2> QED
    BY <2>1, <2>2, <2>3
<1>14. 1..arrived' = Accounted' \cup Unwritten' \cup Held'
  BY <1>5, <1>9, <1>10, <1>12, <1>13 DEF FoldedNeverDropped
<1>15. ASSUME NEW w \in Writers, NEW v \in Writers, NEW rec \in todo'[w], NEW other \in todo'[v],
              NEW x, x \in rec.of, x \in other.of
       PROVE  w = v /\ rec = other
  <2>1. CASE w # r /\ v # r
    <3>1. rec \in todo[w] /\ other \in todo[v]
      BY <1>1, <2>1
    <3> QED
      BY <1>15, <3>1 DEF FoldedNeverDropped, OnlyOnce
  <2>2. CASE w = r /\ v = r
    BY <1>6, <1>7, <1>9, <1>15, <2>2
  <2>3. ASSUME NEW u \in Writers, u # r, NEW one \in todo'[u], NEW two \in todo'[r],
               x \in one.of, x \in two.of
        PROVE  FALSE
    <3>1. x \in Unwritten
      BY <1>1, <2>3 DEF Unwritten
    <3>2. x \in F \/ x = r
      BY <1>7, <2>3
    <3> QED
      BY <1>6, <1>9, <3>1, <3>2 DEF FoldedNeverDropped, OnlyOnce
  <2> QED
    BY <1>15, <2>1, <2>2, <2>3
<1>16. ASSUME NEW i \in DOMAIN sources', NEW j \in DOMAIN sources', NEW x,
              x \in sources'[i].suppressed, x \in sources'[j].suppressed
       PROVE  i = j
  <2>1. ASSUME NEW h \in DOMAIN sources', x \in sources'[h].suppressed, h # k
        PROVE  h \in DOMAIN sources /\ x \in sources[h].suppressed /\ x # r
    BY <1>1, <1>6, <2>1 DEF Held
  <2>2. ASSUME x \in sources'[k].suppressed, x # r
        PROVE  k \in DOMAIN sources /\ x \in sources[k].suppressed
    BY <1>2, <1>3, <2>2
  <2> QED
    BY <1>16, <2>1, <2>2 DEF FoldedNeverDropped, OnlyOnce
<1>17. OnlyOnce'
  <2>1. /\ (single \cap summed = {})' /\ (failed \cap (single \cup summed) = {})'
        /\ (Accounted \cap Unwritten = {})' /\ (Accounted \cap Held = {})'
        /\ (Unwritten \cap Held = {})'
    BY <1>1, <1>6, <1>9, <1>10, <1>12, <1>13 DEF FoldedNeverDropped, OnlyOnce
  <2> QED
    BY <1>15, <1>16, <2>1 DEF OnlyOnce
<1> QED
  BY <1>14, <1>17 DEF FoldedNeverDropped

\* The record written takes its rejections to the log, or to the failures.
LEMMA WriteFolded ==
  ASSUME TInv, FoldedNeverDropped, NEW w \in Writers, Write(w)
  PROVE  FoldedNeverDropped'
<1>1. PICK rec \in todo[w] :
         /\ rec.of \subseteq Requests
         /\ todo'[w] = todo[w] \ {rec}
         /\ \A v \in Writers \ {w} : todo'[v] = todo[v]
         /\ \/ single' = single \cup rec.of /\ UNCHANGED <<summed, failed>>
            \/ summed' = summed \cup rec.of /\ UNCHANGED <<single, failed>>
            \/ failed' = failed \cup rec.of /\ UNCHANGED <<single, summed>>
         /\ UNCHANGED <<sources, arrived>>
  BY WriteEffect
<1>2. rec.of \subseteq Unwritten
  BY DEF Unwritten
<1>3. rec.of \cap Accounted = {} /\ rec.of \cap Held = {}
  BY <1>2 DEF FoldedNeverDropped, OnlyOnce
<1>4. Accounted' = Accounted \cup rec.of
  BY <1>1 DEF Accounted
<1>5. Held' = Held
  BY <1>1 DEF Held
<1>6. \A v \in Writers : todo'[v] \subseteq todo[v]
  BY <1>1
<1>7. Unwritten' = Unwritten \ rec.of
  <2>1. ASSUME NEW x \in Unwritten, x \notin rec.of
        PROVE  x \in Unwritten'
    <3>1. PICK v \in Writers : \E other \in todo[v] : x \in other.of
      BY DEF Unwritten
    <3>2. \E other \in todo'[v] : x \in other.of
      BY <1>1, <2>1, <3>1
    <3> QED
      BY <3>2 DEF Unwritten
  <2>2. ASSUME NEW x \in Unwritten'
        PROVE  x \in Unwritten /\ x \notin rec.of
    <3>1. PICK v \in Writers : \E other \in todo'[v] : x \in other.of
      BY DEF Unwritten
    <3>2. PICK other \in todo'[v] : x \in other.of
      BY <3>1
    <3>3. other \in todo[v]
      BY <1>6, <3>2
    <3>4. x \notin rec.of
      <4>1. ASSUME x \in rec.of PROVE FALSE
        <5>1. v = w /\ other = rec
          BY <3>2, <3>3, <4>1 DEF FoldedNeverDropped, OnlyOnce
        <5> QED
          BY <1>1, <3>2, <5>1
      <4> QED
        BY <4>1
    <3> QED
      BY <3>2, <3>3, <3>4 DEF Unwritten
  <2> QED
    BY <2>1, <2>2
<1>8. 1..arrived' = Accounted' \cup Unwritten' \cup Held'
  BY <1>1, <1>2, <1>4, <1>5, <1>7 DEF FoldedNeverDropped
<1>9. /\ (single \cap summed = {})' /\ (failed \cap (single \cup summed) = {})'
  BY <1>1, <1>3 DEF FoldedNeverDropped, OnlyOnce, Accounted
<1>10. /\ (Accounted \cap Unwritten = {})' /\ (Accounted \cap Held = {})'
       /\ (Unwritten \cap Held = {})'
  BY <1>3, <1>4, <1>5, <1>7 DEF FoldedNeverDropped, OnlyOnce
<1>11. ASSUME NEW u \in Writers, NEW v \in Writers, NEW one \in todo'[u], NEW two \in todo'[v],
              one.of \cap two.of # {}
       PROVE  u = v /\ one = two
  <2>1. one \in todo[u] /\ two \in todo[v]
    BY <1>6
  <2> QED
    BY <1>11, <2>1 DEF FoldedNeverDropped, OnlyOnce
<1>12. OnlyOnce'
  BY <1>1, <1>9, <1>10, <1>11 DEF FoldedNeverDropped, OnlyOnce
<1> QED
  BY <1>8, <1>12 DEF FoldedNeverDropped

\* Collecting hands the counts of some buckets to one writer, which had none.
LEMMA CollectsFolded ==
  ASSUME TInv, FoldedNeverDropped, NEW w \in Writers, todo[w] = {},
         NEW S \in SUBSET DOMAIN sources, Collects(w, S)
  PROVE  FoldedNeverDropped'
<1>1. /\ todo'[w] = Summaries(S)
      /\ \A v \in Writers \ {w} : todo'[v] = todo[v]
      /\ DOMAIN sources' = DOMAIN sources \ S
      /\ \A k \in DOMAIN sources \ S : sources'[k] = sources[k]
      /\ UNCHANGED <<arrived, single, summed, failed>>
  BY DEF Collects
<1>2. /\ \A rec \in todo'[w] : \E k \in S :
           rec = Summary(k, sources[k].suppressed) /\ rec.of = sources[k].suppressed
      /\ \A k \in S : sources[k].suppressed # {} =>
           \E rec \in todo'[w] : rec.of = sources[k].suppressed
  BY <1>1, SummariesFacts
<1>3. Accounted' = Accounted
  BY <1>1 DEF Accounted
<1>5. ASSUME NEW x
      PROVE  x \in Unwritten' <=> x \in Unwritten \/ \E k \in S : x \in sources[k].suppressed
  <2>1. ASSUME x \in Unwritten
        PROVE  x \in Unwritten'
    <3>1. PICK v \in Writers : \E rec \in todo[v] : x \in rec.of
      BY <2>1 DEF Unwritten
    <3>2. todo'[v] = todo[v]
      BY <1>1, <3>1
    <3> QED
      BY <3>1, <3>2 DEF Unwritten
  <2>2. ASSUME NEW k \in S, x \in sources[k].suppressed
        PROVE  x \in Unwritten'
    <3>1. \E rec \in todo'[w] : x \in rec.of
      BY <1>2, <2>2
    <3> QED
      BY <3>1 DEF Unwritten
  <2>3. ASSUME x \in Unwritten'
        PROVE  x \in Unwritten \/ \E k \in S : x \in sources[k].suppressed
    <3>1. PICK v \in Writers : \E rec \in todo'[v] : x \in rec.of
      BY <2>3 DEF Unwritten
    <3>2. CASE v = w
      BY <1>2, <3>1, <3>2
    <3>3. CASE v # w
      <4>1. todo'[v] = todo[v]
        BY <1>1, <3>3
      <4> QED
        BY <3>1, <4>1 DEF Unwritten
    <3> QED
      BY <3>2, <3>3
  <2> QED
    BY <2>1, <2>2, <2>3
<1>6. ASSUME NEW x
      PROVE  x \in Held' <=> x \in Held /\ ~ \E k \in S : x \in sources[k].suppressed
  <2>1. ASSUME x \in Held'
        PROVE  x \in Held /\ ~ \E k \in S : x \in sources[k].suppressed
    <3>1. PICK j \in DOMAIN sources' : x \in sources'[j].suppressed
      BY <2>1 DEF Held
    <3>2. j \in DOMAIN sources /\ j \notin S /\ x \in sources[j].suppressed
      BY <1>1, <3>1
    <3>3. ASSUME NEW k \in S, x \in sources[k].suppressed PROVE FALSE
      BY <3>2, <3>3 DEF FoldedNeverDropped, OnlyOnce
    <3> QED
      BY <3>2, <3>3 DEF Held
  <2>2. ASSUME x \in Held, ~ \E k \in S : x \in sources[k].suppressed
        PROVE  x \in Held'
    <3>1. PICK j \in DOMAIN sources : x \in sources[j].suppressed
      BY <2>2 DEF Held
    <3>2. j \in DOMAIN sources' /\ x \in sources'[j].suppressed
      BY <1>1, <2>2, <3>1
    <3> QED
      BY <3>2 DEF Held
  <2> QED
    BY <2>1, <2>2
<1>7. \A k \in S : sources[k].suppressed \subseteq Held
  BY DEF Held
<1>8. Unwritten' \cup Held' = Unwritten \cup Held
  BY <1>5, <1>6, <1>7
<1>9. 1..arrived' = Accounted' \cup Unwritten' \cup Held'
  BY <1>1, <1>3, <1>8 DEF FoldedNeverDropped
<1>10. /\ (single \cap summed = {})' /\ (failed \cap (single \cup summed) = {})'
  BY <1>1 DEF FoldedNeverDropped, OnlyOnce
<1>11. (Accounted \cap Unwritten = {})' /\ (Accounted \cap Held = {})'
  BY <1>3, <1>8 DEF FoldedNeverDropped, OnlyOnce
<1>12. (Unwritten \cap Held = {})'
  BY <1>5, <1>6 DEF FoldedNeverDropped, OnlyOnce
<1>13. ASSUME NEW u \in Writers, NEW v \in Writers, NEW one \in todo'[u], NEW two \in todo'[v],
              NEW x, x \in one.of, x \in two.of
       PROVE  u = v /\ one = two
  <2>1. CASE u # w /\ v # w
    <3>1. one \in todo[u] /\ two \in todo[v]
      BY <1>1, <2>1
    <3> QED
      BY <1>13, <3>1 DEF FoldedNeverDropped, OnlyOnce
  <2>2. CASE u = w /\ v = w
    <3>1. PICK j \in S : one = Summary(j, sources[j].suppressed) /\ one.of = sources[j].suppressed
      BY <1>2, <2>2
    <3>2. PICK k \in S : two = Summary(k, sources[k].suppressed) /\ two.of = sources[k].suppressed
      BY <1>2, <2>2
    <3>3. j = k
      BY <1>13, <3>1, <3>2 DEF FoldedNeverDropped, OnlyOnce
    <3> QED
      BY <2>2, <3>1, <3>2, <3>3
  <2>3. ASSUME NEW a \in Writers, a # w, NEW rec \in todo'[a], NEW other \in todo'[w],
               x \in rec.of, x \in other.of
        PROVE  FALSE
    <3>1. x \in Unwritten
      BY <1>1, <2>3 DEF Unwritten
    <3>2. x \in Held
      BY <1>2, <1>7, <2>3
    <3> QED
      BY <3>1, <3>2 DEF FoldedNeverDropped, OnlyOnce
  <2> QED
    BY <1>13, <2>1, <2>2, <2>3
<1>14. ASSUME NEW i \in DOMAIN sources', NEW j \in DOMAIN sources',
              sources'[i].suppressed \cap sources'[j].suppressed # {}
       PROVE  i = j
  <2>1. /\ i \in DOMAIN sources /\ sources'[i] = sources[i]
        /\ j \in DOMAIN sources /\ sources'[j] = sources[j]
    BY <1>1
  <2> QED
    BY <1>14, <2>1 DEF FoldedNeverDropped, OnlyOnce
<1>15. OnlyOnce'
  BY <1>10, <1>11, <1>12, <1>13, <1>14 DEF OnlyOnce
<1> QED
  BY <1>9, <1>15 DEF FoldedNeverDropped

\* The clock moves the ages only.
LEMMA TickFolded ==
  ASSUME TInv, FoldedNeverDropped, Tick
  PROVE  FoldedNeverDropped'
<1>1. /\ DOMAIN sources' = DOMAIN sources
      /\ \A k \in DOMAIN sources : sources'[k].suppressed = sources[k].suppressed
      /\ UNCHANGED <<todo, arrived, single, summed, failed>>
  BY TickEffect
<1>2. Held' = Held
  <2>1. ASSUME NEW x PROVE x \in Held' <=> x \in Held
    BY <1>1 DEF Held
  <2> QED
    BY <2>1
<1>3. Accounted' = Accounted /\ Unwritten' = Unwritten
  BY <1>1 DEF Accounted, Unwritten
<1>4. OnlyOnce'
  BY <1>1, <1>2, <1>3 DEF FoldedNeverDropped, OnlyOnce
<1> QED
  BY <1>1, <1>2, <1>3, <1>4 DEF FoldedNeverDropped

\* The steps of the shutdown that touch neither counts nor records.
LEMMA StillFolded ==
  ASSUME FoldedNeverDropped, UNCHANGED <<sources, todo, arrived, single, summed, failed>>
  PROVE  FoldedNeverDropped'
BY DEF FoldedNeverDropped, OnlyOnce, Accounted, Unwritten, Held

\* No step loses a rejection or counts it twice.
LEMMA FoldedKept ==
  ASSUME IInv, [Next]_vars
  PROVE  FoldedNeverDropped'
<1>1. CASE UNCHANGED vars
  BY <1>1, StillFolded DEF vars, IInv
<1>2. ASSUME NEW src \in Sources, Reject(src) PROVE FoldedNeverDropped'
  BY <1>2, RejectFolded DEF IInv
<1>3. ASSUME NEW w \in Writers, Write(w) PROVE FoldedNeverDropped'
  BY <1>3, WriteFolded DEF IInv
<1>4. CASE Sweep
  BY <1>4, SweepEffect, CollectsFolded, WritersDiffer DEF IInv
<1>5. CASE Drain
  <2>1. todo[Close] = {}
    BY <1>5 DEF Drain, IInv, Orderly
  <2>2. Collects(Close, DOMAIN sources)
    BY <1>5, DrainEffect DEF IInv
  <2> QED
    BY <2>1, <2>2, CollectsFolded, WritersDiffer DEF IInv
<1>6. CASE Stop \/ FlushStops \/ CloseReturns
  BY <1>6, StillFolded DEF IInv, Stop, FlushStops, CloseReturns
<1>7. CASE Tick
  BY <1>7, TickFolded DEF IInv
<1> QED
  BY <1>1, <1>2, <1>3, <1>4, <1>5, <1>6, <1>7 DEF Next
-----------------------------------------------------------------------------
(* The theorems *)

\* Every reachable state has the types, the bound of the table, the order of
\* the shutdown and each rejection in one place.
THEOREM BudgetInvariant == Spec => []IInv
<1>1. Init => IInv
  BY StartsTyped, StartsFolded DEF IInv
<1>2. IInv /\ [Next]_vars => IInv'
  BY TypesKept, FoldedKept DEF IInv
<1> QED
  BY <1>1, <1>2, PTL DEF Spec

\* The types, and the cap of the table (auditBudgetMaxSources, and the bucket
\* unseen sources share) under any number of sources.
THEOREM TypeCorrect == Spec => []TypeOK
<1>1. IInv => TypeOK
  <2> SUFFICES ASSUME IInv PROVE TypeOK
    OBVIOUS
  <2>1. Cardinality(DOMAIN sources) <= MaxSources + 1
    <3> DEFINE Own == DOMAIN sources \ {Overflow}
    <3>1. IsFiniteSet(Own)
      BY KeysFinite, FS_Subset DEF IInv
    <3>2. /\ IsFiniteSet(Own \cup {Overflow})
          /\ Cardinality(Own \cup {Overflow}) = Cardinality(Own) + 1
      BY <3>1, FS_AddElement
    <3>3. DOMAIN sources \subseteq Own \cup {Overflow}
      OBVIOUS
    <3>4. Cardinality(DOMAIN sources) <= Cardinality(Own \cup {Overflow})
      BY <3>2, <3>3, FS_Subset
    <3>5. IsFiniteSet(DOMAIN sources)
      BY KeysFinite DEF IInv
    <3>6. Cardinality(Own) <= MaxSources
      BY DEF IInv, Room
    <3>7. Cardinality(DOMAIN sources) \in Nat /\ Cardinality(Own) \in Nat
      BY <3>1, <3>5, FS_CardinalityType
    <3> QED
      BY <3>2, <3>4, <3>6, <3>7, BudgetAssumption
  <2> QED
    BY <2>1 DEF IInv, TInv, TypeOK
<1> QED
  BY <1>1, BudgetInvariant, PTL

\* "Folded, never dropped", for any number of sources and of rejections and
\* whatever the audit store refuses.
THEOREM FoldedSafe == Spec => []FoldedNeverDropped
<1>1. IInv => FoldedNeverDropped
  BY DEF IInv
<1> QED
  BY <1>1, BudgetInvariant, PTL

\* Close leaves no count in memory once the handlers have all finished.
THEOREM CloseSafe == Spec => []CloseLeavesNothing
<1>1. IInv => CloseLeavesNothing
  <2> SUFFICES ASSUME IInv, closer = "closed", ~ timedOut PROVE 1..arrived \subseteq Accounted
    BY DEF CloseLeavesNothing
  <2>1. DOMAIN sources = {} /\ \A w \in Writers : todo[w] = {}
    BY DEF IInv, Orderly, Writers
  <2>2. Held = {} /\ Unwritten = {}
    BY <2>1 DEF Held, Unwritten
  <2> QED
    BY <2>2 DEF IInv, FoldedNeverDropped
<1> QED
  BY <1>1, BudgetInvariant, PTL
=============================================================================
