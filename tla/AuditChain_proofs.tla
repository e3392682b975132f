-------------------------- MODULE AuditChain_proofs --------------------------
(***************************************************************************)
(* Proofs about AuditChain, for logs of every length and any number of     *)
(* stops.  Two groups of environments are told apart: those in which what  *)
(* was reported as recorded stays in the log, and, among them, those in    *)
(* which every start reconciles the log with its mark.                     *)
(***************************************************************************)
EXTENDS AuditChain, SequenceTheorems, TLAPS

AllDurable == \A sc \in Scenarios : Durable(sc)

AllReconciled == AllDurable /\ \A sc \in Scenarios : Reconciled(sc)
-----------------------------------------------------------------------------
(* The inductive invariants *)

\* The log is a row of records; a fragment may be its last line while no
\* process has it open.
Shape ==
  /\ \A i \in 1..Len(log) :
       log[i] \in Records \/ (i = Len(log) /\ log[i] = Fragment)
  /\ pc \notin {"down", "refused"} => \A i \in 1..Len(log) : log[i] \in Records

\* The record of the call under way is the last line, flushed where Log is past
\* its flush.
CallUnderWay ==
  /\ pc \in {"written", "flushed"} => Len(log) > 0 /\ log[Len(log)].entry = minted
  /\ pc = "flushed" => synced = Len(log)

\* Where power may fail the log is of the current format from the start, so it
\* is never rewritten.
NotRewritten ==
  Fault("power") => \A i \in 1..Len(log) : log[i] \in Records => log[i].fmt = "shared"

\* What was reported as recorded is in the part that no fault can take.
AckedIsSafe ==
  \A e \in acked : \E i \in 1..Len(log) :
    /\ log[i] \in Records /\ log[i].entry = e
    /\ Fault("power") => i <= synced

AInv ==
  /\ TypeOK
  /\ Shape
  /\ CallUnderWay
  /\ NotRewritten
  /\ AckedIsSafe

\* An older log is as it was found until the one start that converts it.
Untouched ==
  /\ env.legacy /\ env.start > 0
  /\ pc = "down"
  /\ log = Chain("legacy", env.start)
  /\ mark = MarkOf(log)

\* Every record follows the one before it.
Chained ==
  \A i \in 1..Len(log) : log[i] \in Records =>
    Follows(i, IF i = 1 THEN Genesis ELSE DigestOf(log[i - 1]))

\* The anchor is that of the records that were flushed.
AnchorIsLast ==
  /\ pc \in {"idle", "adopting", "flushed", "converting"} => anchor = MarkOf(log)
  /\ pc = "written" => anchor = MarkOf(SubSeq(log, 1, Len(log) - 1))

Names(m) ==
  /\ m.count \in 1..Len(log)
  /\ log[m.count] \in Records
  /\ m.hash = DigestOf(log[m.count])

\* The mark names a record of the log, and so does every mark a power loss may
\* bring back, of the flushed part.
MarkBehind ==
  env.start > 0 =>
    /\ IF pc = "converting" THEN Len(log) > 0 ELSE Names(mark)
    /\ Fault("power") => \A m \in marks : Names(m) /\ m.count <= synced

\* Where power may fail only the record being written is not flushed.
Flushed ==
  Fault("power") => synced = IF pc = "written" THEN Len(log) - 1 ELSE Len(log)

\* From an empty log, which nothing interrupts, the mark never stays behind.
FreshStart ==
  env.start = 0 =>
    /\ pc \in {"down", "idle", "written", "flushed"}
    /\ \A i \in 1..Len(log) : log[i] \in Records
    /\ pc \in {"down", "idle"} => mark = MarkOf(log)

Sound ==
  /\ Chained
  /\ AnchorIsLast
  /\ MarkBehind
  /\ Flushed
  /\ FreshStart

CInv ==
  /\ pc # "refused"
  /\ Untouched \/ Sound
-----------------------------------------------------------------------------
(* Helpers *)

Lines == Records \cup {Fragment, Junk}

\* A line that says it is a record is one.
LEMMA KindOfRecord ==
  \A x \in Lines : x.kind = "record" <=> x \in Records
BY DEF Lines, Records, Fragment, Junk

\* A fragment is not a record.
LEMMA FragmentIsNone == Fragment \notin Records /\ Junk \notin Records
BY DEF Records, Fragment, Junk

\* The digest of a record.
LEMMA DigestType == \A r \in Records : DigestOf(r) \in Digests
BY DEF Records, DigestOf, Digests

\* The fresh log of a scenario is a row of records, each linked to the last.
LEMMA ChainFacts ==
  ASSUME NEW fmt \in {"legacy", "shared"}, NEW n \in Nat
  PROVE  /\ Chain(fmt, n) \in Seq(Lines)
         /\ Len(Chain(fmt, n)) = n
         /\ \A i \in 1..n :
              /\ Chain(fmt, n)[i] \in Records
              /\ Chain(fmt, n)[i].fmt = fmt
              /\ Chain(fmt, n)[i].entry = i
              /\ Chain(fmt, n)[i].seq = i
              /\ Chain(fmt, n)[i].prev =
                   IF i = 1 THEN Genesis ELSE DigestOf(Chain(fmt, n)[i - 1])
<1> DEFINE C == Chain(fmt, n)
           Prev(i) == IF i = 1 THEN Genesis ELSE [fmt |-> fmt, entry |-> i - 1]
<1>1. C = [i \in 1..n |-> C[i]]
  BY DEF Chain
<1>2. \A i \in 1..n :
        C[i] = [kind |-> "record", fmt |-> fmt, entry |-> i, seq |-> i, prev |-> Prev(i)]
  BY DEF Chain
<1> HIDE DEF C
<1>3. \A i \in 1..n : Prev(i) \in Digests
  BY DEF Genesis, Digests
<1> HIDE DEF Prev
<1>4. ASSUME NEW i \in 1..n
      PROVE  /\ C[i] \in Records
             /\ C[i].fmt = fmt /\ C[i].entry = i /\ C[i].seq = i /\ C[i].prev = Prev(i)
  <2>1. C[i] = [kind |-> "record", fmt |-> fmt, entry |-> i, seq |-> i, prev |-> Prev(i)]
    BY <1>2
  <2>2. Prev(i) \in Digests /\ i \in Nat
    BY <1>3
  <2> QED
    BY <2>1, <2>2 DEF Records
<1>5. C \in [1..n -> Lines]
  BY <1>1, <1>4 DEF Lines
<1>6. C \in Seq(Lines)
  BY <1>5, SeqDef
<1>7. Len(C) = n
  BY <1>5, <1>6, LenProperties
<1>8. ASSUME NEW i \in 1..n PROVE Prev(i) = IF i = 1 THEN Genesis ELSE DigestOf(C[i - 1])
  <2>1. CASE i = 1
    BY <2>1 DEF Prev
  <2>2. CASE i # 1
    <3>1. i - 1 \in 1..n
      BY <2>2
    <3>2. C[i - 1].fmt = fmt /\ C[i - 1].entry = i - 1
      BY <1>4, <3>1
    <3> QED
      BY <2>2, <3>2 DEF DigestOf, Prev
  <2> QED
    BY <2>1, <2>2
<1>9. \A i \in 1..n : C[i].prev = IF i = 1 THEN Genesis ELSE DigestOf(C[i - 1])
  BY <1>4, <1>8
<1> QED
  BY <1>4, <1>6, <1>7, <1>9 DEF C

\* The mark of a row of records counts it and names its last one.
LEMMA MarkOfType ==
  ASSUME NEW l \in Seq(Lines), Len(l) > 0 => l[Len(l)] \in Records
  PROVE  /\ MarkOf(l) \in Marks
         /\ MarkOf(l).count = Len(l)
         /\ Len(l) > 0 => MarkOf(l).hash = DigestOf(l[Len(l)])
         /\ Len(l) = 0 => MarkOf(l).hash = Genesis
<1>1. Len(l) \in Nat /\ (l = << >> <=> Len(l) = 0)
  BY LenProperties, EmptySeq
<1>2. Genesis \in Digests
  BY DEF Genesis, Digests
<1> QED
  BY <1>1, <1>2, DigestType DEF MarkOf, Marks

\* A line added at the end leaves the others where they are.
LEMMA AppendFacts ==
  ASSUME NEW l \in Seq(Lines), NEW x \in Lines
  PROVE  /\ Append(l, x) \in Seq(Lines)
         /\ Len(Append(l, x)) = Len(l) + 1
         /\ Append(l, x)[Len(l) + 1] = x
         /\ \A i \in 1..Len(l) : Append(l, x)[i] = l[i]
         /\ SubSeq(Append(l, x), 1, Len(l)) = l
<1>1. /\ Append(l, x) \in Seq(Lines)
      /\ Len(Append(l, x)) = Len(l) + 1
      /\ Append(l, x)[Len(l) + 1] = x
      /\ \A i \in 1..Len(l) : Append(l, x)[i] = l[i]
      /\ Len(l) \in Nat
  BY AppendProperties, LenProperties
<1>2. \A i \in 1..Len(l) : Append(l, x)[i] \in Lines
  BY <1>1, ElementOfSeq
<1> DEFINE s == SubSeq(Append(l, x), 1, Len(l))
<1>3. s \in Seq(Lines) /\ Len(s) = Len(l) /\ \A i \in 1..Len(l) : s[i] = l[i]
  <2>1. Len(l) \in Int /\ 1 \in Int
    BY <1>1
  <2>2. /\ s \in Seq(Lines)
        /\ Len(s) = IF 1 <= Len(l) THEN Len(l) - 1 + 1 ELSE 0
        /\ \A i \in 1..(Len(l) - 1 + 1) : s[i] = Append(l, x)[1 + i - 1]
    BY <1>2, <2>1, SubSeqProperties
  <2> QED
    BY <1>1, <2>2
<1>4. s = l
  BY <1>3, SeqEqual
<1> QED
  BY <1>1, <1>4

\* The first lines of a log.
LEMMA PrefixFacts ==
  ASSUME NEW l \in Seq(Lines), NEW n \in 0..Len(l)
  PROVE  /\ SubSeq(l, 1, n) \in Seq(Lines)
         /\ Len(SubSeq(l, 1, n)) = n
         /\ \A i \in 1..n : SubSeq(l, 1, n)[i] = l[i]
         /\ n = Len(l) => SubSeq(l, 1, n) = l
<1>1. Len(l) \in Nat /\ n \in Nat
  BY LenProperties
<1>2. \A i \in 1..n : l[i] \in Lines
  BY <1>1, ElementOfSeq
<1> DEFINE s == SubSeq(l, 1, n)
<1>3. /\ s \in Seq(Lines)
      /\ Len(s) = IF 1 <= n THEN n - 1 + 1 ELSE 0
      /\ \A i \in 1..(n - 1 + 1) : s[i] = l[1 + i - 1]
  BY <1>1, <1>2, SubSeqProperties
<1>4. Len(s) = n /\ \A i \in 1..n : s[i] = l[i]
  BY <1>1, <1>3
<1>5. n = Len(l) => s = l
  BY <1>3, <1>4, SeqEqual
<1> QED
  BY <1>3, <1>4, <1>5

\* What TypeOK says of the lines of the log.
LEMMA LogFacts ==
  ASSUME TypeOK
  PROVE  /\ log \in Seq(Lines) /\ Len(log) \in Nat
         /\ \A i \in 1..Len(log) : log[i] \in Lines
         /\ \A i \in 1..Len(log) : IsRecord(i) <=> log[i] \in Records
<1>1. log \in Seq(Lines)
  BY DEF TypeOK, Lines
<1> QED
  BY <1>1, LenProperties, ElementOfSeq, KindOfRecord DEF IsRecord

\* NewStore reads all records, and leaves at most the fragment behind them.
LEMMA ReadableFacts ==
  ASSUME TypeOK, Shape
  PROVE  /\ Readable \in 0..Len(log)
         /\ Readable >= Len(log) - 1
         /\ \A i \in 1..Readable : log[i] \in Records
         /\ \A i \in 1..Len(log) : log[i] \in Records => i <= Readable
         /\ OnlyFragmentAfter(Readable)
<1> DEFINE Q(n) == /\ \A i \in 1..n : IsRecord(i)
                   /\ n < Len(log) => ~IsRecord(n + 1)
<1>1. Len(log) \in Nat /\ \A i \in 1..Len(log) : IsRecord(i) <=> log[i] \in Records
  BY LogFacts
<1>2. \E n \in 0..Len(log) : Q(n)
  <2>1. CASE \A i \in 1..Len(log) : log[i] \in Records
    BY <1>1, <2>1
  <2>2. CASE ~ \A i \in 1..Len(log) : log[i] \in Records
    <3>1. Len(log) > 0 /\ log[Len(log)] = Fragment
          /\ \A i \in 1..(Len(log) - 1) : log[i] \in Records
      BY <1>1, <2>2 DEF Shape
    <3>2. Len(log) - 1 \in 0..Len(log) /\ Q(Len(log) - 1)
      BY <1>1, <3>1, FragmentIsNone
    <3> QED
      BY <3>2
  <2> QED
    BY <2>1, <2>2
<1>3. Readable \in 0..Len(log) /\ Q(Readable)
  BY <1>2 DEF Readable
<1>4. \A i \in 1..Readable : log[i] \in Records
  BY <1>1, <1>3
<1>5. Readable < Len(log) => Readable + 1 = Len(log) /\ log[Len(log)] = Fragment
  BY <1>1, <1>3 DEF Shape
<1> QED
  BY <1>1, <1>3, <1>4, <1>5, FragmentIsNone DEF OnlyFragmentAfter

\* A log of records alone is read whole.
LEMMA ReadableWhole ==
  ASSUME TypeOK, Shape, \A i \in 1..Len(log) : log[i] \in Records
  PROVE  Readable = Len(log)
BY ReadableFacts, LogFacts
-----------------------------------------------------------------------------
(* What was reported as recorded stays in the log *)

\* A server that finds a log of its own starts from the invariant.
LEMMA AInvInit ==
  ASSUME AllDurable, Init
  PROVE  AInv
<1>1. env \in Scenario /\ Durable(env) /\ env.start \in Nat
  BY ScenarioAssumption DEF AllDurable, Init, Scenario
<1>2. /\ env \in Scenarios
      /\ synced = env.start /\ mark = MarkOf(log) /\ marks = {mark} /\ pc = "down"
      /\ anchor = mark /\ minted = env.start /\ acked = 1..env.start
  BY DEF Init
<1>3. PICK fmt \in {"legacy", "shared"} :
        log = Chain(fmt, env.start) /\ (fmt = "legacy" => env.legacy)
  BY DEF Init
<1>4. /\ log \in Seq(Lines) /\ Len(log) = env.start
      /\ \A i \in 1..Len(log) :
           log[i] \in Records /\ log[i].fmt = fmt /\ log[i].entry = i
  <2>1. PICK n \in Nat : n = env.start
    BY <1>1
  <2>2. PICK l : l = Chain(fmt, n)
    OBVIOUS
  <2>3. /\ l \in Seq(Lines) /\ Len(l) = n
        /\ \A i \in 1..n : l[i] \in Records /\ l[i].fmt = fmt /\ l[i].entry = i
    BY <2>2, ChainFacts
  <2>4. log = l /\ env.start = n
    BY <1>3, <2>1, <2>2
  <2> QED
    BY <2>3, <2>4
<1>5. mark \in Marks
  BY <1>1, <1>2, <1>4, MarkOfType
<1>6. TypeOK
  BY <1>1, <1>2, <1>4, <1>5 DEF TypeOK, Lines
<1>7. Shape /\ CallUnderWay
  BY <1>2, <1>4 DEF Shape, CallUnderWay
<1>8. NotRewritten
  BY <1>1, <1>3, <1>4 DEF NotRewritten, Fault, Durable
<1>9. AckedIsSafe
  BY <1>1, <1>2, <1>4 DEF AckedIsSafe
<1> QED
  BY <1>6, <1>7, <1>8, <1>9 DEF AInv

\* What the environment may do, in every state.
LEMMA EnvFacts ==
  ASSUME TypeOK
  PROVE  /\ AllDurable => Durable(env)
         /\ AllReconciled => Reconciled(env)
         /\ env.start \in Nat
BY ScenarioAssumption DEF TypeOK, AllDurable, AllReconciled, Scenario

\* The record Log is about to write is one.
LEMMA MintedIsRecord ==
  ASSUME TypeOK, NEW e \in Nat
  PROVE  /\ Minted(e) \in Records
         /\ Minted(e).fmt = "shared" /\ Minted(e).entry = e
         /\ Minted(e).seq = anchor.count + 1 /\ Minted(e).prev = anchor.hash
<1>1. anchor.count + 1 \in Nat /\ anchor.hash \in Digests
  BY DEF TypeOK, Marks
<1> QED
  BY <1>1 DEF Minted, Records

\* Moves of the mark or of the process leave the log alone.
QuietStep ==
  \/ WriteFails /\ UNCHANGED log
  \/ SaveAnchorFails \/ Stop \/ Crash \/ Adopt \/ SaveConverted \/ UNCHANGED vars

\* Steps that leave the log alone keep the invariant.
LEMMA QuietKeepsA ==
  ASSUME AInv, QuietStep
  PROVE  AInv'
<1>1. UNCHANGED <<env, log, synced, anchor, acked>> /\ minted' \in Nat
  BY DEF QuietStep, WriteFails, SaveAnchorFails, Stop, Crash, Adopt, SaveConverted,
         vars, AInv, TypeOK
<1>2. /\ mark' \in Marks /\ marks' \subseteq Marks /\ mark' \in marks'
      /\ pc' \in {"down", "idle"} \/ UNCHANGED <<pc, minted>>
      /\ pc = "down" => pc' = "down"
      /\ pc = "refused" => pc' = "refused"
  BY DEF QuietStep, WriteFails, SaveAnchorFails, Stop, Crash, Adopt, SaveConverted,
         WriteState, vars, AInv, TypeOK
<1>3. TypeOK'
  BY <1>1, <1>2 DEF AInv, TypeOK
<1>4. Shape' /\ CallUnderWay'
  BY <1>1, <1>2 DEF AInv, Shape, CallUnderWay
<1>5. NotRewritten' /\ AckedIsSafe'
  BY <1>1 DEF AInv, NotRewritten, AckedIsSafe, Fault
<1> QED
  BY <1>3, <1>4, <1>5 DEF AInv

\* Writing a record keeps the invariant: the log is all records then.
LEMMA LogKeepsA ==
  ASSUME AInv, Log
  PROVE  AInv'
<1>1. /\ pc = "idle" /\ pc' = "written" /\ minted' = minted + 1
      /\ minted \in Nat /\ minted + 1 \in Nat
      /\ UNCHANGED <<env, synced, mark, marks, anchor, acked>>
  BY DEF Log, AInv, TypeOK
<1> DEFINE r == Minted(minted + 1)
<1>2. r \in Records /\ r \in Lines /\ r.fmt = "shared" /\ r.entry = minted + 1
  BY <1>1, MintedIsRecord DEF AInv, Lines
<1> HIDE DEF r
<1>3. log \in Seq(Lines) /\ Len(log) \in Nat /\ \A i \in 1..Len(log) : log[i] \in Records
  BY <1>1, LogFacts DEF AInv, Shape
<1>4. log' = Append(log, r)
  <2>1. ~ EndsInFragment
    BY <1>3, FragmentIsNone, EmptySeq DEF EndsInFragment
  <2> QED
    BY <2>1 DEF Log, Written, r
<1>5. /\ log' \in Seq(Lines) /\ Len(log') = Len(log) + 1 /\ log'[Len(log')] = r
      /\ \A i \in 1..Len(log) : log'[i] = log[i]
  BY <1>2, <1>3, <1>4, AppendFacts
<1>6. \A i \in 1..Len(log') : log'[i] \in Records
  <2>1. ASSUME NEW i \in 1..Len(log') PROVE i \in 1..Len(log) \/ i = Len(log')
    BY <1>3, <1>5
  <2> QED
    BY <1>2, <1>3, <1>5, <2>1
<1>7. TypeOK'
  BY <1>1, <1>3, <1>5 DEF AInv, TypeOK, Lines
<1>8. Shape' /\ CallUnderWay'
  BY <1>1, <1>2, <1>3, <1>5, <1>6 DEF Shape, CallUnderWay
<1>9. NotRewritten'
  BY <1>1, <1>2, <1>3, <1>5 DEF AInv, NotRewritten, Fault
<1>10. AckedIsSafe'
  <2> SUFFICES ASSUME NEW e \in acked
               PROVE  \E i \in 1..Len(log') : /\ log'[i] \in Records /\ log'[i].entry = e
                                              /\ Fault("power") => i <= synced
    BY <1>1 DEF AckedIsSafe, Fault
  <2>1. PICK i \in 1..Len(log) : /\ log[i] \in Records /\ log[i].entry = e
                                 /\ Fault("power") => i <= synced
    BY DEF AInv, AckedIsSafe
  <2> QED
    BY <1>3, <1>5, <2>1
<1> QED
  BY <1>7, <1>8, <1>9, <1>10 DEF AInv

\* A flush, and the mark after it, keep the invariant: what is acknowledged now
\* was flushed before.
LEMMA SyncKeepsA ==
  ASSUME AInv, Sync \/ SaveAnchor
  PROVE  AInv'
<1>1. /\ UNCHANGED <<env, log, minted>> /\ Len(log) \in Nat /\ minted \in Nat
      /\ synced \in 0..Len(log) /\ synced' \in {synced, Len(log)}
      /\ pc \in {"written", "flushed"} /\ pc' \in {"flushed", "idle"}
      /\ pc' = "flushed" => pc = "written" /\ synced' = Len(log)
      /\ Len(log) > 0 /\ log[Len(log)].entry = minted
      /\ \A i \in 1..Len(log) : log[i] \in Records
  BY LogFacts DEF Sync, SaveAnchor, AInv, TypeOK, CallUnderWay, Shape
<1>2. anchor' \in Marks
  <2>1. CASE UNCHANGED anchor
    BY <2>1 DEF AInv, TypeOK
  <2>2. CASE anchor' = [count |-> anchor.count + 1, hash |-> DigestOf(Minted(minted))]
    BY <1>1, <2>2, MintedIsRecord, DigestType DEF AInv, TypeOK, Marks
  <2> QED
    BY <2>1, <2>2 DEF Sync, SaveAnchor
<1>3. mark' \in Marks /\ marks' \subseteq Marks /\ mark' \in marks'
  BY DEF Sync, SaveAnchor, WriteState, AInv, TypeOK
<1>4. /\ acked' \subseteq acked \cup {minted}
      /\ acked' # acked => pc = "flushed" /\ UNCHANGED synced
  BY DEF Sync, SaveAnchor
<1>5. TypeOK'
  <2>1. acked' \subseteq Nat /\ synced' \in 0..Len(log)
    BY <1>1, <1>4 DEF AInv, TypeOK
  <2> QED
    BY <1>1, <1>2, <1>3, <2>1 DEF AInv, TypeOK
<1>6. Shape' /\ CallUnderWay' /\ NotRewritten'
  BY <1>1 DEF AInv, Shape, CallUnderWay, NotRewritten, Fault
<1>7. AckedIsSafe'
  <2> SUFFICES ASSUME NEW e \in acked'
               PROVE  \E i \in 1..Len(log) : /\ log[i] \in Records /\ log[i].entry = e
                                             /\ Fault("power") => i <= synced'
    BY <1>1 DEF AckedIsSafe, Fault
  <2>1. CASE e \in acked
    <3>1. PICK i \in 1..Len(log) : /\ log[i] \in Records /\ log[i].entry = e
                                   /\ Fault("power") => i <= synced
      BY <2>1 DEF AInv, AckedIsSafe
    <3>2. i <= synced => i <= synced'
      BY <1>1
    <3> QED
      BY <3>1, <3>2
  <2>2. CASE e \notin acked
    <3>1. e = minted /\ synced' = Len(log)
      BY <1>4, <2>2 DEF AInv, CallUnderWay
    <3> QED
      BY <1>1, <3>1
  <2> QED
    BY <2>1, <2>2
<1> QED
  BY <1>5, <1>6, <1>7 DEF AInv

\* A log cut back to its first n lines, or to these and a fragment.
CutTo(n) ==
  \/ log' = SubSeq(log, 1, n)
  \/ ~ (n > 0 /\ log[n] = Fragment) /\ log' = Append(SubSeq(log, 1, n), Fragment)

\* What a power loss leaves: a prefix, and a fragment of the line behind it.
LEMMA CutFacts ==
  ASSUME TypeOK, Shape, NEW n \in 0..Len(log), CutTo(n)
  PROVE  /\ log' \in Seq(Lines) /\ n <= Len(log') /\ Len(log') \in Nat
         /\ \A i \in 1..n : log'[i] = log[i]
         /\ \A i \in 1..Len(log') :
              \/ i \in 1..n /\ log[i] \in Records
              \/ i = Len(log') /\ log'[i] = Fragment
<1>1. log \in Seq(Lines) /\ Len(log) \in Nat /\ n \in Nat /\ Fragment \in Lines
  BY LogFacts DEF Lines
<1> DEFINE s == SubSeq(log, 1, n)
<1>2. s \in Seq(Lines) /\ Len(s) = n /\ \A i \in 1..n : s[i] = log[i]
  BY <1>1, PrefixFacts
<1>3. \A i \in 1..n : log[i] \in Records \/ (i = n /\ n = Len(log) /\ log[i] = Fragment)
  BY <1>1 DEF Shape
<1> HIDE DEF s
<1>4. CASE log' = s
  BY <1>1, <1>2, <1>3, <1>4
<1>5. CASE ~ (n > 0 /\ log[n] = Fragment) /\ log' = Append(s, Fragment)
  <2>1. /\ log' \in Seq(Lines) /\ Len(log') = n + 1 /\ log'[n + 1] = Fragment
        /\ \A i \in 1..n : log'[i] = s[i]
    BY <1>1, <1>2, <1>5, AppendFacts
  <2>2. \A i \in 1..n : log[i] \in Records
    BY <1>1, <1>3, <1>5
  <2>3. \A i \in 1..(n + 1) : i \in 1..n \/ i = n + 1
    BY <1>1
  <2> QED
    BY <1>1, <1>2, <2>1, <2>2, <2>3
<1> QED
  BY <1>4, <1>5 DEF CutTo, s

\* A power loss takes nothing of the flushed part.
LEMMA PowerLossKeepsA ==
  ASSUME AInv, PowerLoss
  PROVE  AInv'
<1>1. PICK n \in synced..Len(log) : CutTo(n)
  BY DEF PowerLoss, CutTo
<1>2. n \in 0..Len(log) /\ synced <= n /\ synced \in Nat
  BY LogFacts DEF AInv, TypeOK
<1>3. /\ log' \in Seq(Lines) /\ n <= Len(log') /\ Len(log') \in Nat
      /\ \A i \in 1..n : log'[i] = log[i]
      /\ \A i \in 1..Len(log') :
           \/ i \in 1..n /\ log[i] \in Records
           \/ i = Len(log') /\ log'[i] = Fragment
  BY <1>1, <1>2, CutFacts DEF AInv
<1>4. /\ Fault("power") /\ pc' = "down" /\ synced' = Len(log')
      /\ UNCHANGED <<env, anchor, minted, acked>>
      /\ mark' \in marks /\ marks' = {mark'}
  BY DEF PowerLoss
<1>5. TypeOK'
  BY <1>3, <1>4 DEF AInv, TypeOK, Lines
<1>6. Shape' /\ CallUnderWay'
  BY <1>3, <1>4 DEF Shape, CallUnderWay
<1>7. NotRewritten'
  BY <1>2, <1>3, <1>4, FragmentIsNone DEF AInv, NotRewritten, Fault
<1>8. AckedIsSafe'
  <2> SUFFICES ASSUME NEW e \in acked
               PROVE  \E i \in 1..Len(log') : /\ log'[i] \in Records /\ log'[i].entry = e
                                              /\ i <= synced'
    BY <1>4 DEF AckedIsSafe
  <2>1. PICK i \in 1..Len(log) : log[i] \in Records /\ log[i].entry = e /\ i <= synced
    BY <1>4 DEF AInv, AckedIsSafe
  <2>2. i \in 1..n /\ i \in 1..Len(log')
    BY <1>2, <1>3, <2>1
  <2> QED
    BY <1>3, <1>4, <2>1, <2>2
<1> QED
  BY <1>5, <1>6, <1>7, <1>8 DEF AInv

\* A process that dies inside a write leaves a fragment at the end.
LEMMA CrashInWriteKeepsA ==
  ASSUME AInv, CrashInWrite
  PROVE  AInv'
<1>1. /\ UNCHANGED <<env, synced, mark, marks, anchor, acked>>
      /\ pc' = "down" /\ minted' \in Nat /\ log' = Append(log, Fragment)
      /\ \A i \in 1..Len(log) : log[i] \in Records
  BY DEF CrashInWrite, AInv, TypeOK, Shape
<1>2. /\ log' \in Seq(Lines) /\ Len(log') = Len(log) + 1 /\ log'[Len(log')] = Fragment
      /\ \A i \in 1..Len(log) : log'[i] = log[i]
      /\ Len(log) \in Nat
  BY <1>1, LogFacts, AppendFacts DEF AInv, Lines
<1>3. \A i \in 1..Len(log') : i \in 1..Len(log) \/ i = Len(log')
  BY <1>2
<1>4. TypeOK'
  BY <1>1, <1>2 DEF AInv, TypeOK, Lines
<1>5. Shape' /\ CallUnderWay'
  BY <1>1, <1>2, <1>3 DEF Shape, CallUnderWay
<1>6. NotRewritten'
  BY <1>1, <1>2, <1>3, FragmentIsNone DEF AInv, NotRewritten, Fault
<1>7. AckedIsSafe'
  <2> SUFFICES ASSUME NEW e \in acked
               PROVE  \E i \in 1..Len(log') : /\ log'[i] \in Records /\ log'[i].entry = e
                                              /\ Fault("power") => i <= synced
    BY <1>1 DEF AckedIsSafe, Fault
  <2>1. PICK i \in 1..Len(log) : /\ log[i] \in Records /\ log[i].entry = e
                                 /\ Fault("power") => i <= synced
    BY DEF AInv, AckedIsSafe
  <2> QED
    BY <1>2, <2>1
<1> QED
  BY <1>4, <1>5, <1>6, <1>7 DEF AInv

\* A start cuts off the fragment and no record.
LEMMA BootKeepsA ==
  ASSUME AInv, Boot
  PROVE  AInv'
<1> DEFINE n == Readable
<1>1. /\ n \in 0..Len(log) /\ Len(log) \in Nat /\ log \in Seq(Lines)
      /\ \A i \in 1..n : log[i] \in Records
      /\ \A i \in 1..Len(log) : log[i] \in Records => i <= n
  BY ReadableFacts, LogFacts DEF AInv
<1>2. /\ pc = "down" /\ UNCHANGED <<env, mark, marks, minted, acked>>
      /\ \/ /\ log' = SubSeq(log, 1, n)
            /\ synced' = IF n < Len(log) THEN Len(log') ELSE synced
            /\ anchor' = MarkOf(SubSeq(log, 1, n))
            /\ pc' \in {"idle", "adopting"}
         \/ pc' = "refused" /\ UNCHANGED <<log, synced, anchor>>
  BY DEF Boot, KeptAt
<1> HIDE DEF n
<1>3. CASE pc' = "refused" /\ UNCHANGED <<log, synced, anchor>>
  <2>1. TypeOK'
    BY <1>2, <1>3 DEF AInv, TypeOK
  <2>2. Shape' /\ CallUnderWay'
    BY <1>2, <1>3 DEF AInv, Shape, CallUnderWay
  <2>3. NotRewritten' /\ AckedIsSafe'
    BY <1>2, <1>3 DEF AInv, NotRewritten, AckedIsSafe, Fault
  <2> QED
    BY <2>1, <2>2, <2>3 DEF AInv
<1>4. CASE /\ log' = SubSeq(log, 1, n)
           /\ synced' = IF n < Len(log) THEN Len(log') ELSE synced
           /\ anchor' = MarkOf(SubSeq(log, 1, n))
           /\ pc' \in {"idle", "adopting"}
  <2>1. log' \in Seq(Lines) /\ Len(log') = n /\ \A i \in 1..n : log'[i] = log[i]
    BY <1>1, <1>4, PrefixFacts
  <2>2. anchor' \in Marks
    <3>1. Len(log') > 0 => log'[Len(log')] \in Records
      BY <1>1, <2>1
    <3> QED
      BY <1>4, <2>1, <3>1, MarkOfType
  <2>3. synced' \in 0..n /\ \A i \in 1..n : i <= synced => i <= synced'
    BY <1>1, <1>4, <2>1 DEF AInv, TypeOK
  <2>4. TypeOK'
    BY <1>2, <1>4, <2>1, <2>2, <2>3 DEF AInv, TypeOK, Lines
  <2>5. Shape' /\ CallUnderWay'
    BY <1>1, <1>4, <2>1 DEF Shape, CallUnderWay
  <2>6. NotRewritten'
    BY <1>1, <1>2, <2>1 DEF AInv, NotRewritten, Fault
  <2>7. AckedIsSafe'
    <3> SUFFICES ASSUME NEW e \in acked
                 PROVE  \E i \in 1..Len(log') : /\ log'[i] \in Records /\ log'[i].entry = e
                                                /\ Fault("power") => i <= synced'
      BY <1>2 DEF AckedIsSafe, Fault
    <3>1. PICK i \in 1..Len(log) : /\ log[i] \in Records /\ log[i].entry = e
                                   /\ Fault("power") => i <= synced
      BY DEF AInv, AckedIsSafe
    <3>2. i \in 1..n
      BY <1>1, <3>1
    <3> QED
      BY <2>1, <2>3, <3>1, <3>2
  <2> QED
    BY <2>4, <2>5, <2>6, <2>7 DEF AInv
<1> QED
  BY <1>2, <1>3, <1>4

\* A conversion keeps every entry; only a power loss could undo it.
LEMMA ConvertKeepsA ==
  ASSUME AInv, Convert
  PROVE  AInv'
<1> DEFINE n == Readable
<1>1. /\ n \in 0..Len(log) /\ n \in Nat /\ Len(log) \in Nat /\ log \in Seq(Lines)
      /\ \A i \in 1..n : log[i] \in Records
      /\ \A i \in 1..Len(log) : log[i] \in Records => i <= n
  BY ReadableFacts, LogFacts DEF AInv
<1>2. /\ n > 0 /\ log[n].fmt = "legacy" /\ SubSeq(log, 1, n) = Chain("legacy", n)
      /\ log' = Chain("shared", n) /\ synced' = 0 /\ anchor' = MarkOf(log')
      /\ pc' = "converting" /\ UNCHANGED <<env, mark, marks, minted, acked>>
  BY DEF Convert, Convertible
<1> HIDE DEF n
<1>3. ~ Fault("power")
  BY <1>1, <1>2 DEF AInv, NotRewritten
<1>4. /\ log' \in Seq(Lines) /\ Len(log') = n
      /\ \A i \in 1..n : log'[i] \in Records /\ log'[i].entry = i
  BY <1>1, <1>2, ChainFacts
<1>5. \A i \in 1..n : log[i].entry = i
  <2>1. \A i \in 1..n : Chain("legacy", n)[i].entry = i
    BY <1>1, ChainFacts
  <2>2. \A i \in 1..n : SubSeq(log, 1, n)[i] = log[i]
    BY <1>1, PrefixFacts
  <2> QED
    BY <1>2, <2>1, <2>2
<1>6. TypeOK'
  <2>1. anchor' \in Marks
    BY <1>1, <1>2, <1>4, MarkOfType
  <2> QED
    BY <1>1, <1>2, <1>4, <2>1 DEF AInv, TypeOK, Lines
<1>7. Shape' /\ CallUnderWay' /\ NotRewritten'
  BY <1>2, <1>3, <1>4 DEF Shape, CallUnderWay, NotRewritten, Fault
<1>8. AckedIsSafe'
  <2> SUFFICES ASSUME NEW e \in acked
               PROVE  \E i \in 1..Len(log') : log'[i] \in Records /\ log'[i].entry = e
    BY <1>2, <1>3 DEF AckedIsSafe, Fault
  <2>1. PICK i \in 1..Len(log) : log[i] \in Records /\ log[i].entry = e
    BY DEF AInv, AckedIsSafe
  <2>2. i \in 1..n /\ e = i
    BY <1>1, <1>5, <2>1
  <2> QED
    BY <1>4, <2>2
<1> QED
  BY <1>6, <1>7, <1>8 DEF AInv

\* Every step keeps the invariant.
LEMMA AInvNext ==
  ASSUME AllDurable, AInv, [Next]_vars
  PROVE  AInv'
<1>1. ~ Fault("truncate")
  BY EnvFacts DEF AInv, Durable, Fault
<1>2. CASE WriteFails
  BY <1>1, <1>2, QuietKeepsA DEF WriteFails, QuietStep
<1>3. CASE \/ SaveAnchorFails \/ Stop \/ Crash \/ Adopt \/ SaveConverted
           \/ UNCHANGED vars
  BY <1>3, QuietKeepsA DEF QuietStep
<1> QED
  BY <1>2, <1>3, LogKeepsA, SyncKeepsA, PowerLossKeepsA, CrashInWriteKeepsA, BootKeepsA,
     ConvertKeepsA DEF Next

\* The lines are records but for a last fragment, and the book-keeping matches.
LEMMA DurableInvariant == ASSUME AllDurable PROVE Spec => []AInv
BY AInvInit, AInvNext, PTL DEF Spec

\* An entry reported as recorded is in the log for good, in every environment
\* where a short write can be cut off and no power loss meets a conversion:
\* also where flushes, marks and conversions fail and starts are refused.
THEOREM AcknowledgedSafe == ASSUME AllDurable PROVE Spec => []AcknowledgedSurvive
<1>1. AInv => AcknowledgedSurvive
  BY LogFacts DEF AInv, AckedIsSafe, AcknowledgedSurvive
<1> QED
  BY <1>1, DurableInvariant, PTL
-----------------------------------------------------------------------------
(* The log is append-only *)

\* The attested part is flushed as far as an entry of it was reported, and no
\* entry is reported before it is minted.
Reported ==
  /\ acked \subseteq 0..minted
  /\ Fault("power") =>
       \A j \in 1..Len(log) : log[j] \in Records /\ log[j].entry \in acked => j <= synced

BInv == AInv /\ Reported

\* The first log is flushed.
LEMMA BInvInit ==
  ASSUME AllDurable, Init
  PROVE  BInv
<1>1. AInv
  BY AInvInit
<1>2. env.start \in Nat
  BY <1>1, EnvFacts DEF AInv
<1>3. Len(log) = env.start
  BY <1>2, ChainFacts DEF Init
<1> QED
  BY <1>1, <1>2, <1>3 DEF Init, BInv, Reported

\* What AInv says of the lines, for the steps below.
LEMMA LinesFacts ==
  ASSUME AInv
  PROVE  /\ log \in Seq(Lines) /\ Len(log) \in Nat
         /\ synced \in 0..Len(log) /\ minted \in Nat
         /\ \A i \in 1..Len(log) : IsRecord(i) <=> log[i] \in Records
BY LogFacts DEF AInv, TypeOK

\* A place of the attested part is at or before that of a reported entry, which is
\* flushed where power may fail.
LEMMA AttestedFacts ==
  ASSUME BInv, NEW i \in Attested
  PROVE  \E j \in i..Len(log) :
           /\ i \in 1..Len(log) /\ j \in 1..Len(log)
           /\ log[i] \in Records /\ log[j] \in Records /\ log[j].entry \in acked
           /\ Fault("power") => j <= synced
<1>1. /\ Len(log) \in Nat
      /\ \A k \in 1..Len(log) : IsRecord(k) <=> log[k] \in Records
  BY LinesFacts DEF BInv
<1>2. PICK j \in i..Len(log) : IsRecord(j) /\ log[j].entry \in acked
  BY DEF Attested
<1>3. i \in 1..Len(log) /\ j \in 1..Len(log)
  BY <1>1 DEF Attested
<1>4. log[j] \in Records
  BY <1>1, <1>2, <1>3
<1>5. log[i] \in Records
  BY <1>1, <1>3, <1>4 DEF BInv, AInv, Shape
<1>6. Fault("power") => j <= synced
  BY <1>2, <1>3, <1>4 DEF BInv, Reported
<1> QED
  BY <1>2, <1>3, <1>4, <1>5, <1>6

\* What is asked of a step.
KeepsAttested ==
  \A i \in Attested :
    /\ i \in Attested'
    /\ log'[i].kind = "record" /\ log'[i].entry = log[i].entry

\* A step that keeps the lines up to the n-th keeps the attested part, when that
\* reaches no further.
LEMMA PrefixKeeps ==
  ASSUME BInv, AInv', acked \subseteq acked',
         NEW n \in 0..Len(log), n <= Len(log'),
         \A i \in 1..n : log'[i] = log[i],
         \A j \in 1..Len(log) :
           /\ log[j] \in Records /\ log[j].entry \in acked
           /\ Fault("power") => j <= synced
           => j <= n
  PROVE  KeepsAttested
<1> SUFFICES ASSUME NEW i \in Attested
             PROVE  /\ i \in Attested'
                    /\ log'[i].kind = "record" /\ log'[i].entry = log[i].entry
  BY DEF KeepsAttested
<1>1. PICK j \in i..Len(log) :
        /\ i \in 1..Len(log) /\ j \in 1..Len(log)
        /\ log[i] \in Records /\ log[j] \in Records /\ log[j].entry \in acked
        /\ Fault("power") => j <= synced
  BY AttestedFacts
<1>2. Len(log) \in Nat /\ Len(log') \in Nat
  BY LinesFacts DEF BInv, AInv, TypeOK
<1>3. j <= n
  BY <1>1
<1>4. /\ i \in 1..n /\ j \in 1..n /\ i \in 1..Len(log') /\ j \in i..Len(log')
  BY <1>1, <1>2, <1>3
<1>5. log'[i] = log[i] /\ log'[j] = log[j]
  BY <1>4
<1>6. log'[i].kind = "record" /\ log'[j].kind = "record"
  BY <1>1, <1>5 DEF Records
<1>7. log'[j].entry \in acked'
  BY <1>1, <1>5
<1> QED
  BY <1>4, <1>5, <1>6, <1>7 DEF Attested, IsRecord
\* A step that only adds lines, or none.
LEMMA ExtensionKeeps ==
  ASSUME BInv, AInv', acked \subseteq acked', Len(log) <= Len(log'),
         \A i \in 1..Len(log) : log'[i] = log[i]
  PROVE  KeepsAttested
<1>1. Len(log) \in 0..Len(log) /\ \A j \in 1..Len(log) : j <= Len(log)
  BY LinesFacts DEF BInv
<1> QED
  BY <1>1, PrefixKeeps

\* A record is written behind the attested part; its entry is a new one.
LEMMA LogKeepsB ==
  ASSUME BInv, AInv', Log
  PROVE  Reported' /\ KeepsAttested
<1>1. /\ log \in Seq(Lines) /\ Len(log) \in Nat /\ minted \in Nat
      /\ \A i \in 1..Len(log) : log[i] \in Records
  BY LinesFacts DEF BInv, AInv, Shape, Log
<1>2. /\ minted' = minted + 1 /\ UNCHANGED <<env, synced, acked>>
  BY DEF Log
<1> DEFINE r == Minted(minted + 1)
<1>3. r \in Lines /\ r.entry = minted + 1
  BY <1>1, MintedIsRecord DEF BInv, AInv, Lines
<1>4. log' = Append(log, r)
  <2>1. ~ EndsInFragment
    BY <1>1, FragmentIsNone, EmptySeq DEF EndsInFragment
  <2> QED
    BY <2>1 DEF Log, Written
<1> HIDE DEF r
<1>5. /\ Len(log') = Len(log) + 1 /\ log'[Len(log) + 1] = r
      /\ \A i \in 1..Len(log) : log'[i] = log[i]
  BY <1>1, <1>3, <1>4, AppendFacts
<1>6. minted + 1 \notin acked
  BY <1>1 DEF BInv, Reported
<1>7. Reported'
  <2>1. acked' \subseteq 0..minted'
    BY <1>1, <1>2 DEF BInv, Reported
  <2>2. ASSUME Fault("power"), NEW j \in 1..Len(log'), log'[j].entry \in acked,
               log'[j] \in Records
        PROVE  j <= synced
    <3>1. j \in 1..Len(log)
      BY <1>1, <1>3, <1>5, <1>6, <2>2
    <3> QED
      BY <1>5, <2>2, <3>1 DEF BInv, Reported
  <2> QED
    BY <1>2, <2>1, <2>2 DEF Reported, Fault
<1>8. KeepsAttested
  <2>1. Len(log) <= Len(log') /\ acked \subseteq acked'
    BY <1>1, <1>2, <1>5
  <2> QED
    BY <1>5, <2>1, ExtensionKeeps
<1> QED
  BY <1>7, <1>8

\* A step that leaves the log alone: what it reports was flushed before.
LEMMA StillKeepsB ==
  ASSUME BInv, AInv', Sync \/ SaveAnchor \/ QuietStep
  PROVE  Reported' /\ KeepsAttested
<1>1. Len(log) \in Nat /\ synced \in 0..Len(log) /\ minted \in Nat
  BY LinesFacts DEF BInv
<1>2. /\ UNCHANGED <<env, log>> /\ minted' \in {minted, minted + 1}
      /\ synced' \in {synced, Len(log)}
      /\ \/ UNCHANGED acked
         \/ /\ acked' = acked \cup {minted} /\ UNCHANGED <<minted, synced>>
            /\ synced = Len(log)
  BY DEF Sync, SaveAnchor, QuietStep, WriteFails, SaveAnchorFails, Stop, Crash, Adopt,
         SaveConverted, vars, BInv, AInv, CallUnderWay
<1>3. Reported'
  <2>1. acked' \subseteq 0..minted'
    <3>1. acked \subseteq 0..minted
      BY DEF BInv, Reported
    <3>2. acked' \subseteq acked \cup {minted}
      BY <1>2
    <3>3. 0..minted \subseteq 0..minted' /\ minted \in 0..minted'
      BY <1>1, <1>2
    <3> QED
      BY <3>1, <3>2, <3>3
  <2>2. ASSUME Fault("power"), NEW j \in 1..Len(log), log[j].entry \in acked',
               log[j] \in Records
        PROVE  j <= synced'
    <3>1. CASE log[j].entry \in acked
      <4>1. j <= synced
        BY <2>2, <3>1 DEF BInv, Reported
      <4> QED
        BY <1>1, <1>2, <4>1
    <3>2. CASE log[j].entry \notin acked
      BY <1>1, <1>2, <2>2, <3>2
    <3> QED
      BY <3>1, <3>2
  <2> QED
    BY <1>2, <2>1, <2>2 DEF Reported, Fault
<1>4. KeepsAttested
  <2>1. Len(log) <= Len(log') /\ acked \subseteq acked'
    BY <1>1, <1>2
  <2>2. \A i \in 1..Len(log) : log'[i] = log[i]
    BY <1>2
  <2> QED
    BY <2>1, <2>2, ExtensionKeeps
<1> QED
  BY <1>3, <1>4

\* A power loss cuts behind the flushed part.
LEMMA PowerLossKeepsB ==
  ASSUME BInv, AInv', PowerLoss
  PROVE  Reported' /\ KeepsAttested
<1>1. Len(log) \in Nat /\ synced \in 0..Len(log)
  BY LinesFacts DEF BInv
<1>2. Fault("power") /\ synced' = Len(log') /\ UNCHANGED <<minted, acked>>
  BY DEF PowerLoss
<1>3. PICK n \in synced..Len(log) : CutTo(n)
  BY DEF PowerLoss, CutTo
<1>4. n \in 0..Len(log) /\ synced <= n
  BY <1>1
<1>5. n <= Len(log') /\ Len(log') \in Nat /\ \A i \in 1..n : log'[i] = log[i]
  BY <1>3, <1>4, CutFacts DEF BInv, AInv
<1>6. Reported'
  BY <1>2, <1>5 DEF BInv, Reported
<1>7. KeepsAttested
  <2>1. \A j \in 1..Len(log) : j <= synced => j <= n
    BY <1>1, <1>4
  <2> QED
    BY <1>2, <1>4, <1>5, <2>1, PrefixKeeps
<1> QED
  BY <1>6, <1>7

\* A process that dies inside a write leaves a fragment behind the log.
LEMMA CrashInWriteKeepsB ==
  ASSUME BInv, AInv', CrashInWrite
  PROVE  Reported' /\ KeepsAttested
<1>1. Len(log) \in Nat /\ minted \in Nat /\ log \in Seq(Lines)
  BY LinesFacts DEF BInv
<1>2. /\ UNCHANGED <<env, synced, acked>> /\ minted' = minted + 1
      /\ log' = Append(log, Fragment) /\ Fragment \in Lines
  BY DEF CrashInWrite, Lines
<1>3. /\ Len(log') = Len(log) + 1 /\ log'[Len(log) + 1] = Fragment
      /\ \A i \in 1..Len(log) : log'[i] = log[i]
  BY <1>1, <1>2, AppendFacts
<1>4. Reported'
  <2>1. acked' \subseteq 0..minted'
    BY <1>1, <1>2 DEF BInv, Reported
  <2>2. \A j \in 1..Len(log') : log'[j] \in Records => j \in 1..Len(log)
    BY <1>1, <1>3, FragmentIsNone
  <2> QED
    BY <1>2, <1>3, <2>1, <2>2 DEF BInv, Reported, Fault
<1>5. KeepsAttested
  <2>1. Len(log) <= Len(log') /\ acked \subseteq acked'
    BY <1>1, <1>2, <1>3
  <2> QED
    BY <1>3, <2>1, ExtensionKeeps
<1> QED
  BY <1>4, <1>5

\* A start cuts off the fragment and no record, attested or not.
LEMMA BootKeepsB ==
  ASSUME BInv, AInv', Boot
  PROVE  Reported' /\ KeepsAttested
<1> DEFINE n == Readable
<1>1. /\ n \in 0..Len(log) /\ Len(log) \in Nat /\ log \in Seq(Lines)
      /\ synced \in 0..Len(log)
      /\ \A j \in 1..Len(log) : log[j] \in Records => j <= n
  BY ReadableFacts, LinesFacts DEF BInv, AInv
<1>2. /\ UNCHANGED <<env, minted, acked>>
      /\ \/ /\ log' = SubSeq(log, 1, n)
            /\ synced' = IF n < Len(log) THEN Len(log') ELSE synced
         \/ UNCHANGED <<log, synced>>
  BY DEF Boot, KeptAt
<1> HIDE DEF n
<1>3. /\ n <= Len(log') /\ \A j \in 1..n : log'[j] = log[j]
      /\ UNCHANGED <<log, synced>> \/ Len(log') = n
  BY <1>1, <1>2, PrefixFacts
<1>4. Reported'
  <2>1. ASSUME ~ UNCHANGED <<log, synced>>, Fault("power"),
               NEW j \in 1..Len(log'), log'[j] \in Records, log'[j].entry \in acked
        PROVE  j <= synced'
    <3>1. j \in 1..Len(log) /\ j <= n /\ log'[j] = log[j] /\ Len(log') = n
      BY <1>1, <1>3, <2>1
    <3>2. j <= synced
      BY <2>1, <3>1 DEF BInv, Reported
    <3> QED
      BY <1>1, <1>2, <2>1, <3>1, <3>2
  <2> QED
    BY <1>2, <2>1 DEF BInv, Reported, Fault
<1>5. KeepsAttested
  BY <1>1, <1>2, <1>3, PrefixKeeps
<1> QED
  BY <1>4, <1>5

\* A conversion changes the format of the records, and not what they record.
LEMMA ConvertKeepsB ==
  ASSUME BInv, AInv', Convert
  PROVE  Reported' /\ KeepsAttested
<1> DEFINE n == Readable
<1>1. /\ n \in 0..Len(log) /\ n \in Nat /\ Len(log) \in Nat /\ log \in Seq(Lines)
      /\ \A i \in 1..n : log[i] \in Records
      /\ \A i \in 1..Len(log) : log[i] \in Records => i <= n
  BY ReadableFacts, LinesFacts DEF BInv, AInv
<1>2. /\ n > 0 /\ log[n].fmt = "legacy" /\ SubSeq(log, 1, n) = Chain("legacy", n)
      /\ log' = Chain("shared", n) /\ UNCHANGED <<env, minted, acked>>
  BY DEF Convert, Convertible
<1> HIDE DEF n
<1>3. ~ Fault("power")
  BY <1>1, <1>2 DEF BInv, AInv, NotRewritten
<1>4. /\ Len(log') = n
      /\ \A i \in 1..n : log'[i] \in Records /\ log'[i].entry = i
  BY <1>1, <1>2, ChainFacts
<1>5. \A i \in 1..n : log[i].entry = i
  <2>1. \A i \in 1..n : Chain("legacy", n)[i].entry = i
    BY <1>1, ChainFacts
  <2>2. \A i \in 1..n : SubSeq(log, 1, n)[i] = log[i]
    BY <1>1, PrefixFacts
  <2> QED
    BY <1>2, <2>1, <2>2
<1>6. Reported'
  BY <1>2, <1>3 DEF BInv, Reported, Fault
<1>7. KeepsAttested
  <2> SUFFICES ASSUME NEW i \in Attested
               PROVE  /\ i \in Attested'
                      /\ log'[i].kind = "record" /\ log'[i].entry = log[i].entry
    BY DEF KeepsAttested
  <2>1. PICK j \in i..Len(log) :
          /\ i \in 1..Len(log) /\ j \in 1..Len(log)
          /\ log[i] \in Records /\ log[j] \in Records /\ log[j].entry \in acked
    BY AttestedFacts
  <2>2. i \in 1..n /\ j \in 1..n /\ j \in i..n
    BY <1>1, <2>1
  <2>3. log'[i].kind = "record" /\ log'[j].kind = "record"
    BY <1>4, <2>2 DEF Records
  <2>4. log'[i].entry = log[i].entry /\ log'[j].entry \in acked'
    BY <1>2, <1>4, <1>5, <2>1, <2>2
  <2> QED
    BY <1>4, <2>2, <2>3, <2>4 DEF Attested, IsRecord
<1> QED
  BY <1>6, <1>7

\* Every step keeps the invariant and the attested part.
LEMMA BInvNext ==
  ASSUME AllDurable, BInv, [Next]_vars
  PROVE  BInv' /\ KeepsAttested
<1>1. AInv'
  BY AInvNext DEF BInv
<1>2. ~ Fault("truncate")
  BY EnvFacts DEF BInv, AInv, Durable, Fault
<1>3. CASE WriteFails
  BY <1>1, <1>2, <1>3, StillKeepsB DEF WriteFails, QuietStep, BInv
<1>4. CASE \/ Sync \/ SaveAnchor \/ SaveAnchorFails \/ Stop \/ Crash \/ Adopt
           \/ SaveConverted \/ UNCHANGED vars
  BY <1>1, <1>4, StillKeepsB DEF QuietStep, BInv
<1> QED
  BY <1>1, <1>3, <1>4, LogKeepsB, PowerLossKeepsB, CrashInWriteKeepsB, BootKeepsB,
     ConvertKeepsB DEF Next, BInv

\* The log is append-only: its entries up to the last one that was reported, with
\* those whose mark failed, keep their places in every environment where a short
\* write can be cut off and no power loss meets a conversion, whatever else fails
\* and whichever starts are refused.
THEOREM AppendOnlySafe == ASSUME AllDurable PROVE Spec => AppendOnly
<1>1. Init => BInv
  BY BInvInit
<1>2. BInv /\ [Next]_vars => BInv'
  BY BInvNext
<1>3. BInv /\ [Next]_vars =>
        [\A i \in Attested :
           /\ i \in Attested'
           /\ log'[i].kind = "record" /\ log'[i].entry = log[i].entry]_vars
  BY BInvNext DEF KeepsAttested
<1> QED
  BY <1>1, <1>2, <1>3, PTL DEF Spec, AppendOnly
-----------------------------------------------------------------------------
(* Every start reconciles the log with its mark *)

\* In these environments flushes succeed, fragments are cut off, and a
\* conversion reaches its mark.
LEMMA ReconciledFacts ==
  ASSUME AllReconciled, TypeOK
  PROVE  /\ ~ Fault("truncate") /\ ~ Fault("sync") /\ ~ Fault("crashInConvert")
         /\ ~ (Fault("crash") /\ Fault("power"))
         /\ ~ (env.legacy /\ Fault("power"))
         /\ env.start \in Nat
         /\ env.start = 0 => ~ Fault("crash") /\ ~ Fault("power") /\ ~ Fault("mark")
<1>1. Durable(env) /\ Reconciled(env) /\ env.start \in Nat
  BY EnvFacts DEF AllReconciled
<1> QED
  BY <1>1 DEF Durable, Reconciled, Fault

\* The first start finds an older log whole, or a current one that is sound.
LEMMA CInvInit ==
  ASSUME AllReconciled, AInv, Init
  PROVE  CInv
<1>1. env.start \in Nat /\ log \in Seq(Lines) /\ Len(log) \in Nat
  BY EnvFacts, LogFacts DEF AInv
<1>2. pc = "down" /\ mark = MarkOf(log) /\ marks = {mark} /\ synced = env.start
  BY DEF Init
<1>3. CASE env.legacy /\ env.start > 0
  BY <1>2, <1>3 DEF Init, CInv, Untouched
<1>4. CASE ~ (env.legacy /\ env.start > 0)
  <2>1. PICK n \in Nat, fmt \in {"legacy", "shared"} :
          n = env.start /\ log = Chain(fmt, n) /\ (n > 0 => fmt = "shared")
    BY <1>1, <1>4 DEF Init
  <2>2. /\ Len(log) = n
        /\ \A i \in 1..n :
             /\ log[i] \in Records
             /\ log[i].fmt = fmt /\ log[i].seq = i
             /\ log[i].prev = IF i = 1 THEN Genesis ELSE DigestOf(log[i - 1])
    <3>1. PICK l : l = Chain(fmt, n)
      OBVIOUS
    <3>2. /\ Len(l) = n
          /\ \A i \in 1..n :
               /\ l[i] \in Records
               /\ l[i].fmt = fmt /\ l[i].seq = i
               /\ l[i].prev = IF i = 1 THEN Genesis ELSE DigestOf(l[i - 1])
      BY <3>1, ChainFacts
    <3>3. l = log
      BY <2>1, <3>1
    <3> QED
      BY <3>2, <3>3
  <2>3. Chained
    BY <2>1, <2>2 DEF Chained, Follows
  <2>4. n > 0 => Names(mark)
    <3>1. ASSUME n > 0 PROVE n \in 1..n /\ log[n] \in Records
      BY <2>1, <2>2, <3>1
    <3>2. ASSUME n > 0 PROVE mark.count = n /\ mark.hash = DigestOf(log[n])
      BY <1>1, <1>2, <2>2, <3>1, <3>2, MarkOfType
    <3> QED
      BY <2>2, <3>1, <3>2 DEF Names
  <2>5. MarkBehind
    <3>1. n > 0 => mark.count <= synced
      BY <1>2, <2>1, <2>2, <2>4 DEF Names
    <3> QED
      BY <1>2, <2>1, <2>4, <3>1 DEF MarkBehind
  <2>6. AnchorIsLast /\ Flushed /\ FreshStart
    BY <1>2, <2>1, <2>2 DEF AnchorIsLast, Flushed, FreshStart
  <2> QED
    BY <1>2, <2>3, <2>5, <2>6 DEF CInv, Sound
<1> QED
  BY <1>3, <1>4

\* The one start that meets an older log converts it, and nothing else can.
LEMMA UntouchedKeepsC ==
  ASSUME AllReconciled, AInv, Untouched, [Next]_vars
  PROVE  CInv'
<1>1. ~ Fault("power") /\ ~ Fault("crashInConvert") /\ env.start \in Nat
  BY ReconciledFacts DEF AInv, Untouched
<1>2. pc = "down" /\ log = Chain("legacy", env.start) /\ mark = MarkOf(log) /\ env.start > 0
  BY DEF Untouched
<1>3. PICK n \in Nat : n = env.start /\ n > 0
  BY <1>1, <1>2
<1>4. /\ log = Chain("legacy", n) /\ log \in Seq(Lines) /\ Len(log) = n /\ n \in 1..n
      /\ \A i \in 1..n : log[i] \in Records /\ log[i].fmt = "legacy"
  <2>1. PICK l : l = Chain("legacy", n)
    OBVIOUS
  <2>2. /\ l \in Seq(Lines) /\ Len(l) = n
        /\ \A i \in 1..n : l[i] \in Records /\ l[i].fmt = "legacy"
    BY <2>1, ChainFacts
  <2>3. l = log
    BY <1>2, <1>3, <2>1
  <2> QED
    BY <1>3, <2>1, <2>2, <2>3
<1>5. Readable = n
  BY <1>4, ReadableWhole DEF AInv
<1>6. Convertible(n)
  <2>1. mark = [count |-> n, hash |-> DigestOf(log[n])]
    BY <1>2, <1>3, <1>4, EmptySeq DEF MarkOf
  <2>2. n \in 0..Len(log)
    BY <1>4
  <2>3. SubSeq(log, 1, n) = log
    BY <1>4, <2>2, PrefixFacts
  <2> QED
    BY <1>3, <1>4, <2>1, <2>3 DEF Convertible
<1>7. CASE UNCHANGED vars
  BY <1>7 DEF vars, CInv, Untouched
<1>8. CASE Convert
  <2>1. /\ pc' = "converting" /\ log' = Chain("shared", n) /\ anchor' = MarkOf(log')
        /\ UNCHANGED env
    BY <1>5, <1>8 DEF Convert
  <2>2. /\ Len(log') = n
        /\ \A i \in 1..n :
             /\ log'[i].fmt = "shared" /\ log'[i].seq = i
             /\ log'[i].prev = IF i = 1 THEN Genesis ELSE DigestOf(log'[i - 1])
    BY <2>1, ChainFacts
  <2>3. Chained'
    BY <2>2 DEF Chained, Follows
  <2>4. AnchorIsLast' /\ MarkBehind' /\ Flushed' /\ FreshStart'
    BY <1>1, <1>3, <2>1, <2>2
    DEF AnchorIsLast, MarkBehind, Flushed, FreshStart, Fault
  <2> QED
    BY <2>1, <2>3, <2>4 DEF CInv, Sound
<1>9. ~ Boot
  BY <1>5, <1>6 DEF Boot
<1> QED
  BY <1>1, <1>2, <1>7, <1>8, <1>9
  DEF Next, Log, WriteFails, Sync, SaveAnchor, SaveAnchorFails, Stop, Crash, CrashInWrite,
      PowerLoss, Adopt, SaveConverted

\* A start accepts a sound log.
LEMMA SoundReconciles ==
  ASSUME AInv, Sound, pc = "down", env.start \in Nat
  PROVE  /\ ~ Convertible(Readable)
         /\ Reconciles(Readable) /\ OnlyFragmentAfter(Readable)
<1>1. PICK n : n = Readable
  OBVIOUS
<1>2. /\ n \in 0..Len(log) /\ Len(log) \in Nat /\ log \in Seq(Lines) /\ n \in Nat
      /\ \A i \in 1..n : log[i] \in Records
      /\ \A i \in 1..Len(log) : log[i] \in Records => i <= n
      /\ OnlyFragmentAfter(n)
  BY <1>1, ReadableFacts, LogFacts DEF AInv
<1>3. \A i \in 1..n : Follows(i, IF i = 1 THEN Genesis ELSE DigestOf(log[i - 1]))
  BY <1>2 DEF Sound, Chained
<1>4. \A i \in 1..n : log[i].fmt = "shared"
  BY <1>3 DEF Follows
<1>5. ~ Convertible(n)
  BY <1>2, <1>4 DEF Convertible
<1>6. Reconciles(n)
  <2>1. CASE env.start > 0
    <3>1. /\ mark.count \in 1..Len(log) /\ mark.count <= n
          /\ mark.hash = DigestOf(log[mark.count])
      BY <1>2, <2>1 DEF Sound, MarkBehind, Names
    <3>2. ASSUME NEW i \in mark.count + 1 .. n
          PROVE  Follows(i, IF i = mark.count + 1 THEN mark.hash ELSE DigestOf(log[i - 1]))
      <4>1. i \in 1..n /\ i # 1
        BY <1>2, <3>1
      <4>2. Follows(i, DigestOf(log[i - 1]))
        BY <1>3, <4>1
      <4>3. i = mark.count + 1 => mark.hash = DigestOf(log[i - 1])
        BY <3>1
      <4> QED
        BY <4>2, <4>3
    <3>3. mark.count \in 1..n /\ log[n].fmt = "shared"
      BY <1>2, <1>4, <3>1
    <3> QED
      BY <3>1, <3>2, <3>3 DEF Reconciles
  <2>2. CASE env.start = 0
    <3>1. mark = MarkOf(log) /\ \A i \in 1..Len(log) : log[i] \in Records
      BY <2>2 DEF Sound, FreshStart
    <3>2. n = Len(log)
      BY <1>2, <3>1
    <3>3. mark.count = n /\ (n > 0 => mark.hash = DigestOf(log[n]))
      BY <1>2, <3>1, <3>2, MarkOfType
    <3>4. n > 0 => n \in 1..n /\ log[n].fmt = "shared"
      BY <1>2, <1>4
    <3> QED
      BY <1>2, <3>3, <3>4 DEF Reconciles
  <2> QED
    BY <2>1, <2>2
<1> QED
  BY <1>1, <1>2, <1>5, <1>6

\* A start cuts off a fragment and takes the last record as its anchor.
LEMMA BootKeepsC ==
  ASSUME AllReconciled, AInv, Sound, Boot
  PROVE  CInv'
<1>1. /\ env.start \in Nat
      /\ env.start = 0 => ~ Fault("power")
  BY ReconciledFacts DEF AInv
<1>2. PICK n : n = Readable
  OBVIOUS
<1>3. /\ n \in 0..Len(log) /\ Len(log) \in Nat /\ log \in Seq(Lines) /\ n \in Nat
      /\ \A i \in 1..n : log[i] \in Records
      /\ \A i \in 1..Len(log) : log[i] \in Records => i <= n
  BY <1>2, ReadableFacts, LogFacts DEF AInv
<1>4. pc = "down"
  BY DEF Boot
<1>5. Reconciles(n) /\ OnlyFragmentAfter(n)
  BY <1>1, <1>2, <1>4, SoundReconciles
<1>6. /\ log' = SubSeq(log, 1, n)
      /\ synced' = IF n < Len(log) THEN Len(log') ELSE synced
      /\ anchor' = MarkOf(log')
      /\ pc' = IF anchor' = mark THEN "idle" ELSE "adopting"
      /\ UNCHANGED <<env, mark, marks>>
  BY <1>2, <1>5 DEF Boot, KeptAt
<1>7. Len(log') = n /\ (\A i \in 1..n : log'[i] = log[i]) /\ (n = Len(log) => log' = log)
  BY <1>3, <1>6, PrefixFacts
<1>8. Chained'
  <2> SUFFICES ASSUME NEW i \in 1..n
               PROVE  Follows(i, IF i = 1 THEN Genesis ELSE DigestOf(log[i - 1]))'
    BY <1>7 DEF Chained
  <2>1. i \in 1..Len(log) /\ (i # 1 => i - 1 \in 1..n)
    BY <1>3
  <2>2. Follows(i, IF i = 1 THEN Genesis ELSE DigestOf(log[i - 1]))
    BY <1>3, <2>1 DEF Sound, Chained
  <2> QED
    BY <1>7, <2>1, <2>2 DEF Follows
<1>9. ASSUME NEW m, Names(m), env.start > 0
      PROVE  /\ m.count \in 1..n /\ m.count \in 1..Len(log')
             /\ log'[m.count] \in Records /\ m.hash = DigestOf(log'[m.count])
  BY <1>3, <1>7, <1>9 DEF Names
<1>10. MarkBehind'
  <2>1. synced' = IF n < Len(log) THEN n ELSE synced
    BY <1>6, <1>7
  <2>2. env.start > 0 => Names(mark)
    BY <1>4 DEF Sound, MarkBehind
  <2>3. ASSUME NEW m \in marks, Fault("power"), env.start > 0
        PROVE  Names(m) /\ m.count <= synced
    BY <2>3 DEF Sound, MarkBehind
  <2>4. ASSUME NEW m \in marks, Fault("power"), env.start > 0
        PROVE  m.count <= synced'
    BY <1>9, <2>1, <2>3, <2>4
  <2>5. pc' # "converting"
    BY <1>6
  <2> QED
    BY <1>6, <1>9, <2>2, <2>3, <2>4, <2>5 DEF MarkBehind, Names, Fault
<1>11. Flushed'
  <2>1. Fault("power") => synced = Len(log)
    BY <1>4 DEF Sound, Flushed
  <2>2. ASSUME Fault("power") PROVE synced' = Len(log')
    <3>1. CASE n < Len(log)
      BY <1>6, <3>1
    <3>2. CASE n = Len(log)
      BY <1>3, <1>6, <1>7, <2>1, <2>2, <3>2
    <3> QED
      BY <1>3, <3>1, <3>2
  <2>3. pc' # "written" /\ (Fault("power")' <=> Fault("power"))
    BY <1>6 DEF Fault
  <2> QED
    BY <2>2, <2>3 DEF Flushed
<1>12. FreshStart'
  <2>1. ASSUME env.start = 0 PROVE log' = log /\ mark = MarkOf(log)
    BY <1>3, <1>4, <1>7, <2>1 DEF Sound, FreshStart
  <2> QED
    BY <1>3, <1>6, <1>7, <2>1 DEF FreshStart
<1>13. AnchorIsLast' /\ pc' # "refused"
  BY <1>6 DEF AnchorIsLast
<1> QED
  BY <1>8, <1>10, <1>11, <1>12, <1>13 DEF CInv, Sound

\* Steps that leave the log alone: the mark only ever moves to its last record.
LEMMA QuietKeepsC ==
  ASSUME AllReconciled, AInv, Sound, pc # "refused",
         QuietStep \/ Sync \/ SaveAnchor
  PROVE  CInv'
<1>1. /\ ~ Fault("sync") /\ ~ Fault("crashInConvert") /\ ~ Fault("truncate")
      /\ ~ (Fault("crash") /\ Fault("power"))
      /\ env.start \in Nat
      /\ env.start = 0 => ~ Fault("crash") /\ ~ Fault("power") /\ ~ Fault("mark")
  BY ReconciledFacts DEF AInv
<1>2. UNCHANGED <<env, log>>
  BY DEF QuietStep, Sync, SaveAnchor, WriteFails, SaveAnchorFails, Stop, Crash, Adopt,
         SaveConverted, vars
<1>3. Len(log) \in Nat /\ log \in Seq(Lines) /\ \A i \in 1..Len(log) : log[i] \in Lines
  BY LogFacts DEF AInv
<1>4. Chained'
  BY <1>2 DEF Sound, Chained, Follows
<1>5. CASE QuietStep /\ UNCHANGED <<mark, marks, synced, anchor>>
  <2>1. \/ UNCHANGED pc
        \/ pc \in {"flushed", "adopting"} /\ Fault("mark") /\ pc' \in {"down", "idle"}
           /\ (pc' = "idle" => pc = "flushed")
        \/ pc = "idle" /\ pc' = "down"
        \/ Fault("crash") /\ pc # "converting" /\ pc' = "down"
        \/ pc \in {"adopting", "converting"} /\ pc' = "idle" /\ mark' = anchor
    BY <1>1, <1>5 DEF QuietStep, WriteFails, SaveAnchorFails, Stop, Crash, Adopt, SaveConverted,
       WriteState, vars
  <2>2. pc' # "refused"
    BY <2>1
  <2>3. AnchorIsLast'
    BY <1>2, <1>5, <2>1 DEF Sound, AnchorIsLast
  <2>4. pc = "converting" /\ pc' # "converting" => Names(mark)
    <3>1. pc = "converting" /\ pc' # "converting" => mark = anchor
      BY <1>5, <2>1
    <3>2. ASSUME pc = "converting", pc' # "converting" PROVE Names(mark)
      <4>1. mark = MarkOf(log)
        BY <3>1, <3>2 DEF Sound, AnchorIsLast
      <4>2. PICK l : l = log
        OBVIOUS
      <4>3. env.start > 0
        BY <1>1, <3>2 DEF Sound, FreshStart
      <4>4. Len(l) > 0 /\ Len(l) \in 1..Len(l) /\ l[Len(l)] \in Records
        BY <1>3, <3>2, <4>2, <4>3 DEF Sound, MarkBehind, AInv, Shape
      <4> QED
        BY <1>3, <4>1, <4>2, <4>4, MarkOfType DEF Names
    <3> QED
      BY <3>2
  <2>5. MarkBehind'
    <3>1. ASSUME env.start > 0, pc' # "converting" PROVE Names(mark)
      BY <2>4, <3>1 DEF Sound, MarkBehind
    <3>2. pc' = "converting" => pc = "converting"
      BY <2>1
    <3>3. env.start > 0 /\ pc' = "converting" => Len(log) > 0
      BY <3>2 DEF Sound, MarkBehind
    <3>4. env.start > 0 /\ Fault("power") => \A m \in marks : Names(m) /\ m.count <= synced
      BY DEF Sound, MarkBehind
    <3> QED
      BY <1>2, <1>5, <3>1, <3>3, <3>4 DEF MarkBehind, Names, Fault
  <2>6. Flushed'
    <3>1. Fault("power") => ((pc' = "written") <=> (pc = "written"))
      BY <1>1, <2>1
    <3>2. (Fault("power")' <=> Fault("power")) /\ UNCHANGED <<log, synced>>
      BY <1>2, <1>5 DEF Fault
    <3> QED
      BY <3>1, <3>2 DEF Sound, Flushed
  <2>7. FreshStart'
    BY <1>1, <1>2, <1>5, <2>1 DEF Sound, FreshStart
  <2> QED
    BY <1>4, <2>2, <2>3, <2>5, <2>6, <2>7 DEF CInv, Sound
<1>6. CASE Sync
  <2>1. /\ pc = "written" /\ pc' = "flushed" /\ synced' = Len(log)
        /\ anchor' = [count |-> anchor.count + 1, hash |-> DigestOf(Minted(minted))]
        /\ UNCHANGED <<mark, marks>>
    BY <1>1, <1>6 DEF Sync
  <2>2. PICK l, k : l = log /\ k = Len(log) - 1
    OBVIOUS
  <2>3. l \in Seq(Lines) /\ Len(l) = k + 1 /\ k \in 0..Len(l) /\ k \in Nat /\ l[k + 1].entry = minted
        /\ \A i \in 1..Len(l) : l[i] \in Records
    BY <1>3, <2>1, <2>2 DEF AInv, CallUnderWay, Shape
  <2>4. anchor.count = k
    <3>1. Len(SubSeq(l, 1, k)) = k /\ SubSeq(l, 1, k) \in Seq(Lines)
          /\ \A i \in 1..k : SubSeq(l, 1, k)[i] = l[i]
      BY <2>3, PrefixFacts
    <3>2. k > 0 => SubSeq(l, 1, k)[k] \in Records
      BY <2>3, <3>1
    <3>3. MarkOf(SubSeq(l, 1, k)).count = k
      BY <3>1, <3>2, MarkOfType
    <3> QED
      BY <2>1, <2>2, <3>3 DEF Sound, AnchorIsLast
  <2>5. DigestOf(Minted(minted)) = DigestOf(l[k + 1])
    <3>1. k + 1 \in 1..Len(log) /\ l[k + 1] \in Records
      BY <2>2, <2>3
    <3>2. l[k + 1].fmt = "shared"
      BY <2>2, <3>1 DEF Sound, Chained, Follows
    <3>3. Minted(minted).fmt = "shared" /\ Minted(minted).entry = minted
      BY DEF Minted
    <3> QED
      BY <2>3, <3>2, <3>3 DEF DigestOf
  <2>6. anchor' = MarkOf(log')
    <3>1. MarkOf(l) = [count |-> k + 1, hash |-> DigestOf(l[k + 1])]
      BY <2>3, EmptySeq DEF MarkOf
    <3> QED
      BY <1>2, <2>1, <2>2, <2>4, <2>5, <3>1
  <2>7. AnchorIsLast'
    BY <2>1, <2>6 DEF AnchorIsLast
  <2>8. MarkBehind'
    <3>1. env.start > 0 => Names(mark)
      BY <2>1 DEF Sound, MarkBehind
    <3>2. ASSUME env.start > 0, Fault("power"), NEW m \in marks
          PROVE  Names(m) /\ m.count <= Len(log)
      BY <3>2 DEF Sound, MarkBehind, Names
    <3> QED
      BY <1>2, <2>1, <3>1, <3>2 DEF MarkBehind, Names, Fault
  <2>9. Flushed' /\ FreshStart' /\ pc' # "refused"
    BY <1>2, <2>1 DEF Sound, Flushed, FreshStart
  <2> QED
    BY <1>4, <2>7, <2>8, <2>9 DEF CInv, Sound
<1>7. CASE \/ SaveAnchor
           \/ Adopt /\ WriteState(anchor) /\ pc' = "idle"
           \/ SaveConverted
  <2>1. /\ pc \in {"flushed", "adopting", "converting"} /\ pc' = "idle"
        /\ mark' = anchor /\ marks' = marks \cup {anchor}
        /\ UNCHANGED <<synced, anchor>>
    BY <1>7 DEF SaveAnchor, Adopt, SaveConverted, WriteState
  <2>2. anchor = MarkOf(log)
    BY <2>1 DEF Sound, AnchorIsLast
  <2>3. \A i \in 1..Len(log) : log[i] \in Records
    BY <2>1 DEF AInv, Shape
  <2>4. env.start > 0 => Len(log) > 0
    BY <1>3 DEF Sound, MarkBehind, Names
  <2>5. env.start > 0 => Names(anchor) /\ anchor.count = Len(log)
    <3>1. PICK l : l = log
      OBVIOUS
    <3>2. Len(l) > 0 => Len(l) \in 1..Len(l) /\ l[Len(l)] \in Records
      BY <1>3, <2>3, <3>1
    <3>3. Len(l) > 0 => anchor.count = Len(l) /\ anchor.hash = DigestOf(l[Len(l)])
      BY <1>3, <2>2, <3>1, <3>2, MarkOfType
    <3> QED
      BY <2>4, <3>1, <3>2, <3>3 DEF Names
  <2>6. AnchorIsLast' /\ FreshStart' /\ pc' # "refused"
    <3>1. AnchorIsLast' /\ pc' # "refused"
      BY <1>2, <2>1, <2>2 DEF AnchorIsLast
    <3>2. FreshStart'
      BY <1>2, <2>1, <2>2 DEF Sound, FreshStart
    <3> QED
      BY <3>1, <3>2
  <2>7. Flushed'
    <3>1. Fault("power") => synced = Len(log)
      BY <2>1 DEF Sound, Flushed
    <3> QED
      BY <1>2, <2>1, <3>1 DEF Flushed, Fault
  <2>8. MarkBehind'
    <3>1. Fault("power") => synced = Len(log)
      BY <2>1 DEF Sound, Flushed
    <3>2. ASSUME env.start > 0, Fault("power"), NEW m \in marks'
          PROVE  Names(m) /\ m.count <= synced
      <4>1. CASE m \in marks
        BY <3>2, <4>1 DEF Sound, MarkBehind
      <4>2. CASE m = anchor
        BY <1>3, <2>5, <3>1, <3>2, <4>2
      <4> QED
        BY <2>1, <4>1, <4>2
    <3> QED
      BY <1>2, <2>1, <2>5, <3>2 DEF MarkBehind, Names, Fault
  <2> QED
    BY <1>4, <2>6, <2>7, <2>8 DEF CInv, Sound
<1>8. \/ QuietStep /\ UNCHANGED <<mark, marks, synced, anchor>>
      \/ Sync \/ SaveAnchor \/ (Adopt /\ WriteState(anchor) /\ pc' = "idle") \/ SaveConverted
  BY DEF QuietStep, WriteFails, SaveAnchorFails, Stop, Crash, Adopt, vars
<1> QED
  BY <1>5, <1>6, <1>7, <1>8

\* Log links the new record to the last one.
LEMMA LogKeepsC ==
  ASSUME AllReconciled, AInv, Sound, Log
  PROVE  CInv'
<1>1. /\ pc = "idle" /\ pc' = "written" /\ minted + 1 \in Nat
      /\ UNCHANGED <<env, synced, mark, marks, anchor>>
  BY DEF Log, AInv, TypeOK
<1>2. PICK l, r : l = log /\ r = Minted(minted + 1)
  OBVIOUS
<1>3. /\ r \in Records /\ r \in Lines /\ r.fmt = "shared"
      /\ r.seq = anchor.count + 1 /\ r.prev = anchor.hash
  BY <1>1, <1>2, MintedIsRecord DEF AInv, Lines
<1>4. l \in Seq(Lines) /\ Len(l) \in Nat /\ \A i \in 1..Len(l) : l[i] \in Records
  BY <1>1, <1>2, LogFacts DEF AInv, Shape
<1>5. log' = Append(l, r)
  <2>1. ~ EndsInFragment
    BY <1>2, <1>4, FragmentIsNone, EmptySeq DEF EndsInFragment
  <2> QED
    BY <1>2, <2>1 DEF Log, Written
<1>6. /\ log' \in Seq(Lines) /\ Len(log') = Len(l) + 1 /\ log'[Len(l) + 1] = r
      /\ \A i \in 1..Len(l) : log'[i] = l[i]
      /\ SubSeq(log', 1, Len(l)) = l
  BY <1>3, <1>4, <1>5, AppendFacts
<1>7. /\ r.seq = Len(l) + 1
      /\ r.prev = IF Len(l) = 0 THEN Genesis ELSE DigestOf(l[Len(l)])
  <2>1. anchor = MarkOf(l)
    BY <1>1, <1>2 DEF Sound, AnchorIsLast
  <2>2. Len(l) > 0 => l[Len(l)] \in Records
    BY <1>4
  <2> QED
    BY <1>3, <1>4, <2>1, <2>2, MarkOfType
<1>8. Chained'
  <2> SUFFICES ASSUME NEW i \in 1..Len(l) + 1
               PROVE  /\ log'[i].fmt = "shared" /\ log'[i].seq = i
                      /\ log'[i].prev = IF i = 1 THEN Genesis ELSE DigestOf(log'[i - 1])
    BY <1>6 DEF Chained, Follows
  <2>1. CASE i \in 1..Len(l)
    <3>1. /\ l[i].fmt = "shared" /\ l[i].seq = i
          /\ l[i].prev = IF i = 1 THEN Genesis ELSE DigestOf(l[i - 1])
      BY <1>2, <1>4, <2>1 DEF Sound, Chained, Follows
    <3>2. i # 1 => i - 1 \in 1..Len(l)
      BY <1>4, <2>1
    <3> QED
      BY <1>6, <2>1, <3>1, <3>2
  <2>2. CASE i = Len(l) + 1
    <3>1. i # 1 => i - 1 = Len(l) /\ Len(l) \in 1..Len(l)
      BY <1>4, <2>2
    <3>2. i = 1 <=> Len(l) = 0
      BY <1>4, <2>2
    <3> QED
      BY <1>3, <1>6, <1>7, <2>2, <3>1, <3>2
  <2> QED
    BY <1>4, <2>1, <2>2
<1>9. AnchorIsLast'
  <2>1. anchor = MarkOf(l) /\ Len(log') - 1 = Len(l)
    BY <1>1, <1>2, <1>4, <1>6 DEF Sound, AnchorIsLast
  <2> QED
    BY <1>1, <1>6, <2>1 DEF AnchorIsLast
<1>10. ASSUME NEW m, Names(m)
       PROVE  /\ m.count \in 1..Len(log') /\ log'[m.count] \in Records
              /\ m.hash = DigestOf(log'[m.count])
  BY <1>2, <1>4, <1>6, <1>10 DEF Names
<1>11. MarkBehind'
  <2>1. env.start > 0 => Names(mark)
    BY <1>1 DEF Sound, MarkBehind
  <2>2. ASSUME env.start > 0, Fault("power"), NEW m \in marks
        PROVE  Names(m) /\ m.count <= synced
    BY <2>2 DEF Sound, MarkBehind
  <2> QED
    BY <1>1, <1>10, <2>1, <2>2 DEF MarkBehind, Names, Fault
<1>12. Flushed'
  <2>1. Fault("power") => synced = Len(log') - 1
    BY <1>1, <1>2, <1>4, <1>6 DEF Sound, Flushed
  <2> QED
    BY <1>1, <2>1 DEF Flushed, Fault
<1>13. FreshStart' /\ pc' # "refused"
  <2>1. \A i \in 1..Len(log') : log'[i] \in Records
    <3>1. \A i \in 1..Len(log') : i \in 1..Len(l) \/ i = Len(l) + 1
      BY <1>4, <1>6
    <3> QED
      BY <1>3, <1>4, <1>6, <3>1
  <2> QED
    BY <1>1, <2>1 DEF FreshStart
<1> QED
  BY <1>8, <1>9, <1>11, <1>12, <1>13 DEF CInv, Sound

\* A process that dies inside a write, or a power loss, leaves every record
\* that a mark names, and at most a fragment behind them.
LEMMA CutKeepsC ==
  ASSUME AllReconciled, AInv, Sound, CrashInWrite \/ PowerLoss
  PROVE  CInv'
<1>1. /\ ~ (Fault("crash") /\ Fault("power"))
      /\ env.start \in Nat
      /\ env.start = 0 => ~ Fault("crash") /\ ~ Fault("power")
  BY ReconciledFacts DEF AInv
<1>2. /\ Fault("crash") \/ Fault("power")
      /\ env.start > 0 /\ pc' = "down" /\ UNCHANGED env
  BY <1>1 DEF CrashInWrite, PowerLoss
<1>3. \E n \in 0..Len(log) : /\ CutTo(n)
                             /\ CrashInWrite => n = Len(log)
                             /\ PowerLoss => n \in synced..Len(log)
  <2>1. CASE CrashInWrite
    <3>1. Len(log) \in Nat /\ Len(log) \in 0..Len(log) /\ SubSeq(log, 1, Len(log)) = log
      BY LogFacts, PrefixFacts DEF AInv
    <3>2. ~ (Len(log) > 0 /\ log[Len(log)] = Fragment)
      BY <2>1, LogFacts, EmptySeq DEF CrashInWrite, EndsInFragment, AInv
    <3>3. CutTo(Len(log))
      BY <2>1, <3>1, <3>2 DEF CrashInWrite, CutTo
    <3> QED
      BY <1>1, <2>1, <3>1, <3>3 DEF CrashInWrite, PowerLoss
  <2>2. CASE PowerLoss
    <3>1. PICK n \in synced..Len(log) : CutTo(n)
      BY <2>2 DEF PowerLoss, CutTo
    <3>2. n \in 0..Len(log)
      BY LogFacts DEF AInv, TypeOK
    <3> QED
      BY <1>1, <2>2, <3>1, <3>2 DEF CrashInWrite, PowerLoss
  <2> QED
    BY <2>1, <2>2
<1>4. PICK n \in 0..Len(log) : /\ CutTo(n)
                               /\ CrashInWrite => n = Len(log)
                               /\ PowerLoss => n \in synced..Len(log)
  BY <1>3
<1>5. /\ Len(log') \in Nat /\ n <= Len(log') /\ n \in Nat /\ Len(log) \in Nat
      /\ \A i \in 1..n : log'[i] = log[i]
      /\ \A i \in 1..Len(log') :
           \/ i \in 1..n /\ log[i] \in Records
           \/ i = Len(log') /\ log'[i] = Fragment
  BY <1>4, CutFacts, LogFacts DEF AInv
<1>6. Chained'
  <2> SUFFICES ASSUME NEW i \in 1..Len(log'), log'[i] \in Records
               PROVE  /\ log'[i].fmt = "shared" /\ log'[i].seq = i
                      /\ log'[i].prev = IF i = 1 THEN Genesis ELSE DigestOf(log'[i - 1])
    BY DEF Chained, Follows
  <2>1. i \in 1..n /\ i \in 1..Len(log) /\ log[i] \in Records
    BY <1>4, <1>5, FragmentIsNone
  <2>2. /\ log[i].fmt = "shared" /\ log[i].seq = i
        /\ log[i].prev = IF i = 1 THEN Genesis ELSE DigestOf(log[i - 1])
    BY <2>1 DEF Sound, Chained, Follows
  <2>3. i # 1 => i - 1 \in 1..n
    BY <2>1
  <2> QED
    BY <1>5, <2>1, <2>2, <2>3
<1>7. ASSUME NEW m, Names(m), m.count <= n
      PROVE  /\ m.count \in 1..Len(log') /\ log'[m.count] \in Records
             /\ m.hash = DigestOf(log'[m.count])
  <2>1. m.count \in 1..n
    BY <1>5, <1>7 DEF Names
  <2> QED
    BY <1>5, <1>7, <2>1 DEF Names
<1>8. MarkBehind' /\ Flushed'
  <2>1. CASE CrashInWrite
    <3>1. /\ pc = "idle" /\ UNCHANGED <<mark, marks>> /\ ~ Fault("power") /\ ~ Fault("power")'
          /\ n = Len(log)
      BY <1>1, <1>4, <2>1 DEF CrashInWrite, Fault
    <3>2. Names(mark) /\ mark.count <= n
      BY <1>2, <1>5, <3>1 DEF Sound, MarkBehind, Names
    <3>3. Names(mark)'
      BY <1>7, <3>1, <3>2 DEF Names
    <3> QED
      BY <1>2, <3>1, <3>3 DEF MarkBehind, Flushed
  <2>2. CASE PowerLoss
    <3>1. /\ Fault("power") /\ synced <= n /\ synced \in Nat /\ synced' = Len(log')
          /\ mark' \in marks /\ marks' = {mark'}
      BY <1>4, <2>2, <1>5 DEF PowerLoss, AInv, TypeOK
    <3>2. Names(mark') /\ mark'.count <= synced /\ mark' \in Marks
      BY <1>2, <3>1 DEF Sound, MarkBehind, AInv, TypeOK
    <3>3. mark'.count <= n /\ mark'.count <= Len(log')
      BY <1>5, <3>1, <3>2 DEF Marks
    <3>4. Names(mark)'
      BY <1>7, <3>2, <3>3 DEF Names
    <3>5. MarkBehind'
      BY <1>2, <3>1, <3>3, <3>4 DEF MarkBehind
    <3>6. Flushed'
      BY <1>2, <3>1 DEF Flushed
    <3> QED
      BY <3>5, <3>6
  <2> QED
    BY <2>1, <2>2
<1>9. AnchorIsLast' /\ FreshStart' /\ pc' # "refused"
  BY <1>2 DEF AnchorIsLast, FreshStart
<1> QED
  BY <1>6, <1>8, <1>9 DEF CInv, Sound

\* Every step keeps the log either untouched or sound.
LEMMA CInvNext ==
  ASSUME AllReconciled, AInv, CInv, [Next]_vars
  PROVE  CInv'
<1>1. CASE Untouched
  BY <1>1, UntouchedKeepsC
<1>2. CASE Sound
  <2>1. env.start \in Nat /\ ~ Fault("truncate") /\ pc # "refused"
    BY ReconciledFacts DEF AInv, CInv
  <2>2. ~ Convert
    BY <1>2, <2>1, SoundReconciles DEF Convert
  <2>3. WriteFails => QuietStep
    BY <2>1 DEF WriteFails, QuietStep
  <2> QED
    BY <1>2, <2>1, <2>2, <2>3, QuietKeepsC, LogKeepsC, CutKeepsC, BootKeepsC
    DEF Next, QuietStep
<1> QED
  BY <1>1, <1>2 DEF CInv

\* The log is sound in every state but before its conversion.
LEMMA ReconciledInvariant == ASSUME AllReconciled PROVE Spec => [](AInv /\ CInv)
<1>1. Init => AInv /\ CInv
  BY AInvInit, CInvInit DEF AllReconciled
<1>2. AInv /\ CInv /\ [Next]_vars => (AInv /\ CInv)'
  BY AInvNext, CInvNext DEF AllReconciled
<1> QED
  BY <1>1, <1>2, PTL DEF Spec

\* The server never refuses a log that only it has written: after a crash at any
\* point, a power loss, short writes and marks that were not saved, the next
\* NewStore finds the log and its mark reconcilable.
THEOREM NeverRefusesSafe == ASSUME AllReconciled PROVE Spec => []NeverRefuses
<1>1. CInv => NeverRefuses
  BY DEF CInv, NeverRefuses
<1> QED
  BY <1>1, ReconciledInvariant, PTL

\* Between requests the log is one unbroken chain that ends where the anchor
\* says: VerifyStream succeeds.
THEOREM LogVerifiesSafe == ASSUME AllReconciled PROVE Spec => []LogVerifies
<1>1. AInv /\ CInv => LogVerifies
  <2> SUFFICES ASSUME AInv, CInv, pc = "idle"
               PROVE  /\ \A i \in 1..Len(log) :
                           IsRecord(i) /\ Follows(i, IF i = 1 THEN Genesis ELSE DigestOf(log[i - 1]))
                      /\ anchor = MarkOf(log)
    BY DEF LogVerifies
  <2>1. \A i \in 1..Len(log) : log[i] \in Records /\ IsRecord(i)
    BY LogFacts DEF AInv, Shape
  <2>2. Sound
    BY DEF CInv, Untouched
  <2> QED
    BY <2>1, <2>2 DEF Sound, Chained, AnchorIsLast
<1> QED
  BY <1>1, ReconciledInvariant, PTL
=============================================================================
