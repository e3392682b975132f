----------------------------- MODULE AuditChain -----------------------------
(***************************************************************************)
(* The audit log and its mark (internal/audit/audit.go): audit.jsonl is a  *)
(* file of chained records, audit.state holds the count and the digest of  *)
(* the last one.  Log appends, flushes, then moves the mark; NewStore reads*)
(* both back after a restart and refuses to start when it cannot reconcile *)
(* them.  Store.mu serialises everything, so pc is the one call under way. *)
(*                                                                         *)
(* What the process sees (log, mark) is kept apart from what a power loss  *)
(* leaves: any prefix of log that has the flushed part, and any mark whose *)
(* rename was issued.                                                      *)
(***************************************************************************)
EXTENDS Integers, Sequences

CONSTANTS
  Scenarios,  \* the environments to consider, see Scenario
  MaxMinted   \* bound: entries minted in a run, those of the first log included

(***************************************************************************)
(* Faults: "crash", the process dies; "power", the machine does; "write", a*)
(* short write that Truncate repairs; "truncate", one it does not; "sync", *)
(* an error from Sync or Close; "mark", an error writing audit.state;      *)
(* "crashInConvert", a crash or error between converge's rewrite and its   *)
(* mark.                                                                   *)
(***************************************************************************)
AllFaults == {"crash", "power", "write", "truncate", "sync", "mark",
              "crashInConvert"}

\* start: the records the first boot finds, in the older format if legacy.
Scenario == [faults : SUBSET AllFaults, start : Nat, legacy : BOOLEAN]

ASSUME ScenarioAssumption ==
  /\ Scenarios \subseteq Scenario
  /\ MaxMinted \in Nat
  /\ \A sc \in Scenarios : sc.start <= MaxMinted

VARIABLES
  env,     \* the scenario; never changes
  log,     \* audit.jsonl as read back by the process
  synced,  \* how many lines of log are known to be on the disk
  mark,    \* audit.state as read back by the process
  marks,   \* the marks a power loss may leave
  pc,      \* where Log or NewStore is
  anchor,  \* Store.anchor, also the tail of Store.chain
  minted,  \* entries minted so far
  acked    \* entries Log reported as recorded, and those of the first log

vars == <<env, log, synced, mark, marks, pc, anchor, minted, acked>>

\* An entry's digest depends on its format; entries are never minted twice.
Digests == [fmt : {"none", "legacy", "shared"}, entry : Nat]
Genesis == [fmt |-> "none", entry |-> 0]

Records == [kind : {"record"}, fmt : {"legacy", "shared"}, entry : Nat,
            seq : Nat, prev : Digests]

\* A line without its newline; and one with it that does not decode.
Fragment == [kind |-> "fragment"]
Junk == [kind |-> "junk"]

Marks == [count : Nat, hash : Digests]

DigestOf(r) == [fmt |-> r.fmt, entry |-> r.entry]

TypeOK ==
  /\ env \in Scenarios
  /\ log \in Seq(Records \cup {Fragment, Junk})
  /\ synced \in 0..Len(log)
  /\ mark \in Marks
  /\ marks \subseteq Marks /\ mark \in marks
  /\ pc \in {"down", "converting", "adopting", "idle", "written", "flushed",
             "refused"}
  /\ anchor \in Marks
  /\ minted \in Nat
  /\ acked \subseteq Nat

Fault(f) == f \in env.faults

Chain(fmt, n) ==
  [i \in 1..n |->
     [kind |-> "record", fmt |-> fmt, entry |-> i, seq |-> i,
      prev |-> IF i = 1 THEN Genesis ELSE [fmt |-> fmt, entry |-> i - 1]]]

MarkOf(l) == IF l = << >> THEN [count |-> 0, hash |-> Genesis]
             ELSE [count |-> Len(l), hash |-> DigestOf(l[Len(l)])]

Init ==
  /\ env \in Scenarios
  /\ log = Chain(IF env.legacy THEN "legacy" ELSE "shared", env.start)
  /\ synced = env.start
  /\ mark = MarkOf(log)
  /\ marks = {mark}
  /\ pc = "down"
  /\ anchor = mark
  /\ minted = env.start
  /\ acked = 1..env.start
-----------------------------------------------------------------------------
(* Log *)

Minted(e) == [kind |-> "record", fmt |-> "shared", entry |-> e,
              seq |-> anchor.count + 1, prev |-> anchor.hash]

EndsInFragment == log # << >> /\ log[Len(log)] = Fragment

\* O_APPEND: bytes behind a fragment share its line.
Written(r) == IF EndsInFragment THEN [log EXCEPT ![Len(log)] = Junk]
              ELSE Append(log, r)

Log ==
  /\ pc = "idle"
  /\ minted < MaxMinted
  /\ minted' = minted + 1
  /\ log' = Written(Minted(minted + 1))
  /\ pc' = "written"
  /\ UNCHANGED <<env, synced, mark, marks, anchor, acked>>

\* A short write is cut off again, and the chain forgets the record.
WriteFails ==
  /\ pc = "idle"
  /\ minted < MaxMinted
  /\ minted' = minted + 1
  /\ \/ Fault("write") /\ UNCHANGED log
     \/ Fault("truncate") /\ ~EndsInFragment /\ log' = Append(log, Fragment)
  /\ UNCHANGED <<env, synced, mark, marks, pc, anchor, acked>>

Sync ==
  /\ pc = "written"
  /\ \/ /\ synced' = Len(log)
        /\ anchor' = [count |-> anchor.count + 1, hash |-> DigestOf(Minted(minted))]
        /\ pc' = "flushed"
     \/ /\ Fault("sync")
        /\ pc' = "idle"
        /\ UNCHANGED <<synced, anchor>>
  /\ UNCHANGED <<env, log, mark, marks, minted, acked>>

\* writeState: the bytes are flushed before the rename, the rename is not.
WriteState(m) ==
  /\ mark' = m
  /\ marks' = marks \cup {m}

\* The mark is moved after the record it counts.
SaveAnchor ==
  /\ pc = "flushed"
  /\ WriteState(anchor)
  /\ acked' = acked \cup {minted}
  /\ pc' = "idle"
  /\ UNCHANGED <<env, log, synced, anchor, minted>>

\* Log returns the entry and the error; the mark stays behind.
SaveAnchorFails ==
  /\ Fault("mark")
  /\ pc = "flushed"
  /\ pc' = "idle"
  /\ UNCHANGED <<env, log, synced, mark, marks, anchor, minted, acked>>
-----------------------------------------------------------------------------
(* The end of a run *)

\* Docker stops the server between requests.
Stop ==
  /\ pc = "idle"
  /\ pc' = "down"
  /\ UNCHANGED <<env, log, synced, mark, marks, anchor, minted, acked>>

\* The process dies; what it wrote stays in the page cache.
Crash ==
  /\ \/ Fault("crash") /\ pc \in {"adopting", "idle", "written", "flushed"}
     \/ Fault("crashInConvert") /\ pc = "converting"
  /\ pc' = "down"
  /\ UNCHANGED <<env, log, synced, mark, marks, anchor, minted, acked>>

\* The process dies inside write(2).
CrashInWrite ==
  /\ Fault("crash")
  /\ pc = "idle"
  /\ minted < MaxMinted
  /\ ~EndsInFragment
  /\ minted' = minted + 1
  /\ log' = Append(log, Fragment)
  /\ pc' = "down"
  /\ UNCHANGED <<env, synced, mark, marks, anchor, acked>>

PowerLoss ==
  /\ Fault("power")
  /\ pc # "refused"
  /\ \E n \in synced..Len(log) :
       \/ log' = SubSeq(log, 1, n)
       \/ /\ n < Len(log) \/ Fault("write")
          /\ ~(n > 0 /\ log[n] = Fragment)
          /\ minted < MaxMinted
          /\ log' = Append(SubSeq(log, 1, n), Fragment)
  /\ synced' = Len(log')
  /\ \E m \in marks : mark' = m /\ marks' = {m}
  /\ pc' = "down"
  /\ UNCHANGED <<env, anchor, minted, acked>>
-----------------------------------------------------------------------------
(* NewStore *)

IsRecord(i) == log[i].kind = "record"

\* readAll stops at the first line it cannot decode.
Readable ==
  CHOOSE n \in 0..Len(log) :
    /\ \A i \in 1..n : IsRecord(i)
    /\ n < Len(log) => ~IsRecord(n + 1)

\* The record at i carries a current digest, sits at i and follows prev.
Follows(i, prev) ==
  log[i].fmt = "shared" /\ log[i].seq = i /\ log[i].prev = prev

\* Mutant: only one record past the mark is accepted.
Reconciles_OneBehind(n) ==
  \/ n = 0 /\ mark.count = 0
  \/ /\ mark.count \in 1..n
     /\ n <= mark.count + 1
     /\ \A i \in mark.count + 1 .. n :
          Follows(i, IF i = mark.count + 1 THEN mark.hash ELSE DigestOf(log[i - 1]))
     /\ log[n].fmt = "shared"
     /\ n = mark.count => DigestOf(log[n]) = mark.hash

\* placeTail, then Resume's check of the last record.
Reconciles(n) ==
  \/ n = 0 /\ mark.count = 0
  \/ /\ mark.count \in 1..n
     /\ \A i \in mark.count + 1 .. n :
          Follows(i, IF i = mark.count + 1 THEN mark.hash ELSE DigestOf(log[i - 1]))
     /\ log[n].fmt = "shared"
     /\ n = mark.count => DigestOf(log[n]) = mark.hash

\* trimTornTail: only an unterminated fragment may follow.
OnlyFragmentAfter(n) ==
  \A i \in n + 1 .. Len(log) : log[i] = Fragment

\* converge: an older-format log that the mark attests to, whole.
Convertible(n) ==
  /\ n > 0
  /\ log[n].fmt = "legacy"
  /\ mark = [count |-> n, hash |-> DigestOf(log[n])]
  /\ SubSeq(log, 1, n) = Chain("legacy", n)

\* Mutant: a log that overruns its mark is cut back to it.
KeptAt_Mark(n) == SubSeq(log, 1, IF mark.count > 0 THEN mark.count ELSE n)

\* Mutant: the torn tail stays.
KeptAt_TornTail(n) == log

\* The file after trimTornTail.
KeptAt(n) == SubSeq(log, 1, n)

Boot ==
  /\ pc = "down"
  /\ LET n == Readable IN
       /\ ~Convertible(n)
       /\ IF Reconciles(n) /\ OnlyFragmentAfter(n)
          THEN /\ log' = KeptAt(n)
               /\ synced' = IF n < Len(log) THEN Len(log') ELSE synced
               /\ anchor' = MarkOf(SubSeq(log, 1, n))
               /\ pc' = IF anchor' = mark THEN "idle" ELSE "adopting"
          ELSE /\ pc' = "refused"
               /\ UNCHANGED <<log, synced, anchor>>
  /\ UNCHANGED <<env, mark, marks, minted, acked>>

\* A mark behind the log is moved up to it before the store is returned.
Adopt ==
  /\ pc = "adopting"
  /\ \/ WriteState(anchor) /\ pc' = "idle"
     \/ Fault("mark") /\ pc' = "down" /\ UNCHANGED <<mark, marks>>
  /\ UNCHANGED <<env, log, synced, anchor, minted, acked>>

\* Mutant: the rewritten log misses the record the mark names.
Convert_OffByOne ==
  /\ pc = "down"
  /\ Convertible(Readable)
  /\ log' = Chain("shared", Readable - 1)
  /\ synced' = 0
  /\ anchor' = MarkOf(log')
  /\ pc' = "converting"
  /\ UNCHANGED <<env, mark, marks, minted, acked>>

\* converge: the whole log is rewritten, by rename and without a flush.
Convert ==
  /\ pc = "down"
  /\ Convertible(Readable)
  /\ log' = Chain("shared", Readable)
  /\ synced' = 0
  /\ anchor' = MarkOf(log')
  /\ pc' = "converting"
  /\ UNCHANGED <<env, mark, marks, minted, acked>>

SaveConverted ==
  /\ pc = "converting"
  /\ WriteState(anchor)
  /\ pc' = "idle"
  /\ UNCHANGED <<env, log, synced, anchor, minted, acked>>

Next ==
  \/ Log \/ WriteFails \/ Sync \/ SaveAnchor \/ SaveAnchorFails
  \/ Stop \/ Crash \/ CrashInWrite \/ PowerLoss
  \/ Boot \/ Adopt \/ Convert \/ SaveConverted

Spec == Init /\ [][Next]_vars
-----------------------------------------------------------------------------
(* The environments in which the properties hold *)

\* A short write that cannot be cut off again hides the record behind it; and
\* a conversion is not flushed.
Durable(sc) ==
  /\ "truncate" \notin sc.faults
  /\ ~ (sc.legacy /\ "power" \in sc.faults)

\* A failed flush, an interrupted conversion, a process crash followed by a
\* power loss, and anything that stops between the first record and its mark
\* leave a log that no start accepts.
Reconciled(sc) ==
  /\ sc.faults \subseteq {"crash", "power", "write", "mark"}
  /\ ~ ("crash" \in sc.faults /\ "power" \in sc.faults)
  /\ sc.start = 0 => sc.faults \subseteq {"write"}
-----------------------------------------------------------------------------
(* Properties *)

\* The server never refuses a log that only it has written: whatever was
\* interrupted, the next NewStore reconciles the log with its mark.
NeverRefuses == pc # "refused"

\* An entry Log reported as recorded is in the log for good: no crash, power
\* loss, trimmed tail or conversion takes it out.
AcknowledgedSurvive ==
  \A e \in acked : \E i \in 1..Len(log) : IsRecord(i) /\ log[i].entry = e

\* The places of the log up to the last entry that was reported as recorded.
Attested ==
  {i \in 1..Len(log) : \E j \in i..Len(log) : IsRecord(j) /\ log[j].entry \in acked}

\* "The append-only audit trail file": no call, fault, start or conversion takes
\* an entry out of the attested part, puts one in or reorders it, those included
\* that Log did not report itself because their mark failed; it only grows.
AppendOnly ==
  [][\A i \in Attested :
       /\ i \in Attested'
       /\ log'[i].kind = "record" /\ log'[i].entry = log[i].entry]_vars

\* VerifyStream succeeds between requests: the log is one unbroken chain, as
\* long as the anchor says and ending in the record it names.
LogVerifies ==
  pc = "idle" =>
    /\ \A i \in 1..Len(log) :
         IsRecord(i) /\ Follows(i, IF i = 1 THEN Genesis ELSE DigestOf(log[i - 1]))
    /\ anchor = MarkOf(log)
=============================================================================
