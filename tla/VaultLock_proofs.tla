--------------------------- MODULE VaultLock_proofs ---------------------------
(***************************************************************************)
(* Proofs about VaultLock, for any number of downloads, lookups and saves: *)
(* the lock excludes what it should, and the only way its users wait for   *)
(* each other in a circle is OpenVault's nested read lock.                 *)
(***************************************************************************)
EXTENDS VaultLock, FiniteSetTheorems, TLAPS

\* Each kind of request goes through its own places only.
Places ==
  /\ \A r \in Downloads :
       pc[r] \in {"idle", "outerWait", "outer", "innerWait", "inner", "opening"}
  /\ \A r \in Lookups : pc[r] \in {"idle", "innerWait", "inner"}
  /\ \A w \in Saves : pc[w] \in {"idle", "locking", "announced", "writing"}

\* The owner is the one writer past its announcement; it counts down the read
\* locks that are left, and readers wait for nobody else.
Ownership ==
  /\ \A w \in Saves : pc[w] \in {"announced", "writing"} <=> owner = w
  /\ owner # None => awaited = Cardinality(Holding) + Cardinality(HoldingTwice)
  /\ \A w \in Saves : pc[w] = "writing" => awaited = 0
  /\ \A r \in Readers : pc[r] \in {"outerWait", "innerWait"} => owner # None

IInv ==
  /\ TypeOK
  /\ Places
  /\ Ownership

\* What a request holds, by where it is.
LEMMA HeldFacts ==
  ASSUME Places
  PROVE  /\ \A r \in Downloads :
              Held(r) = IF pc[r] = "inner" THEN 2
                        ELSE IF pc[r] \in {"outer", "innerWait", "opening"} THEN 1 ELSE 0
         /\ \A r \in Lookups : Held(r) = IF pc[r] = "inner" THEN 1 ELSE 0
         /\ \A w \in Saves : Held(w) = 0
BY RequestsAssumption DEF Places, Held, Readers

\* The sets of holders are finite, and empty together with their number.
LEMMA HolderFacts ==
  ASSUME NEW H \in SUBSET Readers, NEW T \in SUBSET Downloads, T \subseteq H
  PROVE  /\ IsFiniteSet(H) /\ IsFiniteSet(T)
         /\ Cardinality(H) \in Nat /\ Cardinality(T) \in Nat
         /\ Cardinality(Readers) + Cardinality(Downloads) \in Nat
         /\ Cardinality(H) + Cardinality(T) \in 0 .. Cardinality(Readers) + Cardinality(Downloads)
         /\ Cardinality(H) + Cardinality(T) = 0 <=> H = {}
<1>1. IsFiniteSet(Readers) /\ IsFiniteSet(Downloads)
  BY RequestsAssumption, FS_Subset DEF Requests, Readers
<1>2. /\ Cardinality(Readers) \in Nat /\ Cardinality(Downloads) \in Nat
      /\ IsFiniteSet(H) /\ Cardinality(H) <= Cardinality(Readers)
      /\ IsFiniteSet(T) /\ Cardinality(T) <= Cardinality(Downloads)
  BY <1>1, FS_Subset, FS_CardinalityType
<1>3. Cardinality(H) \in Nat /\ Cardinality(T) \in Nat
  BY <1>2, FS_CardinalityType
<1>4. (Cardinality(H) = 0 <=> H = {}) /\ (T = {} => Cardinality(T) = 0)
  BY <1>2, FS_EmptySet
<1> QED
  BY <1>2, <1>3, <1>4

\* Initially nobody holds or waits.
LEMMA IInvInit == Init => IInv
<1>1. IsFiniteSet(Readers) /\ IsFiniteSet(Downloads)
  BY RequestsAssumption, FS_Subset DEF Requests, Readers
<1>2. Cardinality(Readers) \in Nat /\ Cardinality(Downloads) \in Nat
  BY <1>1, FS_CardinalityType
<1>3. Init => TypeOK
  BY <1>2 DEF Init, TypeOK
<1>4. Init => Places /\ Ownership
  BY RequestsAssumption DEF Init, Places, Ownership, Requests, Readers
<1> QED
  BY <1>3, <1>4 DEF IInv

\* The same after a step.
LEMMA HeldFactsNext ==
  ASSUME Places'
  PROVE  /\ \A r \in Downloads :
              Held(r)' = IF pc'[r] = "inner" THEN 2
                         ELSE IF pc'[r] \in {"outer", "innerWait", "opening"} THEN 1 ELSE 0
         /\ \A r \in Lookups : Held(r)' = IF pc'[r] = "inner" THEN 1 ELSE 0
         /\ \A w \in Saves : Held(w)' = 0
BY RequestsAssumption DEF Places, Held, Readers

\* The kinds of request are apart, and None is no request.
LEMMA Kinds ==
  /\ Downloads \subseteq Readers /\ Lookups \subseteq Readers
  /\ \A r \in Requests : r \in Downloads \/ r \in Lookups \/ r \in Saves
  /\ \A r \in Downloads : r \notin Lookups /\ r \notin Saves /\ r \in Requests /\ r # None
  /\ \A r \in Lookups : r \notin Downloads /\ r \notin Saves /\ r \in Requests /\ r # None
  /\ \A r \in Saves : r \notin Downloads /\ r \notin Lookups /\ r \notin Readers
                      /\ r \in Requests /\ r # None
BY RequestsAssumption DEF Requests, Readers

\* One request moves to another of its places.
Moves(r, place) ==
  /\ r \in Requests
  /\ pc' = [pc EXCEPT ![r] = place]
  /\ Places'

\* A move that keeps what the request holds keeps all that is held.
LEMMA SameHolders ==
  ASSUME IInv, NEW r \in Requests, NEW place, Moves(r, place), Held(r)' = Held(r)
  PROVE  Holding' = Holding /\ HoldingTwice' = HoldingTwice
<1>1. \A x \in Requests : x # r => pc'[x] = pc[x]
  BY DEF Moves, IInv, TypeOK
<1>2. \A x \in Requests : Held(x)' = Held(x)
  <2>1. ASSUME NEW x \in Requests, x # r PROVE Held(x)' = Held(x)
    <3>1. pc'[x] = pc[x]
      BY <1>1, <2>1
    <3>2. /\ x \in Downloads => Held(x)' = Held(x)
          /\ x \in Lookups => Held(x)' = Held(x)
          /\ x \in Saves => Held(x)' = Held(x)
      BY <3>1, HeldFacts, HeldFactsNext DEF Moves, IInv
    <3> QED
      BY <3>2, Kinds
  <2> QED
    BY <2>1
<1> QED
  BY <1>2, Kinds DEF Holding, HoldingTwice, Readers

\* A reader that asks for a read lock gets it unless a writer was announced,
\* which then need not wait for it.
LEMMA RLockKeeps ==
  ASSUME IInv, NEW r \in Requests, StartDownload(r) \/ StartLookup(r) \/ ReadMetadata(r)
  PROVE  IInv'
<1>1. /\ UNCHANGED <<owner, awaited>> /\ pc \in [Requests -> {"idle", "outerWait", "outer",
            "innerWait", "inner", "opening", "locking", "announced", "writing"}]
      /\ r \notin Saves
  BY Kinds DEF StartDownload, StartLookup, ReadMetadata, RLock, IInv, TypeOK
<1>2. PICK place :
        /\ pc' = [pc EXCEPT ![r] = place]
        /\ \/ /\ r \in Downloads /\ pc[r] = "idle"
              /\ place = IF owner = None THEN "outer" ELSE "outerWait"
           \/ /\ r \in Lookups /\ pc[r] = "idle"
              /\ place = IF owner = None THEN "inner" ELSE "innerWait"
           \/ /\ r \in Downloads /\ pc[r] = "outer"
              /\ place = IF owner = None THEN "inner" ELSE "innerWait"
  BY DEF StartDownload, StartLookup, ReadMetadata, RLock
<1>3. pc'[r] = place /\ \A x \in Requests : x # r => pc'[x] = pc[x]
  BY <1>1, <1>2
<1>4. Places'
  <2>1. \A x \in Downloads :
          pc'[x] \in {"idle", "outerWait", "outer", "innerWait", "inner", "opening"}
    BY <1>2, <1>3, Kinds DEF IInv, Places
  <2>2. \A x \in Lookups : pc'[x] \in {"idle", "innerWait", "inner"}
    BY <1>2, <1>3, Kinds DEF IInv, Places
  <2>3. \A w \in Saves : pc'[w] \in {"idle", "locking", "announced", "writing"}
    BY <1>1, <1>3, Kinds DEF IInv, Places
  <2> QED
    BY <2>1, <2>2, <2>3 DEF Places
<1>5. TypeOK'
  BY <1>1, <1>2 DEF IInv, TypeOK
<1>6. owner # None => Holding' = Holding /\ HoldingTwice' = HoldingTwice
  <2>1. ASSUME owner # None PROVE Held(r)' = Held(r)
    BY <1>2, <1>3, <1>4, <2>1, HeldFacts, HeldFactsNext, Kinds DEF IInv
  <2> QED
    BY <1>2, <1>4, <2>1, SameHolders DEF Moves
<1>7. Ownership'
  <2>1. \A w \in Saves : pc'[w] = pc[w]
    BY <1>1, <1>3, Kinds
  <2>2. \A x \in Readers : pc'[x] \in {"outerWait", "innerWait"} => owner # None
    BY <1>2, <1>3, Kinds DEF IInv, Ownership, Readers
  <2> QED
    BY <1>1, <1>6, <2>1, <2>2 DEF IInv, Ownership
<1> QED
  BY <1>4, <1>5, <1>7 DEF IInv

\* A returned read lock is one less for the announced writer, which cannot be
\* writing yet.
LEMMA RUnlockKeeps ==
  ASSUME IInv, NEW r \in Requests, ReturnMetadata(r) \/ ReturnVault(r)
  PROVE  IInv'
<1>1. /\ UNCHANGED owner /\ awaited' = IF owner = None THEN awaited ELSE awaited - 1
      /\ pc \in [Requests -> {"idle", "outerWait", "outer", "innerWait", "inner", "opening",
                              "locking", "announced", "writing"}]
      /\ pc[r] \in {"inner", "opening"}
  BY DEF ReturnMetadata, ReturnVault, RUnlock, IInv, TypeOK
<1>2. PICK place :
        /\ pc' = [pc EXCEPT ![r] = place]
        /\ \/ r \in Downloads /\ pc[r] = "inner" /\ place = "opening"
           \/ r \in Lookups /\ pc[r] = "inner" /\ place = "idle"
           \/ r \in Downloads /\ pc[r] = "opening" /\ place = "idle"
  BY <1>1, Kinds DEF ReturnMetadata, ReturnVault, RUnlock, IInv, Places
<1>3. pc'[r] = place /\ \A x \in Requests : x # r => pc'[x] = pc[x]
  BY <1>1, <1>2
<1>4. Places'
  <2>1. \A x \in Downloads :
          pc'[x] \in {"idle", "outerWait", "outer", "innerWait", "inner", "opening"}
    BY <1>2, <1>3, Kinds DEF IInv, Places
  <2>2. \A x \in Lookups : pc'[x] \in {"idle", "innerWait", "inner"}
    BY <1>2, <1>3, Kinds DEF IInv, Places
  <2>3. \A w \in Saves : pc'[w] \in {"idle", "locking", "announced", "writing"}
    BY <1>2, <1>3, Kinds DEF IInv, Places
  <2> QED
    BY <2>1, <2>2, <2>3 DEF Places
<1>5. \/ Holding' = Holding /\ HoldingTwice' = HoldingTwice \ {r} /\ r \in HoldingTwice
      \/ Holding' = Holding \ {r} /\ HoldingTwice' = HoldingTwice /\ r \in Holding
  <2>1. \A x \in Readers : x # r => Held(x)' = Held(x)
    <3>1. \A x \in Downloads : x # r => Held(x)' = Held(x)
      BY <1>3, <1>4, HeldFacts, HeldFactsNext, Kinds DEF IInv
    <3>2. \A x \in Lookups : x # r => Held(x)' = Held(x)
      BY <1>3, <1>4, HeldFacts, HeldFactsNext, Kinds DEF IInv
    <3> QED
      BY <3>1, <3>2 DEF Readers
  <2>2. CASE r \in Downloads /\ pc[r] = "inner"
    <3>1. Held(r) = 2 /\ Held(r)' = 1 /\ r \in Readers
      BY <1>2, <1>3, <1>4, <2>2, HeldFacts, HeldFactsNext, Kinds DEF IInv
    <3> QED
      BY <2>1, <2>2, <3>1, Kinds DEF Holding, HoldingTwice
  <2>3. CASE r \in Lookups \/ pc[r] = "opening"
    <3>1. Held(r) = 1 /\ Held(r)' = 0 /\ r \in Readers
      BY <1>2, <1>3, <1>4, <2>3, HeldFacts, HeldFactsNext, Kinds DEF IInv
    <3> QED
      BY <2>1, <2>3, <3>1, Kinds DEF Holding, HoldingTwice
  <2> QED
    BY <1>2, <2>2, <2>3
<1>6. /\ Holding \in SUBSET Readers /\ HoldingTwice \in SUBSET Downloads
      /\ HoldingTwice \subseteq Holding
  BY Kinds DEF Holding, HoldingTwice
<1>7. r \in Holding
  BY <1>5, <1>6
<1>8. /\ Cardinality(Holding') + Cardinality(HoldingTwice')
            = Cardinality(Holding) + Cardinality(HoldingTwice) - 1
      /\ Cardinality(Holding) + Cardinality(HoldingTwice) > 0
      /\ Cardinality(Holding) + Cardinality(HoldingTwice)
           \in 0 .. Cardinality(Readers) + Cardinality(Downloads)
      /\ Cardinality(Readers) + Cardinality(Downloads) \in Nat
      /\ Cardinality(Holding) \in Nat /\ Cardinality(HoldingTwice) \in Nat
  <2>1. /\ IsFiniteSet(Holding) /\ IsFiniteSet(HoldingTwice)
        /\ Cardinality(Holding) \in Nat /\ Cardinality(HoldingTwice) \in Nat
        /\ Cardinality(Holding) + Cardinality(HoldingTwice)
             \in 0 .. Cardinality(Readers) + Cardinality(Downloads)
        /\ Cardinality(Readers) + Cardinality(Downloads) \in Nat
        /\ Cardinality(Holding) + Cardinality(HoldingTwice) # 0
    BY <1>6, <1>7, HolderFacts
  <2>2. Cardinality(Holding \ {r}) = Cardinality(Holding) - 1
    BY <1>7, <2>1, FS_RemoveElement
  <2>3. r \in HoldingTwice => Cardinality(HoldingTwice \ {r}) = Cardinality(HoldingTwice) - 1
    BY <2>1, FS_RemoveElement
  <2>4. Cardinality(Holding') + Cardinality(HoldingTwice')
          = Cardinality(Holding) + Cardinality(HoldingTwice) - 1
    <3>1. CASE Holding' = Holding /\ HoldingTwice' = HoldingTwice \ {r} /\ r \in HoldingTwice
      BY <2>1, <2>3, <3>1
    <3>2. CASE Holding' = Holding \ {r} /\ HoldingTwice' = HoldingTwice
      BY <2>1, <2>2, <3>2
    <3> QED
      BY <1>5, <3>1, <3>2
  <2> QED
    BY <2>1, <2>4
<1>9. TypeOK'
  <2>1. pc' \in [Requests -> {"idle", "outerWait", "outer", "innerWait", "inner", "opening",
                              "locking", "announced", "writing"}]
    BY <1>1, <1>2
  <2>2. awaited' \in 0 .. Cardinality(Readers) + Cardinality(Downloads)
    <3>1. owner # None => awaited = Cardinality(Holding) + Cardinality(HoldingTwice)
      BY DEF IInv, Ownership
    <3> QED
      BY <1>1, <1>8, <3>1 DEF IInv, TypeOK
  <2> QED
    BY <1>1, <2>1, <2>2 DEF IInv, TypeOK
<1>10. Ownership'
  <2>1. \A w \in Saves : pc'[w] = pc[w]
    BY <1>2, <1>3, Kinds
  <2>2. \A w \in Saves : pc[w] # "writing"
    <3>1. ASSUME NEW w \in Saves, pc[w] = "writing" PROVE FALSE
      <4>1. awaited = 0 /\ owner = w /\ owner # None
        BY <3>1, Kinds DEF IInv, Ownership
      <4> QED
        BY <1>8, <4>1 DEF IInv, Ownership
    <3> QED
      BY <3>1
  <2>3. \A x \in Readers : pc'[x] \in {"outerWait", "innerWait"} => pc[x] = pc'[x]
    BY <1>2, <1>3, Kinds DEF Readers
  <2>4. ASSUME owner # None
        PROVE  awaited' = Cardinality(Holding') + Cardinality(HoldingTwice')
    <3>1. awaited' = awaited - 1
      BY <1>1, <2>4
    <3>2. awaited = Cardinality(Holding) + Cardinality(HoldingTwice)
      BY <2>4 DEF IInv, Ownership
    <3> QED
      BY <1>8, <3>1, <3>2
  <2> QED
    BY <1>1, <2>1, <2>2, <2>3, <2>4 DEF IInv, Ownership
<1> QED
  BY <1>4, <1>9, <1>10 DEF IInv

\* A writer gets in line, announces itself with the read locks it finds, and
\* enters when none of them is left.
LEMMA LockKeeps ==
  ASSUME IInv, NEW w \in Requests, StartSave(w) \/ Announce(w) \/ Enter(w)
  PROVE  IInv'
<1>1. /\ pc \in [Requests -> {"idle", "outerWait", "outer", "innerWait", "inner", "opening",
                              "locking", "announced", "writing"}]
      /\ w \in Saves
  <2>1. w \in Saves
    BY Kinds DEF StartSave, Announce, Enter, IInv, Places
  <2> QED
    BY <2>1 DEF IInv, TypeOK
<1>2. PICK place :
        /\ pc' = [pc EXCEPT ![w] = place]
        /\ \/ place = "locking" /\ StartSave(w)
           \/ place = "announced" /\ Announce(w)
           \/ place = "writing" /\ Enter(w)
  BY DEF StartSave, Announce, Enter
<1>3. pc'[w] = place /\ \A x \in Requests : x # w => pc'[x] = pc[x]
  BY <1>1, <1>2
<1>4. Places'
  <2>1. \A x \in Readers : pc'[x] = pc[x]
    BY <1>1, <1>3, Kinds DEF Readers
  <2>2. \A x \in Saves : pc'[x] \in {"idle", "locking", "announced", "writing"}
    BY <1>2, <1>3, Kinds DEF IInv, Places
  <2> QED
    BY <2>1, <2>2, Kinds DEF IInv, Places
<1>5. Holding' = Holding /\ HoldingTwice' = HoldingTwice
  <2>1. Held(w)' = Held(w)
    BY <1>1, <1>4, HeldFacts, HeldFactsNext DEF IInv
  <2> QED
    BY <1>2, <1>4, <2>1, SameHolders DEF Moves
<1>6. TypeOK'
  <2>1. Cardinality(Holding) + Cardinality(HoldingTwice)
          \in 0 .. Cardinality(Readers) + Cardinality(Downloads)
    <3>1. /\ Holding \in SUBSET Readers /\ HoldingTwice \in SUBSET Downloads
          /\ HoldingTwice \subseteq Holding
      BY Kinds DEF Holding, HoldingTwice
    <3> QED
      BY <3>1, HolderFacts
  <2>2. awaited' \in 0 .. Cardinality(Readers) + Cardinality(Downloads)
    BY <1>2, <2>1 DEF StartSave, Announce, Enter, IInv, TypeOK
  <2>3. owner' \in Saves \cup {None}
    BY <1>1, <1>2 DEF StartSave, Announce, Enter, IInv, TypeOK
  <2>4. pc' \in [Requests -> {"idle", "outerWait", "outer", "innerWait", "inner", "opening",
                              "locking", "announced", "writing"}]
    BY <1>1, <1>2
  <2> QED
    BY <2>2, <2>3, <2>4 DEF TypeOK
<1>7. Ownership'
  <2>1. \A x \in Readers : pc'[x] = pc[x]
    BY <1>1, <1>3, Kinds DEF Readers
  <2>2. CASE StartSave(w)
    BY <1>1, <1>2, <1>3, <1>5, <2>1, <2>2 DEF StartSave, Announce, Enter, IInv, Ownership
  <2>3. CASE Announce(w)
    <3>1. /\ owner = None /\ owner' = w /\ pc'[w] = "announced" /\ w # None
          /\ awaited' = Cardinality(Holding) + Cardinality(HoldingTwice)
      BY <1>1, <1>3, <2>3, Kinds DEF Announce
    <3>2. \A x \in Saves : pc[x] \notin {"announced", "writing"}
      BY <3>1, Kinds DEF IInv, Ownership
    <3>3. \A x \in Saves : x # w => pc'[x] = pc[x]
      BY <1>3, Kinds
    <3> QED
      BY <1>5, <2>1, <3>1, <3>2, <3>3 DEF IInv, Ownership
  <2>4. CASE Enter(w)
    <3>1. pc[w] = "announced" /\ awaited = 0 /\ UNCHANGED <<owner, awaited>> /\ pc'[w] = "writing"
      BY <1>1, <1>3, <2>4 DEF Enter
    <3>2. \A x \in Saves : x # w => pc'[x] = pc[x]
      BY <1>3, Kinds
    <3> QED
      BY <1>5, <2>1, <3>1, <3>2 DEF IInv, Ownership
  <2> QED
    BY <1>2, <2>2, <2>3, <2>4
<1> QED
  BY <1>4, <1>6, <1>7 DEF IInv

\* The waiting readers are let in, and nobody owns the lock.
LEMMA UnlockKeeps ==
  ASSUME IInv, NEW w \in Requests, Unlock(w)
  PROVE  IInv'
<1>1. /\ w \in Saves /\ pc[w] = "writing" /\ owner' = None /\ UNCHANGED awaited /\ owner = w
  BY Kinds DEF Unlock, IInv, Places, Ownership
<1>2. \A x \in Requests :
        pc'[x] = CASE x = w -> "idle"
                   [] pc[x] = "outerWait" -> "outer"
                   [] pc[x] = "innerWait" -> "inner"
                   [] OTHER -> pc[x]
  BY DEF Unlock
<1>3. pc'[w] = "idle" /\ \A x \in Saves : x # w => pc'[x] = pc[x]
  BY <1>1, <1>2, Kinds DEF IInv, Places
<1>4. \A x \in Readers :
        pc'[x] = IF pc[x] = "outerWait" THEN "outer"
                 ELSE IF pc[x] = "innerWait" THEN "inner" ELSE pc[x]
  BY <1>1, <1>2, Kinds DEF Readers
<1>5. Places'
  <2>1. \A x \in Downloads :
          pc'[x] \in {"idle", "outerWait", "outer", "innerWait", "inner", "opening"}
    BY <1>4, Kinds DEF IInv, Places
  <2>2. \A x \in Lookups : pc'[x] \in {"idle", "innerWait", "inner"}
    BY <1>4, Kinds DEF IInv, Places
  <2>3. \A x \in Saves : pc'[x] \in {"idle", "locking", "announced", "writing"}
    BY <1>3 DEF IInv, Places
  <2> QED
    BY <2>1, <2>2, <2>3 DEF Places
<1>6. TypeOK'
  <2>1. \A x \in Requests :
          pc'[x] \in {"idle", "outerWait", "outer", "innerWait", "inner", "opening",
                      "locking", "announced", "writing"}
    BY <1>5, Kinds DEF Places
  <2>2. pc' = [x \in Requests |-> pc'[x]]
    BY DEF Unlock
  <2> QED
    BY <1>1, <2>1, <2>2 DEF IInv, TypeOK
<1>7. Ownership'
  <2>1. \A x \in Saves : pc'[x] \notin {"announced", "writing"} /\ x # None
    BY <1>1, <1>3, Kinds DEF IInv, Ownership
  <2>2. \A x \in Readers : pc'[x] \notin {"outerWait", "innerWait"}
    BY <1>4
  <2> QED
    BY <1>1, <2>1, <2>2 DEF Ownership
<1> QED
  BY <1>5, <1>6, <1>7 DEF IInv

\* Every step keeps the invariant.
LEMMA IInvNext == IInv /\ [Next]_vars => IInv'
<1>1. ASSUME IInv, UNCHANGED vars PROVE IInv'
  BY <1>1 DEF vars, IInv, TypeOK, Places, Ownership, Holding, HoldingTwice, Held
<1> QED
  BY <1>1, RLockKeeps, RUnlockKeeps, LockKeeps, UnlockKeeps DEF Next

\* The owner of the lock is known, and what it waits for is what is held.
THEOREM LockInvariant == Spec => []IInv
BY IInvInit, IInvNext, PTL DEF Spec

\* The counter of awaited read locks never goes below zero, nor beyond the
\* number of read locks that OpenVault and GetMetadata can hold at once.
THEOREM TypeCorrect == Spec => []TypeOK
<1>1. IInv => TypeOK
  BY DEF IInv
<1> QED
  BY <1>1, LockInvariant, PTL

\* No operation reads meta.json or opens the KDBX while another rewrites them.
THEOREM WritesExcludeSafe == Spec => []WritesExclude
<1>1. ASSUME IInv PROVE WritesExclude
  <2> SUFFICES ASSUME NEW w \in Saves, pc[w] = "writing", NEW r \in Requests \ {w}
               PROVE  Held(r) = 0 /\ pc[r] # "writing"
    BY DEF WritesExclude
  <2>1. owner = w /\ owner # None /\ awaited = 0
    BY <1>1, Kinds DEF IInv, Ownership
  <2>2. Holding = {}
    <3>1. /\ Holding \in SUBSET Readers /\ HoldingTwice \in SUBSET Downloads
          /\ HoldingTwice \subseteq Holding
      BY Kinds DEF Holding, HoldingTwice
    <3> QED
      BY <1>1, <2>1, <3>1, HolderFacts DEF IInv, Ownership
  <2>3. Held(r) = 0
    <3>1. r \in Readers => ~ (Held(r) > 0)
      BY <2>2 DEF Holding
    <3>2. /\ r \in Downloads => Held(r) \in {0, 1, 2}
          /\ r \in Lookups => Held(r) \in {0, 1}
          /\ r \in Saves => Held(r) = 0
      BY <1>1, HeldFacts DEF IInv
    <3> QED
      BY <3>1, <3>2, Kinds
  <2>4. pc[r] # "writing"
    BY <1>1, <2>1, Kinds DEF IInv, Ownership, Places
  <2> QED
    BY <2>3, <2>4
<1> QED
  BY <1>1, LockInvariant, PTL

\* Requests that have not returned never all wait, unless a writer waits for a
\* download that waits for it: the safety part of OnlyWedgeStops.
THEOREM SomeoneGoesOnSafe == Spec => []SomeoneGoesOn
<1>1. ASSUME IInv PROVE SomeoneGoesOn
  <2> SUFFICES ASSUME NEW r \in Requests, pc[r] # "idle", ~ Wedged,
                      \A x \in Requests : ~ CanGoOn(x)
               PROVE  FALSE
    BY DEF SomeoneGoesOn
  <2>1. owner # None
    <3>1. CASE r \in Saves
      BY <1>1, <3>1, Kinds DEF IInv, Places, Ownership, CanGoOn
    <3>2. CASE r \in Readers
      BY <1>1, <3>2, Kinds DEF IInv, Places, Ownership, CanGoOn, Readers
    <3> QED
      BY <3>1, <3>2, Kinds
  <2>2. owner \in Saves /\ owner \in Requests /\ pc[owner] = "announced" /\ awaited # 0
    BY <1>1, <2>1, Kinds DEF IInv, TypeOK, Ownership, CanGoOn
  <2>3. PICK x \in Readers : Held(x) > 0
    <3>1. /\ Holding \in SUBSET Readers /\ HoldingTwice \in SUBSET Downloads
          /\ HoldingTwice \subseteq Holding
      BY Kinds DEF Holding, HoldingTwice
    <3>2. Holding # {}
      BY <1>1, <2>1, <2>2, <3>1, HolderFacts DEF IInv, Ownership
    <3> QED
      BY <3>2 DEF Holding
  <2>4. x \in Requests /\ pc[x] \in {"outer", "innerWait", "inner", "opening"}
        /\ (pc[x] = "innerWait" => x \in Downloads)
    <3>1. CASE x \in Downloads
      BY <1>1, <2>3, <3>1, HeldFacts, Kinds DEF IInv
    <3>2. CASE x \in Lookups
      BY <1>1, <2>3, <3>2, HeldFacts, Kinds DEF IInv
    <3> QED
      BY <3>1, <3>2 DEF Readers
  <2> QED
    BY <2>1, <2>4 DEF CanGoOn, Wedged
<1> QED
  BY <1>1, LockInvariant, PTL
=============================================================================
