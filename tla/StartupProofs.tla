--------------------------- MODULE StartupProofs ---------------------------
(***************************************************************************)
(* Proofs about Startup: RefsExact, JournalExact, AnswerMeansApplied and   *)
(* OverLeavesNothing hold for every number of steps and of requests at once,    *)
(* every size of an answer and every limit of the journal.                 *)
(***************************************************************************)
EXTENDS Startup, FiniteSetTheorems, TLAPS

Contents == {"auth", "empty", "open", "bad"}
Ats == {"idle", "start", "late", "refused", "write"}
Places == [at : Ats, index : 0..Steps, body : Contents]

Shapes ==
  /\ startupSteps \in 0..Steps /\ journal \subseteq Indices
  /\ digest \in [Indices -> Contents] /\ refs \in [Indices -> Nat]
  /\ journalBytes \in Nat /\ others \in Nat
  /\ pc \in [Handlers -> Places]
  /\ authed \in BOOLEAN /\ realtime \in BOOLEAN /\ startupInvalid \in BOOLEAN /\ peerDone \in BOOLEAN

\* Only steps that were taken are in the journal or being answered.
Taken ==
  /\ \A k \in journal : k < startupSteps
  /\ \A h \in Handlers : pc[h].at = "write" => pc[h].index < startupSteps

\* The digest of an upload in the journal is that of the body applied.
Digests == \A k \in journal : IsUpload(k) => applied[k] = digest[k]

StepInv == Shapes /\ Taken /\ Digests /\ AnswerMeansApplied

\* Other sessions hold whole answers.
WholeAnswers == \E n \in Nat : others = n * Capacity

Inv == StepInv /\ RefsExact /\ JournalExact /\ WholeAnswers

-----------------------------------------------------------------------------
(* Steps and answers. *)

LEMMA StepInit == ASSUME Init PROVE StepInv
<1> USE StartupAssumption
<1>1. Idle \in Places /\ Idle.at = "idle"
  BY DEF Idle, Places, Ats, Contents
<1>2. Shapes
  <2>1. pc \in [Handlers -> Places] /\ digest \in [Indices -> Contents] /\ refs \in [Indices -> Nat]
    BY <1>1 DEF Init, Contents
  <2>2. startupSteps \in 0..Steps /\ journal \subseteq Indices /\ journalBytes \in Nat /\ others \in Nat
    BY DEF Init
  <2>3. authed \in BOOLEAN /\ realtime \in BOOLEAN /\ startupInvalid \in BOOLEAN /\ peerDone \in BOOLEAN
    BY DEF Init
  <2>4. QED
    BY <2>1, <2>2, <2>3 DEF Shapes
<1>3. Taken /\ Digests
  BY <1>1 DEF Init, Taken, Digests
<1>4. AnswerMeansApplied
  <2>1. DOMAIN applied = {k \in 0..(startupSteps - 1) : IsUpload(k)}
    BY DEF Init
  <2>2. QED
    BY <1>1, <2>1 DEF Init, AnswerMeansApplied
<1>5. QED
  BY <1>2, <1>3, <1>4 DEF StepInv

\* The journal at most loses entries, no step is taken, and no request gets
\* to its answer.
LEMMA StepFrame ==
  ASSUME StepInv, UNCHANGED <<startupSteps, digest, applied>>, journal' \subseteq journal,
         refs' \in [Indices -> Nat], journalBytes' \in Nat, others' \in Nat,
         authed' \in BOOLEAN, realtime' \in BOOLEAN, startupInvalid' \in BOOLEAN, peerDone' \in BOOLEAN,
         pc' \in [Handlers -> Places],
         \A h \in Handlers : pc'[h] = pc[h] \/ pc'[h].at # "write"
  PROVE  StepInv'
<1>1. Shapes'
  BY DEF StepInv, Shapes
<1>2. Taken' /\ Digests'
  BY DEF StepInv, Taken, Digests
<1>3. AnswerMeansApplied'
  BY DEF StepInv, AnswerMeansApplied
<1>4. QED
  BY <1>1, <1>2, <1>3 DEF StepInv

LEMMA IdlePlace == Idle \in Places /\ Idle.at = "idle"
BY StartupAssumption DEF Idle, Places, Ats, Contents

\* A release gives back references that are there.
LEMMA ReleaseShapes ==
  ASSUME StepInv, RefsExact, JournalExact, NEW ks \in SUBSET Indices, Release(ks), \A k \in ks : refs[k] >= 1
  PROVE  /\ refs' \in [Indices -> Nat] /\ journalBytes' \in Nat
         /\ \A k \in Indices : refs'[k] = IF k \in ks THEN refs[k] - 1 ELSE refs[k]
         /\ journalBytes' = others +
              Capacity * Cardinality({k \in Indices : refs'[k] > 0 /\ ~IsUpload(k)})
         /\ journalBytes' <= journalBytes
<1> USE StartupAssumption
<1> DEFINE A == {k \in Indices : refs[k] > 0 /\ ~IsUpload(k)}
           B == {k \in Indices : refs'[k] > 0 /\ ~IsUpload(k)}
           C == {k \in ks : refs[k] = 1 /\ ~IsUpload(k)}
<1>1. refs \in [Indices -> Nat] /\ journalBytes \in Nat /\ others \in Nat
  BY DEF StepInv, Shapes
<1>2. \A k \in Indices : refs'[k] = IF k \in ks THEN refs[k] - 1 ELSE refs[k]
  BY DEF Release
<1>3. refs' \in [Indices -> Nat]
  <2>1. \A k \in Indices : (IF k \in ks THEN refs[k] - 1 ELSE refs[k]) \in Nat
    BY <1>1
  <2>2. QED
    BY <2>1 DEF Release
<1>4. A = B \cup C /\ B \cap C = {}
  BY <1>1, <1>2
<1>5. IsFiniteSet(Indices)
  BY FS_Interval DEF Indices
<1>6. IsFiniteSet(B) /\ IsFiniteSet(C) /\ Cardinality(B) \in Nat /\ Cardinality(C) \in Nat
  <2>1. B \in SUBSET Indices /\ C \in SUBSET Indices
    OBVIOUS
  <2> HIDE DEF B, C
  <2>2. QED
    BY <1>5, <2>1, FS_Subset, FS_CardinalityType
<1>7. Cardinality(A) = Cardinality(B) + Cardinality(C)
  <2> HIDE DEF A, B, C
  <2>1. Cardinality(B \cup C) = Cardinality(B) + Cardinality(C) - Cardinality(B \cap C)
    BY <1>6, FS_Union
  <2>2. Cardinality(B \cap C) = 0
    BY <1>4, FS_EmptySet
  <2>3. QED
    BY <1>4, <1>6, <2>1, <2>2
<1>8. journalBytes = others + Capacity * Cardinality(A)
  BY DEF JournalExact
<1>9. journalBytes' = journalBytes - Capacity * Cardinality(C)
  BY DEF Release
<1>10. journalBytes' = others + Capacity * Cardinality(B) /\ journalBytes' \in Nat /\ journalBytes' <= journalBytes
  <2> HIDE DEF A, B, C
  <2>1. Capacity * Cardinality(A) = Capacity * Cardinality(B) + Capacity * Cardinality(C)
    BY <1>6, <1>7
  <2>2. Capacity * Cardinality(B) \in Nat /\ Capacity * Cardinality(C) \in Nat
    BY <1>6
  <2>3. QED
    BY <1>1, <1>8, <1>9, <2>1, <2>2
<1>11. QED
  BY <1>2, <1>3, <1>10

-----------------------------------------------------------------------------
(* Steps that answer nothing. *)

\* No request begins or ends an answer.
SameWriters ==
  /\ pc' \in [Handlers -> Places]
  /\ \A h \in Handlers : pc'[h] = pc[h] \/ (pc'[h].at # "write" /\ pc[h].at # "write")

SameSession == UNCHANGED <<startupSteps, applied, others>>
Flags == authed \in BOOLEAN /\ realtime \in BOOLEAN /\ startupInvalid \in BOOLEAN /\ peerDone \in BOOLEAN

LEMMA WritersSame == ASSUME SameWriters, NEW k PROVE Writing(k)' = Writing(k)
BY DEF SameWriters, Writing

LEMMA InvQuiet ==
  ASSUME Inv, UNCHANGED entries, SameSession, SameWriters, Flags'
  PROVE  Inv'
<1>1. StepInv'
  BY StepFrame DEF Inv, StepInv, Shapes, entries, SameSession, SameWriters, Flags
<1>2. RefsExact'
  BY WritersSame DEF Inv, RefsExact, entries
<1>3. JournalExact' /\ WholeAnswers'
  BY DEF Inv, JournalExact, WholeAnswers, entries, SameSession
<1>4. QED
  BY <1>1, <1>2, <1>3 DEF Inv

\* clearStartupLocked.
LEMMA InvClear ==
  ASSUME Inv, ClearStartup, SameSession, SameWriters, Flags'
  PROVE  Inv'
<1> USE StartupAssumption
<1>1. /\ journal \in SUBSET Indices /\ refs \in [Indices -> Nat]
      /\ \A k \in Indices : Cardinality(Writing(k)) \in Nat
      /\ \A k \in journal : refs[k] >= 1
  <2>1. \A k \in Indices : Writing(k) \in SUBSET Handlers
    BY DEF Writing
  <2>2. \A k \in Indices : Cardinality(Writing(k)) \in Nat
    BY <2>1, FS_Subset, FS_CardinalityType
  <2>3. journal \in SUBSET Indices /\ refs \in [Indices -> Nat]
    BY DEF Inv, StepInv, Shapes
  <2>4. QED
    BY <2>2, <2>3 DEF Inv, RefsExact
<1>2. /\ refs' \in [Indices -> Nat] /\ journalBytes' \in Nat
      /\ \A k \in Indices : refs'[k] = IF k \in journal THEN refs[k] - 1 ELSE refs[k]
      /\ journalBytes' = others + Capacity * Cardinality({k \in Indices : refs'[k] > 0 /\ ~IsUpload(k)})
      /\ journalBytes' <= journalBytes
  BY <1>1, ReleaseShapes DEF ClearStartup, Inv
<1>3. journal' = {} /\ digest' = digest
  BY DEF ClearStartup
<1>4. StepInv'
  BY <1>2, <1>3, StepFrame DEF Inv, StepInv, Shapes, SameSession, SameWriters, Flags
<1>5. RefsExact'
  <2> SUFFICES ASSUME NEW k \in Indices PROVE refs'[k] = Cardinality(Writing(k)')
    BY <1>1, <1>3, WritersSame DEF RefsExact
  <2>1. refs[k] = Cardinality(Writing(k)) + (IF k \in journal THEN 1 ELSE 0)
    BY DEF Inv, RefsExact
  <2>2. refs'[k] = Cardinality(Writing(k))
    BY <1>1, <1>2, <2>1
  <2>3. QED
    BY <2>2, WritersSame
<1>6. JournalExact'
  <2>1. journalBytes' <= JournalLimit
    BY <1>2 DEF Inv, JournalExact, StepInv, Shapes
  <2>2. QED
    BY <1>2, <2>1 DEF JournalExact, SameSession
<1>7. WholeAnswers'
  BY DEF Inv, WholeAnswers, SameSession
<1>8. QED
  BY <1>4, <1>5, <1>6, <1>7 DEF Inv

-----------------------------------------------------------------------------
(* Steps that begin or end an answer. *)

LEMMA WritingFinite ==
  ASSUME NEW k PROVE IsFiniteSet(Writing(k)) /\ Cardinality(Writing(k)) \in Nat
<1>1. Writing(k) \in SUBSET Handlers
  BY DEF Writing
<1>2. QED
  BY <1>1, StartupAssumption, FS_Subset, FS_CardinalityType

\* One request, which wrote nothing, begins to write the answer of step k.
LEMMA WritingAdds ==
  ASSUME pc' \in [Handlers -> Places], NEW h \in Handlers, NEW k, pc[h].at # "write",
         \A o \in Handlers \ {h} : pc'[o] = pc[o], pc'[h].at = "write", pc'[h].index = k
  PROVE  /\ Cardinality(Writing(k)') = Cardinality(Writing(k)) + 1
         /\ \A i : i # k => Writing(i)' = Writing(i)
<1>1. Writing(k)' = Writing(k) \cup {h} /\ h \notin Writing(k)
  BY DEF Writing
<1>2. \A i : i # k => Writing(i)' = Writing(i)
  BY DEF Writing
<1>3. QED
  BY <1>1, <1>2, WritingFinite, FS_AddElement

\* A new step enters the journal, with one reference for it and one for the
\* request that answers it.
LEMMA InvCommit ==
  ASSUME Inv, NEW h \in Handlers, NEW body \in Contents, NEW k \in Indices, startupSteps = k,
         pc[h].at = "start", pc[h].index = k,
         Commit(h, k, body), others' = others, Flags',
         \/ /\ IsUpload(k) /\ journalBytes' = journalBytes
            /\ applied' = [i \in DOMAIN applied \cup {k} |-> IF i = k THEN body ELSE applied[i]]
         \/ /\ ~IsUpload(k) /\ journalBytes' = journalBytes + Capacity
            /\ journalBytes' <= JournalLimit /\ applied' = applied
  PROVE  Inv'
<1> USE StartupAssumption
<1>1. /\ k \in 0..Steps /\ k + 1 \in 0..Steps /\ journal \subseteq Indices /\ digest \in [Indices -> Contents]
      /\ refs \in [Indices -> Nat] /\ journalBytes \in Nat /\ others \in Nat /\ pc \in [Handlers -> Places]
  BY DEF Inv, StepInv, Shapes, Indices
<1>2. /\ journal' = journal \cup {k} /\ digest' = [digest EXCEPT ![k] = body]
      /\ refs' = [refs EXCEPT ![k] = 2] /\ startupSteps' = k + 1
      /\ pc' = [pc EXCEPT ![h] = [at |-> "write", index |-> k, body |-> body]]
  BY DEF Commit
<1>3. /\ pc' \in [Handlers -> Places] /\ \A o \in Handlers \ {h} : pc'[o] = pc[o]
      /\ pc'[h].at = "write" /\ pc'[h].index = k /\ pc'[h].body = body
  <2>1. [at |-> "write", index |-> k, body |-> body] \in Places
    BY <1>1 DEF Places, Ats
  <2>2. QED
    BY <1>1, <1>2, <2>1
<1>4. k \notin journal /\ \A o \in Handlers : pc[o].at = "write" => pc[o].index < k
  BY <1>1 DEF Inv, StepInv, Taken, Indices
<1>5. Writing(k) = {} /\ refs[k] = 0
  <2>1. Writing(k) = {}
    <3>1. ASSUME NEW o \in Handlers, pc[o].at = "write", pc[o].index = k PROVE FALSE
      BY <3>1, <1>1, <1>4 DEF Indices
    <3>2. QED
      BY <3>1 DEF Writing
  <2>2. Cardinality(Writing(k)) = 0
    BY <2>1, FS_EmptySet
  <2>3. QED
    BY <2>1, <2>2, <1>4 DEF Inv, RefsExact
<1>6. DOMAIN applied = {i \in 0..(k - 1) : IsUpload(i)}
  BY DEF Inv, StepInv, AnswerMeansApplied
<1>7. /\ DOMAIN applied' = {i \in 0..k : IsUpload(i)}
      /\ \A i \in DOMAIN applied : applied'[i] = applied[i]
      /\ IsUpload(k) => applied'[k] = body
  <2>1. CASE IsUpload(k)
    <3>1. applied' = [i \in DOMAIN applied \cup {k} |-> IF i = k THEN body ELSE applied[i]]
      BY <2>1
    <3>2. DOMAIN applied \cup {k} = {i \in 0..k : IsUpload(i)}
      BY <1>1, <1>6, <2>1
    <3>3. k \notin DOMAIN applied
      BY <1>1, <1>6
    <3>4. QED
      BY <3>1, <3>2, <3>3
  <2>2. CASE ~IsUpload(k)
    <3>1. applied' = applied
      BY <2>2
    <3>2. {i \in 0..k : IsUpload(i)} = {i \in 0..(k - 1) : IsUpload(i)}
      BY <1>1, <2>2
    <3>3. QED
      BY <3>1, <3>2, <1>6, <2>2
  <2>3. QED
    BY <2>1, <2>2
<1>8. Shapes'
  <2>1. refs' \in [Indices -> Nat] /\ digest' \in [Indices -> Contents] /\ journal' \subseteq Indices
    BY <1>1, <1>2
  <2>2. startupSteps' \in 0..Steps /\ journalBytes' \in Nat /\ others' \in Nat
    BY <1>1, <1>2
  <2>3. QED
    BY <2>1, <2>2, <1>3 DEF Shapes, Flags
<1>9. Taken'
  <2>1. \A i \in journal' : i < startupSteps'
    BY <1>1, <1>2 DEF Inv, StepInv, Taken, Indices
  <2>2. \A o \in Handlers : pc'[o].at = "write" => pc'[o].index < startupSteps'
    <3> SUFFICES ASSUME NEW o \in Handlers, pc'[o].at = "write" PROVE pc'[o].index < k + 1
      BY <1>2
    <3>1. CASE o = h
      BY <3>1, <1>1, <1>3
    <3>2. CASE o # h
      BY <3>2, <1>1, <1>3, <1>4 DEF Places
    <3>3. QED
      BY <3>1, <3>2
  <2>3. QED
    BY <2>1, <2>2 DEF Taken
<1>10. Digests'
  <2> SUFFICES ASSUME NEW i \in journal', IsUpload(i) PROVE applied'[i] = digest'[i]
    BY DEF Digests
  <2>1. CASE i = k
    BY <2>1, <1>1, <1>2, <1>7
  <2>2. CASE i # k
    <3>1. i \in journal /\ i \in Indices /\ i < k /\ applied[i] = digest[i]
      BY <2>2, <1>1, <1>2 DEF Inv, StepInv, Taken, Digests
    <3>2. i \in DOMAIN applied
      BY <3>1, <1>1, <1>6 DEF Indices
    <3>3. QED
      BY <3>1, <3>2, <1>1, <1>2, <1>7, <2>2
  <2>3. QED
    BY <2>1, <2>2
<1>11. AnswerMeansApplied'
  <2>1. DOMAIN applied' = {i \in 0..(startupSteps' - 1) : IsUpload(i)}
    BY <1>1, <1>2, <1>7
  <2>2. ASSUME NEW o \in Handlers, pc'[o].at = "write", IsUpload(pc'[o].index)
        PROVE  pc'[o].index \in DOMAIN applied' /\ applied'[pc'[o].index] = pc'[o].body
    <3>1. CASE o = h
      BY <3>1, <2>2, <1>1, <1>3, <1>7
    <3>2. CASE o # h
      <4>1. pc[o].index \in DOMAIN applied /\ applied[pc[o].index] = pc[o].body /\ pc'[o] = pc[o]
        BY <3>2, <2>2, <1>3 DEF Inv, StepInv, AnswerMeansApplied
      <4>2. QED
        BY <4>1, <1>1, <1>6, <1>7
    <3>3. QED
      BY <3>1, <3>2
  <2>3. QED
    BY <2>1, <2>2 DEF AnswerMeansApplied
<1>12. RefsExact'
  <2>1. Cardinality(Writing(k)') = 1 /\ \A i : i # k => Writing(i)' = Writing(i)
    <3>1. Cardinality(Writing(k)) = 0
      BY <1>5, FS_EmptySet
    <3>2. QED
      BY <3>1, <1>3, WritingAdds
  <2>2. ASSUME NEW i \in Indices
        PROVE  refs'[i] = Cardinality(Writing(i)') + (IF i \in journal' THEN 1 ELSE 0)
    <3>1. CASE i = k
      <4>1. refs'[k] = 2 /\ k \in journal'
        BY <1>1, <1>2
      <4>2. QED
        BY <3>1, <4>1, <2>1
    <3>2. CASE i # k
      <4>1. refs'[i] = refs[i] /\ (i \in journal' <=> i \in journal) /\ Writing(i)' = Writing(i)
        BY <3>2, <2>1, <1>1, <1>2
      <4>2. refs[i] = Cardinality(Writing(i)) + (IF i \in journal THEN 1 ELSE 0)
        BY DEF Inv, RefsExact
      <4>3. QED
        BY <4>1, <4>2
    <3>3. QED
      BY <3>1, <3>2
  <2>3. QED
    BY <2>2 DEF RefsExact
<1>13. JournalExact'
  <2> DEFINE A == {i \in Indices : refs[i] > 0 /\ ~IsUpload(i)}
             B == {i \in Indices : refs'[i] > 0 /\ ~IsUpload(i)}
  <2>1. journalBytes = others + Capacity * Cardinality(A) /\ journalBytes <= JournalLimit
    BY DEF Inv, JournalExact
  <2>2. CASE IsUpload(k)
    <3>1. B = A
      BY <2>2, <1>1, <1>2, <1>5
    <3>2. QED
      BY <2>1, <2>2, <3>1 DEF JournalExact
  <2>3. CASE ~IsUpload(k)
    <3>1. B = A \cup {k} /\ k \notin A
      BY <2>3, <1>1, <1>2, <1>5
    <3>2. IsFiniteSet(A) /\ Cardinality(A) \in Nat
      <4>1. A \in SUBSET Indices
        OBVIOUS
      <4>2. IsFiniteSet(Indices)
        BY FS_Interval, SMTT(40) DEF Indices
      <4> HIDE DEF A
      <4>3. QED
        BY <4>1, <4>2, FS_Subset, FS_CardinalityType
    <3> HIDE DEF A, B
    <3>3. Cardinality(B) = Cardinality(A) + 1
      BY <3>1, <3>2, FS_AddElement
    <3>4. Capacity * Cardinality(B) = Capacity * Cardinality(A) + Capacity
      BY <3>2, <3>3
    <3>5. journalBytes' = others + Capacity * Cardinality(B) /\ journalBytes' <= JournalLimit
      BY <2>1, <2>3, <3>2, <3>4, <1>1
    <3>6. QED
      BY <3>5 DEF JournalExact, B
  <2>4. QED
    BY <2>2, <2>3
<1>14. QED
  BY <1>8, <1>9, <1>10, <1>11, <1>12, <1>13 DEF Inv, StepInv, WholeAnswers

\* A retry shares the entry that is in the journal.
LEMMA InvReplay ==
  ASSUME Inv, NEW h \in Handlers, StartupReplay(h)
  PROVE  Inv'
<1> USE StartupAssumption
<1>0. PICK k \in Indices : pc[h].index = k /\ k \in journal
  BY DEF Inv, StepInv, Shapes, StartupReplay
<1>1. /\ refs \in [Indices -> Nat] /\ pc \in [Handlers -> Places] /\ pc[h].at = "start"
      /\ refs' = [refs EXCEPT ![k] = @ + 1] /\ pc' = [pc EXCEPT ![h].at = "write"]
      /\ (IsUpload(k) => digest[k] = pc[h].body)
      /\ UNCHANGED <<locks, life, journal, digest, journalBytes, applied, others>>
  BY <1>0 DEF Inv, StepInv, Shapes, StartupReplay, Entered, Locked
<1>2. /\ pc' \in [Handlers -> Places] /\ \A o \in Handlers \ {h} : pc'[o] = pc[o]
      /\ pc'[h].at = "write" /\ pc'[h].index = k /\ pc'[h].body = pc[h].body
  BY <1>0, <1>1 DEF Places, Ats
<1>3. startupSteps' = startupSteps /\ k < startupSteps /\ startupSteps \in Nat /\ k \in Nat
  BY <1>0, <1>1 DEF Inv, StepInv, Taken, Shapes, life, steps, Indices
<1>4. Shapes'
  <2>1. refs' \in [Indices -> Nat]
    BY <1>1
  <2>2. QED
    BY <2>1, <1>1, <1>2 DEF Inv, StepInv, Shapes, life, steps
<1>5. Taken' /\ Digests'
  <2>1. Digests'
    BY <1>1 DEF Inv, StepInv, Digests
  <2>2. ASSUME NEW o \in Handlers, pc'[o].at = "write" PROVE pc'[o].index < startupSteps'
    BY <2>2, <1>2, <1>3 DEF Inv, StepInv, Taken
  <2>3. QED
    BY <2>1, <2>2, <1>1, <1>3 DEF Inv, StepInv, Taken
<1>6. AnswerMeansApplied'
  <2>1. DOMAIN applied = {i \in 0..(startupSteps - 1) : IsUpload(i)}
    BY DEF Inv, StepInv, AnswerMeansApplied
  <2>2. ASSUME NEW o \in Handlers, pc'[o].at = "write", IsUpload(pc'[o].index)
        PROVE  pc'[o].index \in DOMAIN applied /\ applied[pc'[o].index] = pc'[o].body
    <3>1. CASE o = h
      <4>1. k \in DOMAIN applied
        BY <3>1, <2>1, <2>2, <1>2, <1>3
      <4>2. applied[k] = digest[k]
        BY <3>1, <2>2, <1>0, <1>2 DEF Inv, StepInv, Digests
      <4>3. QED
        BY <3>1, <4>1, <4>2, <2>2, <1>1, <1>2
    <3>2. CASE o # h
      BY <3>2, <2>2, <1>2 DEF Inv, StepInv, AnswerMeansApplied
    <3>3. QED
      BY <3>1, <3>2
  <2>3. QED
    BY <2>1, <2>2, <1>1, <1>3 DEF AnswerMeansApplied
<1>7. RefsExact'
  <2>1. Cardinality(Writing(k)') = Cardinality(Writing(k)) + 1 /\ \A i : i # k => Writing(i)' = Writing(i)
    BY <1>1, <1>2, WritingAdds
  <2>2. ASSUME NEW i \in Indices
        PROVE  refs'[i] = Cardinality(Writing(i)') + (IF i \in journal THEN 1 ELSE 0)
    <3>1. refs[i] = Cardinality(Writing(i)) + (IF i \in journal THEN 1 ELSE 0) /\ Cardinality(Writing(i)) \in Nat
      BY WritingFinite DEF Inv, RefsExact
    <3>2. refs'[i] = IF i = k THEN refs[i] + 1 ELSE refs[i]
      BY <1>1
    <3>3. QED
      BY <3>1, <3>2, <2>1
  <2>3. QED
    BY <2>2, <1>1 DEF RefsExact
<1>8. JournalExact'
  <2>1. refs[k] >= 1
    BY <1>0, WritingFinite DEF Inv, RefsExact
  <2>2. {i \in Indices : refs'[i] > 0 /\ ~IsUpload(i)} = {i \in Indices : refs[i] > 0 /\ ~IsUpload(i)}
    BY <2>1, <1>1
  <2>3. QED
    BY <2>2, <1>1 DEF Inv, JournalExact
<1>9. QED
  BY <1>1, <1>4, <1>5, <1>6, <1>7, <1>8 DEF Inv, StepInv, WholeAnswers

\* The answer is written: its reference goes, and with the last one its bytes.
LEMMA InvWrite ==
  ASSUME Inv, NEW h \in Handlers, WriteStartup(h)
  PROVE  Inv'
<1> USE StartupAssumption
<1>1. /\ pc \in [Handlers -> Places] /\ pc[h].at = "write" /\ pc' = [pc EXCEPT ![h] = Idle]
      /\ startupSteps \in 0..Steps /\ pc[h].index < startupSteps /\ pc[h].index \in 0..Steps
      /\ UNCHANGED <<locks, life, journal, digest, applied, others>>
  BY DEF Inv, StepInv, Shapes, Taken, WriteStartup, Places
<1>2. PICK k \in Indices : pc[h].index = k
  BY <1>1 DEF Indices
<1>3. pc' \in [Handlers -> Places] /\ (\A o \in Handlers \ {h} : pc'[o] = pc[o]) /\ pc'[h].at = "idle"
  BY <1>1, IdlePlace
<1>4. Writing(k)' = Writing(k) \ {h} /\ h \in Writing(k) /\ \A i : i # k => Writing(i)' = Writing(i)
  <2>1. \A o \in Handlers \ {h} : pc'[o] = pc[o]
    BY <1>3
  <2>2. \A i : Writing(i)' = Writing(i) \ {h}
    BY <2>1, <1>3 DEF Writing
  <2>3. \A i : h \in Writing(i) <=> i = k
    BY <1>1, <1>2 DEF Writing
  <2>4. QED
    BY <2>2, <2>3
<1>5. Cardinality(Writing(k)') = Cardinality(Writing(k)) - 1 /\ Cardinality(Writing(k)) >= 1
  <2>1. IsFiniteSet(Writing(k)) /\ Cardinality(Writing(k)) \in Nat
    BY WritingFinite
  <2>2. Cardinality(Writing(k)) # 0
    BY <1>4, <2>1, FS_EmptySet
  <2>3. Cardinality(Writing(k) \ {h}) = Cardinality(Writing(k)) - 1
    BY <1>4, <2>1, FS_RemoveElement
  <2>4. QED
    BY <1>4, <2>1, <2>2, <2>3
<1>6. \A i \in Indices : refs[i] = Cardinality(Writing(i)) + (IF i \in journal THEN 1 ELSE 0)
  BY DEF Inv, RefsExact
<1>7. /\ refs' \in [Indices -> Nat] /\ journalBytes' \in Nat
      /\ \A i \in Indices : refs'[i] = IF i \in {k} THEN refs[i] - 1 ELSE refs[i]
      /\ journalBytes' = others + Capacity * Cardinality({i \in Indices : refs'[i] > 0 /\ ~IsUpload(i)})
      /\ journalBytes' <= journalBytes
  <2>1. refs[k] >= 1
    BY <1>5, <1>6, WritingFinite
  <2>2. Release({k})
    BY <1>2 DEF WriteStartup
  <2>3. {k} \in SUBSET Indices /\ \A i \in {k} : refs[i] >= 1
    BY <2>1
  <2>4. QED
    BY <2>2, <2>3, ReleaseShapes DEF Inv
<1>8. StepInv'
  <2>1. /\ UNCHANGED <<startupSteps, digest, applied, authed, realtime, startupInvalid, peerDone, journal, others>>
        /\ \A o \in Handlers : pc'[o] = pc[o] \/ pc'[o].at # "write"
    BY <1>1, <1>3 DEF life, steps
  <2>2. StepInv /\ Shapes
    BY DEF Inv, StepInv
  <2>3. QED
    BY <2>1, <2>2, <1>3, <1>7, StepFrame DEF Shapes
<1>9. RefsExact'
  <2>1. ASSUME NEW i \in Indices
        PROVE  refs'[i] = Cardinality(Writing(i)') + (IF i \in journal THEN 1 ELSE 0)
    <3>1. Cardinality(Writing(i)) \in Nat
      BY WritingFinite
    <3>2. refs[i] = Cardinality(Writing(i)) + (IF i \in journal THEN 1 ELSE 0)
      BY <1>6
    <3>3. CASE i = k
      <4>1. refs'[k] = refs[k] - 1
        BY <1>7
      <4>2. QED
        BY <3>1, <3>2, <3>3, <4>1, <1>5
    <3>4. CASE i # k
      <4>1. refs'[i] = refs[i] /\ Writing(i)' = Writing(i)
        BY <3>4, <1>4, <1>7
      <4>2. QED
        BY <3>2, <4>1
    <3>5. QED
      BY <3>3, <3>4
  <2>2. QED
    BY <2>1, <1>1 DEF RefsExact
<1>10. JournalExact'
  <2>1. journalBytes' <= JournalLimit
    BY <1>7 DEF Inv, JournalExact, StepInv, Shapes
  <2>2. QED
    BY <1>1, <1>7, <2>1 DEF JournalExact
<1>11. QED
  BY <1>1, <1>8, <1>9, <1>10 DEF Inv, WholeAnswers

LEMMA InvOthers == ASSUME Inv, OthersReserve \/ OthersRelease PROVE Inv'
<1> USE StartupAssumption
<1> DEFINE c == Cardinality({k \in Indices : refs[k] > 0 /\ ~IsUpload(k)})
<1>1. /\ others \in Nat /\ journalBytes \in Nat /\ journalBytes = others + Capacity * c
      /\ journalBytes <= JournalLimit
  BY DEF Inv, StepInv, Shapes, JournalExact
<1>2. Capacity * c \in Nat
  <2>1. {k \in Indices : refs[k] > 0 /\ ~IsUpload(k)} \in SUBSET Indices
    OBVIOUS
  <2>2. IsFiniteSet(Indices)
    BY FS_Interval DEF Indices
  <2>3. c \in Nat
    BY <2>1, <2>2, FS_Subset, FS_CardinalityType
  <2> HIDE DEF c
  <2>4. QED
    BY <2>3
<1>3. PICK n \in Nat : others = n * Capacity
  BY DEF Inv, WholeAnswers
<1>4. /\ others' \in Nat /\ journalBytes' \in Nat /\ journalBytes' = others' + Capacity * c
      /\ journalBytes' <= JournalLimit /\ \E m \in Nat : others' = m * Capacity
  <2> HIDE DEF c
  <2>1. CASE OthersReserve
    <3>1. (n + 1) * Capacity = n * Capacity + Capacity /\ n + 1 \in Nat
      OBVIOUS
    <3>2. /\ others' \in Nat /\ journalBytes' \in Nat /\ journalBytes' = others' + Capacity * c
          /\ journalBytes' <= JournalLimit
      BY <2>1, <1>1, <1>2 DEF OthersReserve
    <3>3. others' = (n + 1) * Capacity
      BY <2>1, <3>1, <1>3 DEF OthersReserve
    <3>4. QED
      BY <3>1, <3>2, <3>3
  <2>2. CASE OthersRelease
    <3>1. n # 0
      BY <2>2, <1>3 DEF OthersRelease
    <3>2. (n - 1) * Capacity = n * Capacity - Capacity /\ n - 1 \in Nat
      BY <3>1
    <3>3. (n - 1) * Capacity \in Nat
      BY <3>2
    <3>4. QED
      BY <2>2, <3>2, <3>3, <1>1, <1>2, <1>3 DEF OthersRelease
  <2>3. QED
    BY <2>1, <2>2
<1>5. UNCHANGED <<journal, digest, refs, life, pc, applied>>
  BY DEF OthersReserve, OthersRelease
<1>6. StepInv'
  BY <1>4, <1>5, StepFrame DEF Inv, StepInv, Shapes, life, steps
<1>7. RefsExact'
  BY <1>5 DEF Inv, RefsExact, Writing
<1>8. JournalExact' /\ WholeAnswers'
  BY <1>4, <1>5 DEF JournalExact, WholeAnswers
<1>9. QED
  BY <1>6, <1>7, <1>8 DEF Inv

-----------------------------------------------------------------------------
(* All steps. *)

\* One request that is not answering goes to a place where it is not either.
LEMMA OneMoves ==
  ASSUME pc \in [Handlers -> Places], NEW h \in Handlers, pc[h].at # "write",
         \/ \E x \in Places : x.at # "write" /\ pc' = [pc EXCEPT ![h] = x]
         \/ \E s \in Ats \ {"write"} : pc' = [pc EXCEPT ![h].at = s]
  PROVE  SameWriters
<1>1. CASE \E x \in Places : x.at # "write" /\ pc' = [pc EXCEPT ![h] = x]
  BY <1>1 DEF SameWriters
<1>2. CASE \E s \in Ats \ {"write"} : pc' = [pc EXCEPT ![h].at = s]
  BY <1>2 DEF SameWriters, Places
<1>3. QED
  BY <1>1, <1>2

LEMMA NobodyMoves == ASSUME pc \in [Handlers -> Places], pc' = pc PROVE SameWriters
BY DEF SameWriters

LEMMA InvArrive ==
  ASSUME Inv, NEW h \in Handlers, NEW k \in 0..Steps, NEW b \in Bodies, Arrive(h, k, b)
  PROVE  Inv'
<1>1. pc \in [Handlers -> Places] /\ Flags
  BY DEF Inv, StepInv, Shapes, Flags
<1>2. [at |-> "start", index |-> k, body |-> b] \in Places
  BY StartupAssumption DEF Places, Ats, Contents
<1>3. SameWriters
  BY <1>1, <1>2, OneMoves DEF Arrive
<1>4. UNCHANGED entries /\ SameSession /\ Flags'
  BY <1>1 DEF Arrive, SameSession, Flags, steps
<1>5. QED
  BY <1>3, <1>4, InvQuiet

LEMMA InvUpload == ASSUME Inv, NEW h \in Handlers, StartupUpload(h) PROVE Inv'
<1>1. pc \in [Handlers -> Places] /\ Flags /\ startupSteps \in 0..Steps
  BY DEF Inv, StepInv, Shapes, Flags
<1>2. pc[h].at = "start" /\ pc[h].index = startupSteps /\ pc[h].index # Steps
  BY DEF StartupUpload, NextStep, Entered, Locked
<1>3. CASE pc[h].body = "bad"
  <2>1. pc' = [pc EXCEPT ![h].at = "refused"] /\ UNCHANGED entries /\ SameSession
    BY <1>3 DEF StartupUpload, SameSession
  <2>2. Flags'
    BY <1>1, <1>3 DEF StartupUpload, Flags
  <2>3. SameWriters
    BY <1>1, <1>2, <2>1, OneMoves DEF Ats
  <2>4. QED
    BY <2>1, <2>2, <2>3, InvQuiet
<1>4. CASE pc[h].body # "bad"
  <2>1. PICK k \in Indices : k = startupSteps
    BY <1>1, <1>2, StartupAssumption DEF Indices
  <2>2. PICK b \in Contents : b = pc[h].body
    BY <1>1 DEF Places
  <2>3. /\ IsUpload(k) /\ Commit(h, k, b) /\ journalBytes' = journalBytes /\ others' = others
        /\ applied' = [i \in DOMAIN applied \cup {k} |-> IF i = k THEN b ELSE applied[i]]
    BY <1>2, <1>4, <2>1, <2>2 DEF StartupUpload
  <2>4. Flags'
    BY <1>1, <1>4 DEF StartupUpload, Flags
  <2>5. QED
    BY <1>2, <2>1, <2>3, <2>4, InvCommit
<1>5. QED
  BY <1>3, <1>4

LEMMA InvDownload == ASSUME Inv, NEW h \in Handlers, StartupDownload(h) PROVE Inv'
<1>1. pc \in [Handlers -> Places] /\ Flags /\ startupSteps \in 0..Steps /\ journalBytes \in Nat
  BY DEF Inv, StepInv, Shapes, Flags
<1>2. pc[h].at = "start" /\ pc[h].index = startupSteps /\ pc[h].index # Steps /\ ~IsUpload(pc[h].index)
  BY DEF StartupDownload, NextStep, Entered, Locked
<1>3. Flags'
  BY <1>1 DEF StartupDownload, Flags
<1>4. CASE Capacity > JournalLimit - journalBytes
  <2>1. pc' = [pc EXCEPT ![h] = Idle] /\ UNCHANGED entries /\ SameSession
    BY <1>4 DEF StartupDownload, SameSession
  <2>2. SameWriters
    BY <1>1, <1>2, <2>1, IdlePlace, OneMoves
  <2>3. QED
    BY <1>3, <2>1, <2>2, InvQuiet
<1>5. CASE ~(Capacity > JournalLimit - journalBytes)
  <2>1. PICK k \in Indices : k = startupSteps
    BY <1>1, <1>2, StartupAssumption DEF Indices
  <2>2. /\ Commit(h, k, "empty") /\ journalBytes' = journalBytes + Capacity /\ others' = others
        /\ applied' = applied
    BY <1>2, <1>5, <2>1 DEF StartupDownload
  <2>3. journalBytes' <= JournalLimit
    BY <1>1, <1>5, <2>2, StartupAssumption
  <2>4. "empty" \in Contents
    BY DEF Contents
  <2>5. QED
    BY <1>2, <1>3, <2>1, <2>2, <2>3, <2>4, InvCommit
<1>6. QED
  BY <1>4, <1>5

LEMMA InvServe == ASSUME Inv, NEW h \in Handlers, Serve(h) PROVE Inv'
<1>1. pc \in [Handlers -> Places] /\ Flags
  BY DEF Inv, StepInv, Shapes, Flags
<1> USE DEF SameSession, Flags, life, steps
<1>2. CASE StartupLate(h)
  <2>1. SameWriters
    BY <1>1, <1>2, OneMoves DEF StartupLate, Entered, Locked, Ats
  <2>2. QED
    BY <1>1, <1>2, <2>1, InvClear DEF StartupLate
<1>3. CASE CloseReturns(h)
  <2>1. SameWriters
    BY <1>1, <1>3, IdlePlace, OneMoves DEF CloseReturns
  <2>2. QED
    BY <1>1, <1>3, <2>1, InvClear DEF CloseReturns
<1>4. CASE Realtime(h)
  <2>1. SameWriters
    BY <1>1, <1>4, IdlePlace, OneMoves DEF Realtime, Upgrading, Locked
  <2>2. QED
    BY <1>1, <1>4, <2>1, InvClear DEF Realtime
<1>5. CASE StartupReject(h)
  <2>1. SameWriters
    BY <1>1, <1>5, IdlePlace, OneMoves DEF StartupReject, Entered, Locked
  <2>2. QED
    BY <1>1, <1>5, <2>1, InvQuiet DEF StartupReject
<1>6. CASE RealtimeReject(h)
  <2>1. SameWriters
    BY <1>1, <1>6, IdlePlace, OneMoves DEF RealtimeReject, Upgrading, Locked
  <2>2. QED
    BY <1>1, <1>6, <2>1, InvQuiet DEF RealtimeReject
<1> HIDE DEF SameSession, Flags, life, steps
<1>7. QED
  BY <1>2, <1>3, <1>4, <1>5, <1>6, InvReplay, InvUpload, InvDownload, InvWrite DEF Serve

LEMMA InvNext == ASSUME Inv, [Next]_vars PROVE Inv'
<1>1. SameWriters \/ pc' # pc
  BY NobodyMoves DEF Inv, StepInv, Shapes
<1>2. Flags
  BY DEF Inv, StepInv, Shapes, Flags
<1> USE DEF SameSession, Flags, life, steps
<1>3. CASE \E d \in Dials : Dial(d)
  BY <1>1, <1>2, <1>3, InvQuiet DEF Dial, DialChecks, DialEnds
<1>4. CASE RealtimeEnds
  BY <1>1, <1>2, <1>4, InvClear DEF RealtimeEnds
<1>5. CASE TimePasses
  BY <1>1, <1>2, <1>5, InvQuiet DEF TimePasses
<1>6. CASE ExpireStart \/ ExpireCheck \/ ExpireEnd
  BY <1>1, <1>2, <1>6, InvQuiet DEF ExpireStart, ExpireCheck, ExpireEnd
<1>7. CASE ExpireClose
  BY <1>1, <1>2, <1>7, InvClear DEF ExpireClose
<1>8. CASE UNCHANGED vars
  BY <1>1, <1>2, <1>8, InvQuiet DEF vars
<1> HIDE DEF SameSession, Flags, life, steps
<1>9. QED
  BY <1>3, <1>4, <1>5, <1>6, <1>7, <1>8, InvArrive, InvServe, InvOthers DEF Next, Expire

LEMMA InvInit == ASSUME Init PROVE Inv
<1> USE StartupAssumption
<1>1. \A k : Writing(k) = {}
  BY DEF Init, Writing, Idle
<1>2. RefsExact
  <2>1. \A k : Cardinality(Writing(k)) = 0
    BY <1>1, FS_EmptySet
  <2>2. QED
    BY <2>1 DEF Init, RefsExact
<1>3. JournalExact
  <2>1. {k \in Indices : refs[k] > 0 /\ ~IsUpload(k)} = {}
    BY DEF Init
  <2>2. Cardinality({k \in Indices : refs[k] > 0 /\ ~IsUpload(k)}) = 0
    BY <2>1, FS_EmptySet
  <2>3. journalBytes = 0 /\ others = 0
    BY DEF Init
  <2>4. QED
    BY <2>2, <2>3 DEF JournalExact
<1>4. WholeAnswers
  <2>1. others = 0 * Capacity
    BY DEF Init
  <2>2. QED
    BY <2>1 DEF WholeAnswers
<1>5. QED
  BY <1>2, <1>3, <1>4, StepInit DEF Inv

-----------------------------------------------------------------------------
(* The theorems. *)

\* Every reachable state of the startup satisfies the invariant.
THEOREM Invariance == Spec => []Inv
BY InvInit, InvNext, PTL DEF Spec

\* A journal entry is referred to by the journal and by the requests that
\* write it, and by nobody else (startupResult.refs in startup.go).
THEOREM RefsAreExact == Spec => []RefsExact
BY Invariance, PTL DEF Inv

\* startupJournalBytes counts the downloads alive, here and in the other
\* sessions, and stays within startupJournalLimit (startup.go).
THEOREM JournalIsExact == Spec => []JournalExact
BY Invariance, PTL DEF Inv

\* An upload that is answered was applied with this very body, and exactly
\* the uploads among the steps taken were applied (Transport.startup).
THEOREM AnswersAreApplied == Spec => []AnswerMeansApplied
BY Invariance, PTL DEF Inv, StepInv

-----------------------------------------------------------------------------
(* The end of a session. *)

\* The journal of a session that is over is empty.
OverEmpty == startupInvalid \/ realtime => journal = {}

\* A step is committed only while the session runs, and its end clears the
\* journal.
LEMMA OverStep == ASSUME OverEmpty, [Next]_vars PROVE OverEmpty'
<1> USE DEF OverEmpty
<1>1. ASSUME NEW h \in Handlers, StartupUpload(h) \/ StartupDownload(h) PROVE OverEmpty'
  <2>1. ~realtime /\ ~startupInvalid
    BY <1>1 DEF StartupUpload, StartupDownload, NextStep, Running
  <2>2. realtime' = realtime /\ startupInvalid' = startupInvalid
    BY <1>1 DEF StartupUpload, StartupDownload
  <2> QED BY <2>1, <2>2
<1>2. ASSUME NEW h \in Handlers, StartupLate(h) \/ CloseReturns(h) \/ Realtime(h) PROVE OverEmpty'
  BY <1>2 DEF StartupLate, CloseReturns, Realtime, ClearStartup
<1>3. ASSUME NEW h \in Handlers, StartupReplay(h) \/ StartupReject(h) \/ WriteStartup(h) \/ RealtimeReject(h)
      PROVE  OverEmpty'
  BY <1>3 DEF StartupReplay, StartupReject, WriteStartup, RealtimeReject, entries, life, steps
<1>4. ASSUME RealtimeEnds \/ ExpireClose PROVE OverEmpty'
  BY <1>4 DEF RealtimeEnds, ExpireClose, ClearStartup
<1>5. ASSUME \/ \E h \in Handlers, k \in 0..Steps, b \in Bodies : Arrive(h, k, b)
             \/ \E d \in Dials : Dial(d)
             \/ OthersReserve \/ OthersRelease \/ TimePasses
             \/ ExpireStart \/ ExpireCheck \/ ExpireEnd \/ UNCHANGED vars
      PROVE  OverEmpty'
  BY <1>5 DEF Arrive, Dial, DialChecks, DialEnds, OthersReserve, OthersRelease, TimePasses,
              ExpireStart, ExpireCheck, ExpireEnd, entries, life, steps, vars
<1> HIDE DEF OverEmpty
<1> QED BY <1>1, <1>2, <1>3, <1>4, <1>5 DEF Next, Serve, Expire

\* With an empty journal the entries alive are those being written.
LEMMA OnlyWriting == ASSUME Inv, OverEmpty PROVE OverLeavesNothing
<1> SUFFICES ASSUME startupInvalid \/ realtime PROVE OverLeavesNothing
  BY DEF OverLeavesNothing
<1>1. journal = {}
  BY DEF OverEmpty
<1>2. ASSUME NEW k \in Indices PROVE refs[k] > 0 <=> Writing(k) # {}
  <2>1. refs[k] = Cardinality(Writing(k)) + 0
    BY <1>1 DEF Inv, RefsExact
  <2>2. /\ Cardinality(Writing(k)) \in Nat
        /\ Cardinality(Writing(k)) = 0 <=> Writing(k) = {}
    BY WritingFinite, FS_EmptySet
  <2> QED BY <2>1, <2>2
<1>3. {k \in Indices : refs[k] > 0 /\ ~IsUpload(k)} = {k \in Indices : Writing(k) # {} /\ ~IsUpload(k)}
  BY <1>2
<1>4. journalBytes = others + Capacity * Cardinality({k \in Indices : refs[k] > 0 /\ ~IsUpload(k)})
  BY DEF Inv, JournalExact
<1> QED BY <1>1, <1>3, <1>4 DEF OverLeavesNothing

\* Once a session is invalidated or handed over, nothing of its journal counts
\* against startupJournalLimit but the answers still being written, whatever
\* requests were under way (clearStartupLocked, Transport.startup).
THEOREM OverReleasesAll == Spec => []OverLeavesNothing
<1>1. Init => OverEmpty
  BY DEF Init, OverEmpty
<1>2. OverEmpty /\ [Next]_vars => OverEmpty'
  BY OverStep
<1>3. Spec => []OverEmpty
  BY <1>1, <1>2, PTL DEF Spec
<1>4. Inv /\ OverEmpty => OverLeavesNothing
  BY OnlyWriting
<1> QED BY <1>3, <1>4, Invariance, PTL

=============================================================================
