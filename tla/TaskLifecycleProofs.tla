------------------------- MODULE TaskLifecycleProofs ------------------------
(***************************************************************************)
(* Theorems about TaskLifecycle for any number of runs, workers and        *)
(* restarts, whichever runs produce documents or are held by policy.       *)
(*                                                                         *)
(* SettledIsFinal and HeldIsOwned are not inductive by themselves: that a  *)
(* worker never overwrites a settled run rests on what the queue holds     *)
(* (QueueInv), on who may write a row between a run's end and its audit    *)
(* record (PendingInv), and on what is left when a process starts          *)
(* (DownInv, OrphanInv).                                                   *)
(***************************************************************************)
EXTENDS TaskLifecycle, SequenceTheorems, FiniteSetTheorems, WellFoundedInduction, TLAPS

(* A queued run is queued once, no worker holds it, and its row says       *)
(* whether it was cancelled while it waited.                               *)
QueueInv ==
    /\ \A i, j \in 1..Len(queue) : queue[i] = queue[j] => i = j
    /\ \A i \in 1..Len(queue) :
          /\ \A w \in Workers : holds[w] # queue[i]
          /\ row[queue[i]] = IF queue[i] \in cancelled THEN "cancelled" ELSE "classified"

HeldInv ==
    \A w \in Workers : holds[w] # NoRun =>
        /\ \A v \in Workers \ {w} : holds[v] # holds[w]
        /\ row[holds[w]] = "executing" \/ pending = holds[w]

PendingInv == pending # NoRun => row[pending] \notin Active \cup {"absent"}

OrphanInv ==
    /\ orphans # {} => process = "recovering"
    /\ \A t \in orphans : row[t] \in Active

DownInv ==
    process # "up" =>
        /\ queue = <<>>
        /\ cancelled = {}
        /\ \A w \in Workers : holds[w] = NoRun

IInv == /\ TypeOK /\ QueueInv /\ HeldInv /\ PendingInv
        /\ OrphanInv /\ DownInv /\ StopIsForThisRun

-----------------------------------------------------------------------------
(* Sequences: what removing the first occurrence of an element leaves.     *)

LEMMA MinInSet ==
    ASSUME NEW I \in SUBSET Nat, I # {}
    PROVE  Min(I) \in I
<1>1. \E x \in I : \A y \in I : ~ (<<y, x>> \in OpToRel(<, Nat))
  BY NatLessThanWellFounded, WFMin
<1>2. \A x, y \in Nat : <<y, x>> \in OpToRel(<, Nat) <=> y < x
  BY DEF OpToRel
<1>3. \E x \in I : \A y \in I : x <= y
  <2>1. PICK x \in I : \A y \in I : ~ (<<y, x>> \in OpToRel(<, Nat))
    BY <1>1
  <2>2. ASSUME NEW y \in I  PROVE x <= y
    <3>1. ~ (y < x)
      BY <1>2, <2>1
    <3> QED  BY <3>1
  <2> QED  BY <2>2
<1> QED  BY <1>3 DEF Min

LEMMA RemoveAtFacts ==
    ASSUME NEW S, NEW s \in Seq(S), NEW i \in 1..Len(s)
    PROVE  /\ RemoveAt(s, i) \in Seq(S)
           /\ Len(RemoveAt(s, i)) = Len(s) - 1
           /\ \A j \in 1..(Len(s) - 1) :
                 RemoveAt(s, i)[j] = IF j < i THEN s[j] ELSE s[j + 1]
<1> DEFINE a == SubSeq(s, 1, i - 1)
           b == SubSeq(s, i + 1, Len(s))
<1>1. /\ a \in Seq(S) /\ Len(a) = i - 1
      /\ \A j \in 1..(i - 1) : a[j] = s[j]
  BY SubSeqProperties
<1>2. /\ b \in Seq(S) /\ Len(b) = Len(s) - i
      /\ \A j \in 1..(Len(s) - i) : b[j] = s[i + j]
  BY SubSeqProperties
<1>3. /\ a \o b \in Seq(S)
      /\ Len(a \o b) = Len(s) - 1
      /\ \A j \in 1..(Len(s) - 1) : (a \o b)[j] = IF j < i THEN a[j] ELSE b[j - (i - 1)]
  <2> HIDE DEF a, b
  <2>1. /\ a \o b \in Seq(S)
        /\ Len(a \o b) = Len(a) + Len(b)
        /\ \A j \in 1..(Len(a) + Len(b)) :
              (a \o b)[j] = IF j <= Len(a) THEN a[j] ELSE b[j - Len(a)]
    BY <1>1, <1>2, ConcatProperties
  <2>2. Len(a) + Len(b) = Len(s) - 1 /\ Len(s) \in Nat
    BY <1>1, <1>2
  <2> QED  BY <1>1, <2>1, <2>2
<1>4. ASSUME NEW j \in 1..(Len(s) - 1)
      PROVE  (a \o b)[j] = IF j < i THEN s[j] ELSE s[j + 1]
  <2> HIDE DEF a, b
  <2> QED  BY <1>1, <1>2, <1>3
<1> QED  BY <1>3, <1>4 DEF RemoveAt

LEMMA RemoveFirstFacts ==
    ASSUME NEW S, NEW s \in Seq(S), NEW e
    PROVE  /\ RemoveFirst(s, e) \in Seq(S)
           /\ \A x : x # e /\ Contains(s, x) => Contains(RemoveFirst(s, e), x)
<1>1. CASE ~ Contains(s, e)
  BY <1>1 DEF RemoveFirst, Contains
<1>2. CASE Contains(s, e)
  <2> DEFINE I == {i \in 1..Len(s) : s[i] = e}
  <2>1. I \in SUBSET Nat /\ I # {}
    BY <1>2 DEF Contains
  <2>2. Min(I) \in I
    BY <2>1, MinInSet
  <2>3. SelectInSeq(s, LAMBDA v : v = e) = Min(I)
    BY <2>1 DEF SelectInSeq
  <2>4. PICK i \in 1..Len(s) : s[i] = e /\ RemoveFirst(s, e) = RemoveAt(s, i)
    BY <1>2, <2>2, <2>3 DEF RemoveFirst, Contains
  <2>5. RemoveFirst(s, e) \in Seq(S)
    BY <2>4, RemoveAtFacts
  <2>6. ASSUME NEW x, x # e, NEW k \in 1..Len(s), s[k] = x
        PROVE  \E j \in 1..Len(RemoveFirst(s, e)) : RemoveFirst(s, e)[j] = x
    <3>1. k # i
      BY <2>4, <2>6
    <3>2. CASE k < i
      <4>1. k \in 1..(Len(s) - 1)
        BY <3>2
      <4>2. RemoveFirst(s, e)[k] = x /\ Len(RemoveFirst(s, e)) = Len(s) - 1
        BY <2>4, <2>6, <3>2, <4>1, RemoveAtFacts
      <4> QED  BY <4>1, <4>2
    <3>3. CASE i < k
      <4>1. k - 1 \in 1..(Len(s) - 1) /\ ~ (k - 1 < i) /\ (k - 1) + 1 = k
        BY <3>3
      <4> QED  BY <2>4, <2>6, <4>1, RemoveAtFacts, ZenonT(30)
    <3> QED  BY <3>1, <3>2, <3>3
  <2> QED  BY <2>5, <2>6 DEF Contains
<1> QED  BY <1>1, <1>2

(* From a sequence without repetitions all of an element goes, and what is *)
(* left keeps its order.                                                   *)
LEMMA RemoveFirstKeepsOrder ==
    ASSUME NEW S, NEW s \in Seq(S), NEW e,
           \A i, j \in 1..Len(s) : s[i] = s[j] => i = j
    PROVE  /\ \A x : Contains(RemoveFirst(s, e), x) <=> Contains(s, x) /\ x # e
           /\ \A i, j \in DOMAIN RemoveFirst(s, e) :
                 i < j => Before(s, RemoveFirst(s, e)[i], RemoveFirst(s, e)[j])
<1> DEFINE r == RemoveFirst(s, e)
<1>1. CASE ~ Contains(s, e)
  <2>1. r = s
    BY <1>1 DEF RemoveFirst, Contains
  <2>2. DOMAIN s = 1..Len(s)
    BY LenProperties
  <2> QED  BY <1>1, <2>1, <2>2 DEF Before
<1>2. CASE Contains(s, e)
  <2> DEFINE I == {i \in 1..Len(s) : s[i] = e}
  <2>1. I \in SUBSET Nat /\ I # {}
    BY <1>2 DEF Contains
  <2>2. Min(I) \in I
    BY <2>1, MinInSet
  <2>3. SelectInSeq(s, LAMBDA v : v = e) = Min(I)
    BY <2>1 DEF SelectInSeq
  <2>4. PICK i \in 1..Len(s) : s[i] = e /\ r = RemoveAt(s, i)
    BY <1>2, <2>2, <2>3 DEF RemoveFirst, Contains
  <2> HIDE DEF r
  <2>5. /\ r \in Seq(S) /\ Len(r) = Len(s) - 1 /\ Len(s) \in Nat
        /\ \A j \in 1..(Len(s) - 1) : r[j] = IF j < i THEN s[j] ELSE s[j + 1]
    <3>1. Len(s) \in Nat
      BY LenProperties
    <3> QED  BY <2>4, <3>1, RemoveAtFacts
  <2>6. DOMAIN r = 1..(Len(s) - 1) /\ DOMAIN s = 1..Len(s)
    BY <2>5, LenProperties
  <2>7. ASSUME NEW j \in 1..(Len(s) - 1)
        PROVE  \E k \in 1..Len(s) : r[j] = s[k] /\ k # i /\ k = (IF j < i THEN j ELSE j + 1)
    BY <2>5
  <2>8. ASSUME NEW x PROVE Contains(r, x) <=> Contains(s, x) /\ x # e
    <3>1. ASSUME Contains(r, x) PROVE Contains(s, x) /\ x # e
      <4>1. PICK j \in 1..(Len(s) - 1) : r[j] = x
        BY <2>5, <3>1 DEF Contains
      <4>2. PICK k \in 1..Len(s) : r[j] = s[k] /\ k # i
        BY <2>7
      <4> QED  BY <2>4, <4>1, <4>2 DEF Contains
    <3>2. ASSUME Contains(s, x), x # e PROVE Contains(r, x)
      BY <3>2, RemoveFirstFacts DEF r
    <3> QED  BY <3>1, <3>2
  <2>9. ASSUME NEW j \in 1..(Len(s) - 1), NEW m \in 1..(Len(s) - 1), j < m
        PROVE  Before(s, r[j], r[m])
    <3>1. PICK k \in 1..Len(s) : r[j] = s[k] /\ k = (IF j < i THEN j ELSE j + 1)
      BY <2>7
    <3>2. PICK l \in 1..Len(s) : r[m] = s[l] /\ l = (IF m < i THEN m ELSE m + 1)
      BY <2>7
    <3>3. k < l
      BY <2>9, <3>1, <3>2
    <3> QED  BY <2>6, <3>1, <3>2, <3>3 DEF Before
  <2> QED  BY <2>6, <2>8, <2>9 DEF r
<1> QED  BY <1>1, <1>2

-----------------------------------------------------------------------------
(* Types. *)

LEMMA TypeInit == Init => TypeOK
BY LifecycleAssumption, EmptySeq DEF Init, TypeOK, Status

(* The line without a run is again a line. *)
LEMMA LineType ==
    ASSUME TypeOK, NEW t
    PROVE  RemoveFirst(waiting, t) \in Seq(Runs)
BY RemoveFirstFacts DEF TypeOK

LEMMA TypeStep == TypeOK /\ [Next]_vars => TypeOK'
<1> SUFFICES ASSUME TypeOK, [Next]_vars  PROVE TypeOK'
  OBVIOUS
<1> USE LifecycleAssumption DEF TypeOK, Status, Active, Settled
<1>1. ASSUME NEW t \in Runs, Create(t)  PROVE TypeOK'
  BY <1>1, AppendProperties DEF Create
<1>2. ASSUME NEW t \in Runs, CreateFails(t)  PROVE TypeOK'
  BY <1>2 DEF CreateFails, memory
<1>3. ASSUME NEW t \in Runs, Cancel(t)  PROVE TypeOK'
  BY <1>3, LineType DEF Cancel, CancelUnless
<1>4. ASSUME NEW t \in Runs, Decide(t)  PROVE TypeOK'
  BY <1>4 DEF Decide, DecideReleasing, memory
<1>5. ASSUME NEW t \in Runs, Recover(t)  PROVE TypeOK'
  BY <1>5 DEF Recover, memory
<1>6. ASSUME NEW w \in Workers, Take(w)  PROVE TypeOK'
  <2>1. Head(queue) \in Runs /\ Tail(queue) \in Seq(Runs)
    BY <1>6, HeadTailProperties DEF Take, TakeUnless
  <2> QED  BY <1>6, <2>1, LineType, ZenonT(30) DEF Take, TakeUnless
<1>7. ASSUME NEW w \in Workers, Ends(w)  PROVE TypeOK'
  BY <1>7 DEF Ends, NoticeStop, ReleaseUnheld, HoldForReview, FailRun, Finish, memory
<1>8. ASSUME NEW w \in Workers, Abandon(w)  PROVE TypeOK'
  BY <1>8 DEF Abandon
<1>9. CASE Audit
  BY <1>9 DEF Audit, EndHandler, Conclude
<1>10. CASE AuditFails
  BY <1>10 DEF AuditFails, EndHandler, Conclude
<1>11. CASE End
  BY <1>11, EmptySeq DEF End
<1>12. CASE Boot
  BY <1>12 DEF Boot, BootClosing, memory
<1>13. CASE Start
  BY <1>13 DEF Start, memory
<1>14. CASE UNCHANGED vars
  BY <1>14 DEF vars
<1> QED
  BY <1>1, <1>2, <1>3, <1>4, <1>5, <1>6, <1>7, <1>8, <1>9, <1>10, <1>11, <1>12, <1>13, <1>14
     DEF Next, Rerun

(* Every variable keeps its type. *)
THEOREM TypeCorrect == Spec => []TypeOK
BY TypeInit, TypeStep, PTL DEF Spec

-----------------------------------------------------------------------------
(* The inductive invariant. *)

LEMMA InvInit == Init => IInv
<1> SUFFICES ASSUME Init  PROVE IInv
  OBVIOUS
<1>1. TypeOK
  BY TypeInit
<1>2. QueueInv /\ HeldInv /\ PendingInv /\ OrphanInv /\ DownInv /\ StopIsForThisRun
  BY LifecycleAssumption
     DEF Init, QueueInv, HeldInv, PendingInv, OrphanInv, DownInv, StopIsForThisRun
<1> QED  BY <1>1, <1>2 DEF IInv

(* Inserting a row for a run that had none, queued (Create) or not. *)
LEMMA CreateStep ==
    ASSUME IInv, NEW t \in Runs, Create(t)
    PROVE  QueueInv' /\ HeldInv' /\ PendingInv' /\ OrphanInv' /\ DownInv' /\ StopIsForThisRun'
<1> USE DEF IInv, TypeOK, Create, LoopFree, Fresh
<1>1. row[t] = "absent" /\ t \notin cancelled /\ \A w \in Workers : holds[w] # t
  BY LifecycleAssumption DEF HeldInv, StopIsForThisRun, Executing
<1>2. \A i \in 1..Len(queue) : queue[i] # t
  BY <1>1 DEF QueueInv
<1>3. /\ Len(queue') = Len(queue) + 1
      /\ \A i \in 1..Len(queue') : queue'[i] = IF i <= Len(queue) THEN queue[i] ELSE t
  BY AppendProperties
<1>4. QueueInv'
  BY <1>1, <1>2, <1>3 DEF QueueInv
<1>5. HeldInv' /\ PendingInv' /\ OrphanInv' /\ DownInv'
  BY <1>1, LifecycleAssumption DEF HeldInv, PendingInv, OrphanInv, DownInv, Active
<1>6. StopIsForThisRun'
  BY <1>1 DEF StopIsForThisRun, Executing
<1> QED  BY <1>4, <1>5, <1>6

LEMMA CreateFailsStep ==
    ASSUME IInv, NEW t \in Runs, CreateFails(t)
    PROVE  QueueInv' /\ HeldInv' /\ PendingInv' /\ OrphanInv' /\ DownInv' /\ StopIsForThisRun'
<1> USE DEF IInv, TypeOK, CreateFails, LoopFree, Fresh, memory
<1>1. row[t] = "absent" /\ t \notin cancelled /\ \A w \in Workers : holds[w] # t
  BY LifecycleAssumption DEF HeldInv, StopIsForThisRun, Executing
<1>2. QueueInv'
  BY <1>1 DEF QueueInv
<1>3. HeldInv' /\ PendingInv' /\ OrphanInv' /\ DownInv'
  BY <1>1, LifecycleAssumption DEF HeldInv, PendingInv, OrphanInv, DownInv, Active
<1>4. StopIsForThisRun'
  BY <1>1 DEF StopIsForThisRun, Executing
<1> QED  BY <1>2, <1>3, <1>4

(* A run no worker holds is closed out; a held one keeps its row. *)
LEMMA CancelStep ==
    ASSUME IInv, NEW t \in Runs, Cancel(t)
    PROVE  QueueInv' /\ HeldInv' /\ PendingInv' /\ OrphanInv' /\ DownInv' /\ StopIsForThisRun'
<1> USE DEF IInv, TypeOK, Cancel, CancelUnless, LoopFree
<1>1. CASE t \in Executing
  <2>1. \A i \in 1..Len(queue) : queue[i] # t
    BY <1>1 DEF QueueInv, Executing
  <2>2. QueueInv'
    BY <1>1, <2>1 DEF QueueInv
  <2>3. HeldInv' /\ PendingInv' /\ OrphanInv' /\ DownInv'
    BY <1>1 DEF HeldInv, PendingInv, OrphanInv, DownInv
  <2>4. StopIsForThisRun'
    BY <1>1 DEF StopIsForThisRun, Executing
  <2> QED  BY <2>2, <2>3, <2>4
<1>2. CASE t \notin Executing
  <2>1. \A w \in Workers : holds[w] # t
    BY <1>2, LifecycleAssumption DEF Executing
  <2>2. QueueInv'
    BY <1>2, <2>1 DEF QueueInv
  <2>3. HeldInv' /\ PendingInv' /\ OrphanInv' /\ DownInv'
    BY <1>2, <2>1, LifecycleAssumption DEF HeldInv, PendingInv, OrphanInv, DownInv, Active
  <2>4. StopIsForThisRun'
    BY <1>2 DEF StopIsForThisRun, Executing
  <2> QED  BY <2>2, <2>3, <2>4
<1> QED  BY <1>1, <1>2

LEMMA DecideStep ==
    ASSUME IInv, NEW t \in Runs, Decide(t)
    PROVE  QueueInv' /\ HeldInv' /\ PendingInv' /\ OrphanInv' /\ DownInv' /\ StopIsForThisRun'
<1> USE DEF IInv, TypeOK, Decide, DecideReleasing, LoopFree, memory
<1>1. PICK s \in {"delivered", "rejected", "revision_requested"} : row' = [row EXCEPT ![t] = s]
  OBVIOUS
<1>2. \A w \in Workers : holds[w] # t
  BY LifecycleAssumption DEF HeldInv
<1>3. \A i \in 1..Len(queue) : queue[i] # t
  BY DEF QueueInv
<1>4. QueueInv'
  BY <1>1, <1>3 DEF QueueInv
<1>5. HeldInv' /\ PendingInv' /\ OrphanInv' /\ DownInv'
  BY <1>1, <1>2, LifecycleAssumption DEF HeldInv, PendingInv, OrphanInv, DownInv, Active
<1>6. StopIsForThisRun'
  BY <1>1, <1>2 DEF StopIsForThisRun, Executing
<1> QED  BY <1>4, <1>5, <1>6

LEMMA RecoverStep ==
    ASSUME IInv, NEW t \in Runs, Recover(t)
    PROVE  QueueInv' /\ HeldInv' /\ PendingInv' /\ OrphanInv' /\ DownInv' /\ StopIsForThisRun'
<1> USE DEF IInv, TypeOK, Recover, memory
<1>1. QueueInv'
  BY DEF QueueInv, DownInv
<1>2. HeldInv' /\ PendingInv' /\ OrphanInv' /\ DownInv'
  BY LifecycleAssumption DEF HeldInv, PendingInv, OrphanInv, DownInv, Active
<1>3. StopIsForThisRun'
  BY DEF StopIsForThisRun, DownInv
<1> QED  BY <1>1, <1>2, <1>3

LEMMA TakeStep ==
    ASSUME IInv, NEW w \in Workers, Take(w)
    PROVE  QueueInv' /\ HeldInv' /\ PendingInv' /\ OrphanInv' /\ DownInv' /\ StopIsForThisRun'
<1> USE DEF IInv, TypeOK, Take, TakeUnless, LoopFree
<1> DEFINE t == Head(queue)
<1>1. /\ t \in Runs /\ t = queue[1] /\ 1 \in 1..Len(queue)
      /\ queue' \in Seq(Runs) /\ Len(queue') = Len(queue) - 1
      /\ \A i \in 1..Len(queue') : i + 1 \in 1..Len(queue) /\ queue'[i] = queue[i + 1]
  BY HeadTailProperties, EmptySeq, LenProperties
<1>2. /\ \A v \in Workers : holds[v] # t
      /\ row[t] = IF t \in cancelled THEN "cancelled" ELSE "classified"
  BY <1>1 DEF QueueInv
<1>3. \A i \in 1..Len(queue') : queue'[i] # t
  <2> SUFFICES ASSUME NEW i \in 1..Len(queue')  PROVE queue'[i] # t
    OBVIOUS
  <2>1. i + 1 # 1
    OBVIOUS
  <2> QED  BY <1>1, <2>1 DEF QueueInv
<1>4. \A i, j \in 1..Len(queue') : queue'[i] = queue'[j] => i = j
  <2> SUFFICES ASSUME NEW i \in 1..Len(queue'), NEW j \in 1..Len(queue'), queue'[i] = queue'[j]
               PROVE  i = j
    OBVIOUS
  <2>1. i + 1 = j + 1
    BY <1>1 DEF QueueInv
  <2> QED  BY <2>1
<1> HIDE DEF t
<1>5. CASE t \in cancelled
  <2>1. /\ cancelled' = cancelled \ {t} /\ row' = row /\ holds' = holds
        /\ UNCHANGED <<process, orphans, pending>>
    BY <1>5 DEF t
  <2>2. QueueInv'
    BY <1>1, <1>3, <1>4, <2>1 DEF QueueInv
  <2>3. HeldInv' /\ PendingInv' /\ OrphanInv' /\ DownInv'
    BY <2>1 DEF HeldInv, PendingInv, OrphanInv, DownInv
  <2>4. StopIsForThisRun'
    BY <2>1 DEF StopIsForThisRun, Executing
  <2> QED  BY <2>2, <2>3, <2>4
<1>6. CASE t \notin cancelled
  <2>1. /\ holds' = [holds EXCEPT ![w] = t] /\ row' = [row EXCEPT ![t] = "executing"]
        /\ cancelled' = cancelled
        /\ UNCHANGED <<process, orphans, pending>>
    BY <1>6 DEF t
  <2>2. QueueInv'
    BY <1>1, <1>3, <1>4, <2>1 DEF QueueInv
  <2>3. HeldInv' /\ PendingInv' /\ OrphanInv' /\ DownInv'
    BY <1>1, <1>2, <2>1, LifecycleAssumption DEF HeldInv, PendingInv, OrphanInv, DownInv, Active
  <2>4. StopIsForThisRun'
    BY <1>6, <2>1, <1>1 DEF StopIsForThisRun, Executing
  <2> QED  BY <2>2, <2>3, <2>4
<1> QED  BY <1>5, <1>6

(* The four ways a worker ends its run: its row is written, and no other. *)
LEMMA FinishStep ==
    ASSUME IInv, NEW w \in Workers, NEW s \in {"delivered", "awaiting_approval", "failed", "blocked", "cancelled"},
           Finish(w, s)
    PROVE  QueueInv' /\ HeldInv' /\ PendingInv' /\ OrphanInv' /\ DownInv' /\ StopIsForThisRun'
<1> USE DEF IInv, TypeOK, Finish, LoopFree, memory
<1>1. holds[w] \in Runs /\ \A i \in 1..Len(queue) : queue[i] # holds[w]
  BY DEF QueueInv
<1>2. QueueInv'
  BY <1>1 DEF QueueInv
<1>3. HeldInv' /\ PendingInv' /\ OrphanInv' /\ DownInv'
  BY <1>1, LifecycleAssumption DEF HeldInv, PendingInv, OrphanInv, DownInv, Active
<1>4. StopIsForThisRun'
  BY <1>1 DEF StopIsForThisRun, Executing
<1> QED  BY <1>2, <1>3, <1>4

LEMMA EndsIsFinish ==
    ASSUME NEW w \in Workers, Ends(w)
    PROVE  \E s \in {"delivered", "awaiting_approval", "failed", "blocked", "cancelled"} : Finish(w, s)
BY DEF Ends, NoticeStop, ReleaseUnheld, HoldForReview, FailRun

LEMMA AbandonStep ==
    ASSUME IInv, NEW w \in Workers, Abandon(w)
    PROVE  QueueInv' /\ HeldInv' /\ PendingInv' /\ OrphanInv' /\ DownInv' /\ StopIsForThisRun'
<1> USE DEF IInv, TypeOK, Abandon, LoopFree
<1>1. holds[w] \in Runs /\ \A i \in 1..Len(queue) : queue[i] # holds[w] /\ queue[i] # NoRun
  BY LifecycleAssumption DEF QueueInv
<1>2. QueueInv'
  BY <1>1 DEF QueueInv
<1>3. HeldInv' /\ PendingInv' /\ OrphanInv' /\ DownInv'
  BY <1>1, LifecycleAssumption DEF HeldInv, PendingInv, OrphanInv, DownInv
<1>4. StopIsForThisRun'
  BY <1>1 DEF StopIsForThisRun, Executing
<1> QED  BY <1>2, <1>3, <1>4

LEMMA EndHandlerStep ==
    ASSUME IInv, pending # NoRun, EndHandler
    PROVE  QueueInv' /\ HeldInv' /\ PendingInv' /\ OrphanInv' /\ DownInv' /\ StopIsForThisRun'
<1> USE DEF IInv, TypeOK, EndHandler, Conclude
<1>1. \A v \in Workers : holds'[v] = IF holds[v] = pending THEN NoRun ELSE holds[v]
  OBVIOUS
<1>2. cancelled' \subseteq cancelled /\ \A t \in cancelled \ cancelled' : t \in Executing
  OBVIOUS
<1>3. QueueInv'
  <2>1. \A i \in 1..Len(queue) : queue[i] \notin Executing /\ queue[i] # NoRun
    BY LifecycleAssumption DEF QueueInv, Executing
  <2> QED  BY <1>1, <1>2, <2>1 DEF QueueInv
<1>4. HeldInv'
  BY <1>1 DEF HeldInv
<1>5. PendingInv' /\ OrphanInv' /\ DownInv'
  BY <1>1, <1>2 DEF PendingInv, OrphanInv, DownInv
<1>6. StopIsForThisRun'
  <2> SUFFICES ASSUME NEW t \in cancelled', row[t] # "cancelled"  PROVE t \in Executing'
    BY DEF StopIsForThisRun
  <2>1. PICK v \in Workers : holds[v] = t /\ t # NoRun
    BY <1>2 DEF StopIsForThisRun, Executing
  <2>2. t # pending
    BY <2>1 DEF Executing
  <2> QED  BY <1>1, <2>1, <2>2 DEF Executing
<1> QED  BY <1>3, <1>4, <1>5, <1>6

LEMMA EndStep ==
    ASSUME IInv, End
    PROVE  QueueInv' /\ HeldInv' /\ PendingInv' /\ OrphanInv' /\ DownInv' /\ StopIsForThisRun'
BY EmptySeq, LifecycleAssumption
   DEF IInv, TypeOK, End, QueueInv, HeldInv, PendingInv, OrphanInv, DownInv, StopIsForThisRun

LEMMA BootStep ==
    ASSUME IInv, Boot \/ Start
    PROVE  QueueInv' /\ HeldInv' /\ PendingInv' /\ OrphanInv' /\ DownInv' /\ StopIsForThisRun'
<1>1. UNCHANGED <<row, queue, holds, cancelled, pending>>
  BY DEF Boot, BootClosing, Start, memory
<1>2. QueueInv' /\ HeldInv' /\ PendingInv' /\ StopIsForThisRun'
  BY <1>1 DEF IInv, QueueInv, HeldInv, PendingInv, StopIsForThisRun, Executing
<1>3. CASE Boot
  <2>1. orphans' \subseteq {t \in Runs : row[t] \in Active}
    BY <1>3 DEF Boot, BootClosing
  <2>2. process = "down" /\ process' = "recovering"
    BY <1>3 DEF Boot, BootClosing
  <2> QED  BY <1>1, <1>2, <2>1, <2>2 DEF IInv, OrphanInv, DownInv
<1>4. CASE Start
  BY <1>1, <1>2, <1>4 DEF Start, OrphanInv, DownInv
<1> QED  BY <1>3, <1>4

LEMMA InvStep == IInv /\ [Next]_vars => IInv'
<1> SUFFICES ASSUME IInv, [Next]_vars
             PROVE  QueueInv' /\ HeldInv' /\ PendingInv' /\ OrphanInv' /\ DownInv' /\ StopIsForThisRun'
  BY TypeStep DEF IInv
<1>1. ASSUME NEW t \in Runs, Create(t) \/ CreateFails(t) \/ Cancel(t) \/ Decide(t) \/ Recover(t)
      PROVE  QueueInv' /\ HeldInv' /\ PendingInv' /\ OrphanInv' /\ DownInv' /\ StopIsForThisRun'
  BY <1>1, CreateStep, CreateFailsStep, CancelStep, DecideStep, RecoverStep
<1>2. ASSUME NEW w \in Workers, Take(w) \/ Ends(w) \/ Abandon(w)
      PROVE  QueueInv' /\ HeldInv' /\ PendingInv' /\ OrphanInv' /\ DownInv' /\ StopIsForThisRun'
  BY <1>2, TakeStep, EndsIsFinish, FinishStep, AbandonStep
<1>3. CASE Audit \/ AuditFails
  BY <1>3, EndHandlerStep DEF Audit, AuditFails
<1>4. CASE End \/ Boot \/ Start
  BY <1>4, EndStep, BootStep
<1>5. CASE UNCHANGED vars
  BY <1>5 DEF IInv, vars, QueueInv, HeldInv, PendingInv, OrphanInv, DownInv, StopIsForThisRun, Executing
<1> QED  BY <1>1, <1>2, <1>3, <1>4, <1>5 DEF Next, Rerun

LEMMA Inductive == Spec => []IInv
BY InvInit, InvStep, PTL DEF Spec

-----------------------------------------------------------------------------
(* The line.  A run is queued once, so it is in the line once, and taking  *)
(* its first occurrence out takes it out.                                  *)

LEMMA LineOnce ==
    ASSUME IInv, LineIsQueue
    PROVE  /\ waiting \in Seq(Runs) /\ DOMAIN waiting = 1..Len(waiting)
           /\ queue \in Seq(Runs) /\ DOMAIN queue = 1..Len(queue)
           /\ \A i, j \in 1..Len(waiting) : waiting[i] = waiting[j] => i = j
<1>1. /\ waiting \in Seq(Runs) /\ DOMAIN waiting = 1..Len(waiting) /\ Len(waiting) \in Nat
      /\ queue \in Seq(Runs) /\ DOMAIN queue = 1..Len(queue) /\ Len(queue) \in Nat
  BY LenProperties DEF IInv, TypeOK
<1>2. ASSUME NEW i \in 1..Len(waiting), NEW j \in 1..Len(waiting), i < j, waiting[i] = waiting[j]
      PROVE  FALSE
  <2>1. Before(queue, waiting[i], waiting[j])
    BY <1>1, <1>2 DEF LineIsQueue
  <2>2. PICK k \in 1..Len(queue), l \in 1..Len(queue) : k < l /\ queue[k] = queue[l]
    BY <1>1, <1>2, <2>1 DEF Before
  <2> QED  BY <1>1, <2>2 DEF IInv, QueueInv
<1>3. ASSUME NEW i \in 1..Len(waiting), NEW j \in 1..Len(waiting), waiting[i] = waiting[j]
      PROVE  i = j
  <2>1. i < j \/ j < i \/ i = j
    BY <1>1
  <2> QED  BY <1>2, <1>3, <2>1
<1> QED  BY <1>1, <1>3

LEMMA LineCreate ==
    ASSUME IInv, LineIsQueue, NEW t \in Runs, Create(t)
    PROVE  LineIsQueue'
<1>0. /\ waiting \in Seq(Runs) /\ DOMAIN waiting = 1..Len(waiting) /\ Len(waiting) \in Nat
      /\ queue \in Seq(Runs) /\ DOMAIN queue = 1..Len(queue) /\ Len(queue) \in Nat
  BY LineOnce, LenProperties
<1>1. /\ Len(waiting') = Len(waiting) + 1 /\ DOMAIN waiting' = 1..(Len(waiting) + 1)
      /\ \A i \in 1..(Len(waiting) + 1) : waiting'[i] = IF i <= Len(waiting) THEN waiting[i] ELSE t
  BY <1>0, AppendProperties, LenProperties DEF Create
<1>2. /\ Len(queue') = Len(queue) + 1 /\ DOMAIN queue' = 1..(Len(queue) + 1)
      /\ \A i \in 1..(Len(queue) + 1) : queue'[i] = IF i <= Len(queue) THEN queue[i] ELSE t
  BY <1>0, AppendProperties, LenProperties DEF Create
<1>3. t \notin cancelled /\ cancelled' = cancelled
  BY LifecycleAssumption DEF IInv, TypeOK, Create, Fresh, LoopFree, HeldInv, StopIsForThisRun, Executing
<1>4. \A x : Contains(waiting', x) <=> Contains(waiting, x) \/ x = t
  BY <1>0, <1>1 DEF Contains
<1>5. \A x : Contains(queue', x) <=> Contains(queue, x) \/ x = t
  BY <1>0, <1>2 DEF Contains
<1>6. ASSUME NEW x \in Runs PROVE Contains(waiting', x) <=> Contains(queue', x) /\ x \notin cancelled'
  BY <1>3, <1>4, <1>5 DEF LineIsQueue
<1>7. ASSUME NEW i \in DOMAIN waiting', NEW j \in DOMAIN waiting', i < j
      PROVE  Before(queue', waiting'[i], waiting'[j])
  <2>1. i \in 1..Len(waiting) /\ waiting'[i] = waiting[i]
    BY <1>0, <1>1, <1>7
  <2>2. CASE j \in 1..Len(waiting)
    <3>1. waiting'[j] = waiting[j]
      BY <1>0, <1>1, <2>2
    <3>2. PICK k \in 1..Len(queue), l \in 1..Len(queue) :
             k < l /\ queue[k] = waiting[i] /\ queue[l] = waiting[j]
      BY <1>0, <1>7, <2>1, <2>2 DEF LineIsQueue, Before
    <3>3. /\ k \in 1..(Len(queue) + 1) /\ l \in 1..(Len(queue) + 1)
          /\ queue'[k] = queue[k] /\ queue'[l] = queue[l]
      BY <1>0, <1>2
    <3> QED  BY <1>2, <2>1, <3>1, <3>2, <3>3 DEF Before
  <2>3. CASE j = Len(waiting) + 1
    <3>1. waiting'[j] = t
      BY <1>0, <1>1, <2>3
    <3>2. waiting[i] \in Runs /\ Contains(waiting, waiting[i])
      BY <1>0, <2>1 DEF Contains
    <3>3. PICK k \in 1..Len(queue) : queue[k] = waiting[i]
      BY <3>2 DEF LineIsQueue, Contains
    <3>4. /\ k \in 1..(Len(queue) + 1) /\ queue'[k] = queue[k] /\ k < Len(queue) + 1
          /\ Len(queue) + 1 \in 1..(Len(queue) + 1) /\ queue'[Len(queue) + 1] = t
      BY <1>0, <1>2
    <3> QED  BY <1>2, <2>1, <3>1, <3>3, <3>4 DEF Before
  <2> QED  BY <1>0, <1>1, <2>2, <2>3
<1> QED  BY <1>6, <1>7 DEF LineIsQueue

LEMMA LineCancel ==
    ASSUME IInv, LineIsQueue, NEW t \in Runs, Cancel(t)
    PROVE  LineIsQueue'
<1>1. waiting' = RemoveFirst(waiting, t) /\ cancelled' = cancelled \cup {t} /\ queue' = queue
  BY DEF Cancel, CancelUnless
<1>2. /\ \A x : Contains(waiting', x) <=> Contains(waiting, x) /\ x # t
      /\ \A i, j \in DOMAIN waiting' : i < j => Before(waiting, waiting'[i], waiting'[j])
  BY <1>1, LineOnce, RemoveFirstKeepsOrder
<1>3. \A x, y : Before(waiting, x, y) => Before(queue', x, y)
  BY <1>1 DEF Before, LineIsQueue
<1> QED  BY <1>1, <1>2, <1>3 DEF LineIsQueue

LEMMA LineTake ==
    ASSUME IInv, LineIsQueue, NEW w \in Workers, Take(w)
    PROVE  LineIsQueue'
<1> DEFINE t == Head(queue)
<1>0. /\ queue \in Seq(Runs) /\ DOMAIN queue = 1..Len(queue) /\ Len(queue) \in Nat /\ queue # <<>>
  BY LineOnce, LenProperties DEF Take, TakeUnless
<1>1. /\ t \in Runs /\ t = queue[1] /\ 1 \in 1..Len(queue)
      /\ Len(queue') = Len(queue) - 1 /\ DOMAIN queue' = 1..(Len(queue) - 1)
      /\ \A i \in 1..(Len(queue) - 1) : queue'[i] = queue[i + 1]
  BY <1>0, HeadTailProperties, EmptySeq, LenProperties DEF Take, TakeUnless
<1>2. /\ waiting' = RemoveFirst(waiting, t)
      /\ cancelled' = cancelled \/ cancelled' = cancelled \ {t}
  BY DEF Take, TakeUnless
<1> HIDE DEF t
<1>3. \A i, j \in 1..Len(queue) : queue[i] = queue[j] => i = j
  BY DEF IInv, QueueInv
<1>4. /\ \A x : Contains(waiting', x) <=> Contains(waiting, x) /\ x # t
      /\ \A i, j \in DOMAIN waiting' : i < j => Before(waiting, waiting'[i], waiting'[j])
  BY <1>2, LineOnce, RemoveFirstKeepsOrder
<1>5. ASSUME NEW k \in 1..Len(queue), queue[k] # t
      PROVE  k - 1 \in 1..(Len(queue) - 1) /\ queue'[k - 1] = queue[k]
  <2>1. k # 1
    BY <1>1, <1>5
  <2>2. k - 1 \in 1..(Len(queue) - 1) /\ (k - 1) + 1 = k
    BY <1>0, <2>1
  <2> QED  BY <1>1, <2>2
<1>6. ASSUME NEW x \in Runs PROVE Contains(queue', x) <=> Contains(queue, x) /\ x # t
  <2>1. ASSUME Contains(queue', x) PROVE Contains(queue, x) /\ x # t
    <3>1. PICK k \in 1..(Len(queue) - 1) : queue'[k] = x
      BY <1>1, <2>1 DEF Contains
    <3>2. k + 1 \in 1..Len(queue) /\ k + 1 # 1
      BY <1>0
    <3>3. queue[k + 1] = x
      BY <1>1, <3>1
    <3> QED  BY <1>1, <1>3, <3>2, <3>3 DEF Contains
  <2>2. ASSUME Contains(queue, x), x # t PROVE Contains(queue', x)
    <3>1. PICK k \in 1..Len(queue) : queue[k] = x
      BY <2>2 DEF Contains
    <3>2. k - 1 \in 1..Len(queue') /\ queue'[k - 1] = x
      BY <1>1, <1>5, <2>2, <3>1
    <3> QED  BY <3>2 DEF Contains
  <2> QED  BY <2>1, <2>2
<1>7. ASSUME NEW x \in Runs PROVE Contains(waiting', x) <=> Contains(queue', x) /\ x \notin cancelled'
  BY <1>2, <1>4, <1>6 DEF LineIsQueue
<1>8. ASSUME NEW x, NEW y, x # t, y # t, Before(queue, x, y) PROVE Before(queue', x, y)
  <2>1. PICK k \in 1..Len(queue), l \in 1..Len(queue) : k < l /\ queue[k] = x /\ queue[l] = y
    BY <1>0, <1>8 DEF Before
  <2>2. /\ k - 1 \in 1..(Len(queue) - 1) /\ queue'[k - 1] = x
        /\ l - 1 \in 1..(Len(queue) - 1) /\ queue'[l - 1] = y
    BY <1>5, <1>8, <2>1
  <2>3. k - 1 < l - 1
    BY <1>0, <2>1
  <2> QED  BY <1>1, <2>2, <2>3 DEF Before
<1>9. ASSUME NEW i \in DOMAIN waiting', NEW j \in DOMAIN waiting', i < j
      PROVE  Before(queue', waiting'[i], waiting'[j])
  <2>0. DOMAIN waiting = 1..Len(waiting)
    BY LineOnce
  <2>1. Before(waiting, waiting'[i], waiting'[j])
    BY <1>4, <1>9
  <2>2. Contains(waiting', waiting'[i]) /\ Contains(waiting', waiting'[j])
    <3>1. waiting' \in Seq(Runs)
      BY <1>2, LineOnce, RemoveFirstFacts
    <3>2. DOMAIN waiting' = 1..Len(waiting')
      BY <3>1, LenProperties
    <3> QED  BY <3>2 DEF Contains
  <2>3. Before(queue, waiting'[i], waiting'[j])
    BY <2>1 DEF Before, LineIsQueue
  <2> QED  BY <1>4, <1>8, <2>2, <2>3
<1> QED  BY <1>7, <1>9 DEF LineIsQueue

(* Whoever ends a hold withdraws the request to stop the run held, and a   *)
(* held run is not queued.                                                 *)
LEMMA LineUndisturbed ==
    ASSUME IInv, LineIsQueue, UNCHANGED <<waiting, queue>>,
           \A x \in Runs : Contains(queue, x) => (x \in cancelled' <=> x \in cancelled)
    PROVE  LineIsQueue'
BY DEF LineIsQueue

LEMMA LineStep == IInv /\ LineIsQueue /\ [Next]_vars => LineIsQueue'
<1> SUFFICES ASSUME IInv, LineIsQueue, [Next]_vars  PROVE LineIsQueue'
  OBVIOUS
<1>0. \A w \in Workers : ~ Contains(queue, holds[w])
  BY DEF IInv, QueueInv, Contains
<1>1. ASSUME NEW t \in Runs, Create(t) \/ Cancel(t)  PROVE LineIsQueue'
  BY <1>1, LineCreate, LineCancel
<1>2. ASSUME NEW t \in Runs, CreateFails(t) \/ Decide(t) \/ Recover(t)  PROVE LineIsQueue'
  BY <1>2, LineUndisturbed DEF CreateFails, Decide, DecideReleasing, Recover, memory
<1>3. ASSUME NEW w \in Workers, Take(w)  PROVE LineIsQueue'
  BY <1>3, LineTake
<1>4. ASSUME NEW w \in Workers, Ends(w)  PROVE LineIsQueue'
  BY <1>4, EndsIsFinish, LineUndisturbed DEF Finish, memory
<1>5. ASSUME NEW w \in Workers, Abandon(w)  PROVE LineIsQueue'
  BY <1>0, <1>5, LineUndisturbed DEF Abandon
<1>6. CASE Audit \/ AuditFails
  <2>1. UNCHANGED <<waiting, queue>> /\ (cancelled' = cancelled \/ (pending \in Executing /\ cancelled' = cancelled \ {pending}))
    BY <1>6 DEF Audit, AuditFails, EndHandler, Conclude
  <2>2. pending \in Executing => ~ Contains(queue, pending)
    BY <1>0 DEF Executing
  <2> QED  BY <2>1, <2>2, LineUndisturbed
<1>7. CASE End
  BY <1>7, EmptySeq DEF End, LineIsQueue, Contains, Before
<1>8. CASE Boot \/ Start \/ UNCHANGED vars
  BY <1>8, LineUndisturbed DEF Boot, BootClosing, Start, memory, vars
<1> QED  BY <1>1, <1>2, <1>3, <1>4, <1>5, <1>6, <1>7, <1>8 DEF Next, Rerun

(* LineIsQueue for any number of runs and workers: the line users are      *)
(* shown holds the runs that will be taken, in the order they will be,     *)
(* whatever is cancelled in the middle of it, taken or lost.               *)
THEOREM LineShownIsQueue == Spec => []LineIsQueue
<1>1. Init => LineIsQueue
  BY EmptySeq DEF Init, LineIsQueue, Contains, Before
<1> QED  BY <1>1, LineStep, Inductive, PTL DEF Spec

-----------------------------------------------------------------------------
(* Safety. *)

(* A run a worker holds is with no other worker and not in the queue, and  *)
(* nothing settles its row meanwhile: what the worker persists never       *)
(* overwrites an outcome somebody else wrote (cancel, recover_orphans).    *)
THEOREM HeldRunsAreOwned == Spec => []HeldIsOwned
<1>1. IInv => HeldIsOwned
  BY DEF IInv, TypeOK, QueueInv, HeldInv, HeldIsOwned, Contains
<1> QED  BY <1>1, Inductive, PTL

(* A request to stop outlives its worker's hold only if it closed the run. *)
THEOREM StopsAreForTheirRun == Spec => []StopIsForThisRun
BY Inductive, PTL DEF IInv

(* What a step may write over a settled row: nothing.  Every writer of a   *)
(* row is looked at with what the invariant says of the row it writes.     *)
LEMMA SettledStep ==
    ASSUME IInv, [Next]_vars, NEW t \in Runs, row[t] \in Settled
    PROVE  row'[t] = row[t]
<1> USE DEF IInv, TypeOK, Active, Settled
<1>1. ASSUME NEW s \in Runs, Create(s) \/ CreateFails(s) \/ Cancel(s) \/ Decide(s) \/ Recover(s)
      PROVE  row'[t] = row[t]
  BY <1>1 DEF Create, CreateFails, Cancel, CancelUnless, Decide, DecideReleasing, Recover,
              Fresh, OrphanInv
<1>2. ASSUME NEW w \in Workers, Take(w)  PROVE row'[t] = row[t]
  <2>1. Head(queue) = queue[1] /\ 1 \in 1..Len(queue)
    BY <1>2, HeadTailProperties, EmptySeq, LenProperties DEF Take, TakeUnless
  <2>2. Head(queue) \notin cancelled => row[Head(queue)] = "classified"
    BY <2>1 DEF QueueInv
  <2> QED  BY <1>2, <2>2 DEF Take, TakeUnless
<1>3. ASSUME NEW w \in Workers, Ends(w)  PROVE row'[t] = row[t]
  <2>1. PICK s \in {"delivered", "awaiting_approval", "failed", "blocked", "cancelled"} :
          Finish(w, s)
    BY <1>3, EndsIsFinish
  <2>2. row[holds[w]] = "executing"
    BY <2>1, LifecycleAssumption DEF Finish, LoopFree, HeldInv
  <2> QED  BY <2>1, <2>2 DEF Finish
<1>4. CASE (\E w \in Workers : Abandon(w)) \/ Audit \/ AuditFails \/ End \/ Boot \/ Start
           \/ UNCHANGED vars
  BY <1>4 DEF Abandon, Audit, AuditFails, EndHandler, Conclude, End, Boot, BootClosing, Start, vars
<1> QED  BY <1>1, <1>2, <1>3, <1>4 DEF Next, Rerun

(* What a run settled as is final: a reviewer, a second stop, the worker   *)
(* and the next boot all leave it.                                         *)
THEOREM SettledNeverChanges == Spec => SettledIsFinal
<1>1. IInv /\ [Next]_vars => [\A t \in Runs : row[t] \in Settled => row'[t] = row[t]]_vars
  BY SettledStep
<1> QED  BY <1>1, Inductive, PTL DEF Spec, SettledIsFinal

(* A run asked to stop while a worker holds it is not delivered or held.   *)
LEMMA HonouredStep ==
    ASSUME IInv, [Next]_vars, NEW t \in cancelled \cap Executing, row[t] = "executing"
    PROVE  row'[t] \notin {"delivered", "awaiting_approval"}
<1> USE DEF IInv, TypeOK, Active, Settled
<1> PICK v \in Workers : holds[v] = t
  BY DEF Executing
<1>1. ASSUME NEW s \in Runs, Create(s) \/ CreateFails(s) \/ Cancel(s) \/ Decide(s) \/ Recover(s)
      PROVE  row'[t] \notin {"delivered", "awaiting_approval"}
  BY <1>1 DEF Create, CreateFails, Cancel, CancelUnless, Decide, DecideReleasing, Recover
<1>2. ASSUME NEW w \in Workers, Take(w)
      PROVE  row'[t] \notin {"delivered", "awaiting_approval"}
  BY <1>2 DEF Take, TakeUnless
<1>3. ASSUME NEW w \in Workers, Ends(w)
      PROVE  row'[t] \notin {"delivered", "awaiting_approval"}
  BY <1>3 DEF Ends, NoticeStop, ReleaseUnheld, HoldForReview, FailRun, Finish
<1>4. CASE (\E w \in Workers : Abandon(w)) \/ Audit \/ AuditFails \/ End \/ Boot \/ Start
           \/ UNCHANGED vars
  BY <1>4 DEF Abandon, Audit, AuditFails, EndHandler, Conclude, End, Boot, BootClosing, Start, vars
<1> QED  BY <1>1, <1>2, <1>3, <1>4 DEF Next, Rerun

(* A stop accepted for a run in a worker's hands is honoured, at whichever *)
(* stage the worker is (_stage, _until_stopped).                           *)
THEOREM StopsAreHonoured == Spec => StopIsHonoured
<1>1. IInv /\ [Next]_vars =>
        [\A t \in cancelled \cap Executing :
            row[t] = "executing" => row'[t] \notin {"delivered", "awaiting_approval"}]_vars
  BY HonouredStep
<1> QED  BY <1>1, Inductive, PTL DEF Spec, StopIsHonoured

(* Files are released by delivery alone wherever policy holds every run    *)
(* that produces one, as the rule released_deliverable of the shipped      *)
(* policy does; nothing that happens to the run later leaves a released    *)
(* file behind a run that is not delivered.                                *)
THEOREM ReleaseMeansDelivered ==
    ASSUME Documents \subseteq HeldByPolicy
    PROVE  Spec => []ReleasedOnlyDelivered
<1>1. Init => ReleasedOnlyDelivered
  BY DEF Init, ReleasedOnlyDelivered
<1>2. IInv /\ ReleasedOnlyDelivered /\ [Next]_vars => ReleasedOnlyDelivered'
  <2> SUFFICES ASSUME IInv, ReleasedOnlyDelivered, [Next]_vars, NEW t \in released'
               PROVE  row'[t] = "delivered"
    BY DEF ReleasedOnlyDelivered
  <2>1. CASE t \in released
    BY <2>1, SettledStep DEF ReleasedOnlyDelivered, Settled, IInv, TypeOK
  <2>2. CASE t \notin released
    <3>1. ASSUME NEW s \in Runs, Decide(s)  PROVE row'[t] = "delivered"
      BY <2>2, <3>1 DEF Decide, DecideReleasing, IInv, TypeOK
    <3>2. ASSUME NEW w \in Workers, Ends(w)  PROVE row'[t] = "delivered"
      <4>1. t = holds[w] /\ t \in Documents /\ t \notin HeldByPolicy
        BY <2>2, <3>2 DEF Ends, NoticeStop, ReleaseUnheld, HoldForReview, FailRun
      <4> QED  BY <4>1
    <3>3. \A s \in Runs : ~ (Create(s) \/ CreateFails(s) \/ Cancel(s) \/ Recover(s))
      BY <2>2 DEF Create, CreateFails, Cancel, CancelUnless, Recover
    <3>4. ~ UNCHANGED released
      BY <2>2
    <3> QED
      BY <3>1, <3>2, <3>3, <3>4
         DEF Next, Rerun, Take, TakeUnless, Abandon, Audit, AuditFails, EndHandler, Conclude,
             End, Boot, BootClosing, Start, vars
  <2> QED  BY <2>1, <2>2
<1> QED  BY <1>1, <1>2, Inductive, PTL DEF Spec

(* Wherever the process dies, the task and approval records report no end  *)
(* of a run that the database does not have.                               *)
THEOREM LogNeverLeadsRow == Spec => []LogFollowsRow
<1>1. Init => LogFollowsRow
  BY DEF Init, LogFollowsRow
<1>2. IInv /\ LogFollowsRow /\ [Next]_vars => LogFollowsRow'
  <2> SUFFICES ASSUME IInv, LogFollowsRow, [Next]_vars, NEW t \in Runs
               PROVE  logged'[t] \cap Settled \subseteq {row'[t]}
    BY DEF LogFollowsRow
  <2> USE DEF IInv, TypeOK
  <2>1. logged[t] \cap Settled \subseteq {row'[t]}
    <3> SUFFICES ASSUME NEW s \in logged[t] \cap Settled  PROVE s = row'[t]
      OBVIOUS
    <3>1. row[t] = s /\ row[t] \in Settled
      BY DEF LogFollowsRow
    <3> QED  BY <3>1, SettledStep
  <2>2. CASE Audit
    BY <2>1, <2>2 DEF Audit, EndHandler, Conclude
  <2>3. CASE ~ Audit
    <3>1. logged' = logged
      BY <2>3 DEF Next, Create, CreateFails, Cancel, CancelUnless, Decide, DecideReleasing, Recover, Rerun, Take, TakeUnless, Ends, NoticeStop, ReleaseUnheld, HoldForReview, FailRun, Finish, Abandon, AuditFails, End, Boot, BootClosing, Start, vars
    <3> QED  BY <2>1, <3>1
  <2> QED  BY <2>2, <2>3
<1> QED  BY <1>1, <1>2, Inductive, PTL DEF Spec

-----------------------------------------------------------------------------
(* Every active run is somebody's, when nothing fails unexpectedly and     *)
(* fewer rows can be left active than one boot closes out.  A boot has     *)
(* read every row left active; the rest of it closes those out.            *)

OwnedInv ==
    /\ ActiveIsOwned
    /\ process = "recovering" => \A t \in Runs : row[t] \in Active => t \in orphans

LEMMA BootReadsAll ==
    ASSUME MaxRuns <= RecoverLimit, NEW left \in SUBSET Runs, NEW t \in Runs
    PROVE  Cardinality({s \in left : s > t}) < RecoverLimit
<1>1. IsFiniteSet(Runs) /\ Cardinality(Runs) = MaxRuns
  BY FS_Interval, LifecycleAssumption DEF Runs
<1>2. IsFiniteSet(Runs \ {t}) /\ Cardinality(Runs \ {t}) = MaxRuns - 1
  BY <1>1, FS_RemoveElement
<1>3. {s \in left : s > t} \in SUBSET (Runs \ {t})
  <2>1. \A s \in Runs : s > t => s # t
    BY LifecycleAssumption DEF Runs
  <2> QED  BY <2>1
<1>4. /\ IsFiniteSet({s \in left : s > t})
      /\ Cardinality({s \in left : s > t}) <= MaxRuns - 1
  BY <1>2, <1>3, FS_Subset
<1>5. Cardinality({s \in left : s > t}) \in Nat
  BY <1>4, FS_CardinalityType
<1> QED  BY <1>4, <1>5, LifecycleAssumption

LEMMA OwnedStep ==
    ASSUME ~ Faults, MaxRuns <= RecoverLimit, IInv, OwnedInv, [Next]_vars
    PROVE  OwnedInv'
<1> USE DEF IInv, TypeOK, Active
<1>1. ASSUME NEW t \in Runs, Create(t)  PROVE OwnedInv'
  <2>1. \A s \in Runs : Contains(waiting', s) <=> Contains(waiting, s) \/ s = t
    BY <1>1, AppendProperties DEF Create, Contains
  <2> QED  BY <1>1, <2>1 DEF Create, LoopFree, OwnedInv, ActiveIsOwned, Executing
<1>2. ASSUME NEW t \in Runs, Cancel(t)  PROVE OwnedInv'
  <2>1. \A s \in Runs : s # t /\ Contains(waiting, s) => Contains(waiting', s)
    BY <1>2, RemoveFirstFacts DEF Cancel, CancelUnless
  <2> QED
    BY <1>2, <2>1 DEF Cancel, CancelUnless, LoopFree, OwnedInv, ActiveIsOwned, Executing
<1>3. ASSUME NEW t \in Runs, Decide(t)  PROVE OwnedInv'
  BY <1>3 DEF Decide, DecideReleasing, LoopFree, memory, OwnedInv, ActiveIsOwned, Executing
<1>4. ASSUME NEW t \in Runs, Recover(t)  PROVE OwnedInv'
  BY <1>4 DEF Recover, memory, OwnedInv, ActiveIsOwned, Executing
<1>5. ASSUME NEW w \in Workers, Take(w)  PROVE OwnedInv'
  <2> DEFINE h == Head(queue)
  <2>1. h = queue[1] /\ 1 \in 1..Len(queue) /\ h \in Runs
    BY <1>5, HeadTailProperties, EmptySeq, LenProperties DEF Take, TakeUnless
  <2>2. h \in cancelled => row[h] = "cancelled"
    BY <2>1 DEF QueueInv
  <2> HIDE DEF h
  <2>3. \A s \in Runs : s # h /\ Contains(waiting, s) => Contains(waiting', s)
    BY <1>5, RemoveFirstFacts DEF Take, TakeUnless, h
  <2>4. \A s \in Runs : s \in Executing => s \in Executing'
    BY <1>5 DEF Take, TakeUnless, Executing
  <2>5. h \notin cancelled => h \in Executing'
    BY <1>5, <2>1, LifecycleAssumption DEF Take, TakeUnless, h, Executing
  <2>6. \A s \in Runs : s # h => row'[s] = row[s]
    BY <1>5 DEF Take, TakeUnless, h
  <2>7. h \in cancelled => row' = row
    BY <1>5 DEF Take, TakeUnless, h
  <2>8. process = "up" /\ process' = "up"
    BY <1>5 DEF Take, TakeUnless, LoopFree
  <2>9. ASSUME NEW s \in Runs, row'[s] \in Active
        PROVE  Contains(waiting', s) \/ s \in Executing'
    <3>1. CASE s = h
      BY <2>2, <2>5, <2>7, <2>9, <3>1
    <3>2. CASE s # h
      BY <2>3, <2>4, <2>6, <2>8, <2>9, <3>2 DEF OwnedInv, ActiveIsOwned
    <3> QED  BY <3>1, <3>2
  <2> QED  BY <2>8, <2>9 DEF OwnedInv, ActiveIsOwned
<1>6. ASSUME NEW w \in Workers, Ends(w)  PROVE OwnedInv'
  <2>1. PICK s \in {"delivered", "awaiting_approval", "failed", "blocked", "cancelled"} :
          Finish(w, s)
    BY <1>6, EndsIsFinish
  <2> QED
    BY <2>1 DEF Finish, LoopFree, memory, OwnedInv, ActiveIsOwned, Executing
<1>7. CASE Audit
  <2>1. row[pending] \notin Active
    BY <1>7 DEF Audit, PendingInv
  <2>2. /\ UNCHANGED <<process, row, waiting, orphans>>
        /\ \A w \in Workers : holds'[w] = IF holds[w] = pending THEN NoRun ELSE holds[w]
    BY <1>7 DEF Audit, EndHandler, Conclude
  <2>3. \A t \in Executing : t # pending => t \in Executing'
    BY <2>2 DEF Executing
  <2> QED  BY <2>1, <2>2, <2>3 DEF OwnedInv, ActiveIsOwned
<1>8. CASE End
  BY <1>8 DEF End, OwnedInv, ActiveIsOwned
<1>9. CASE Boot
  BY <1>9, BootReadsAll DEF Boot, BootClosing, OwnedInv, ActiveIsOwned
<1>10. CASE Start
  BY <1>10 DEF Start, memory, OwnedInv, ActiveIsOwned
<1>11. CASE UNCHANGED vars
  BY <1>11 DEF vars, OwnedInv, ActiveIsOwned, Executing
<1> QED
  BY <1>1, <1>2, <1>3, <1>4, <1>5, <1>6, <1>7, <1>8, <1>9, <1>10, <1>11
     DEF Next, Rerun, CreateFails, Abandon, AuditFails

(* recover_orphans' premise: while the process serves, a run that looks    *)
(* active is in the line or with a worker.                                 *)
THEOREM ActiveRunsAreOwned ==
    ASSUME ~ Faults, MaxRuns <= RecoverLimit
    PROVE  Spec => []ActiveIsOwned
<1>1. Init => OwnedInv
  BY DEF Init, OwnedInv, ActiveIsOwned, Active
<1>2. IInv /\ OwnedInv /\ [Next]_vars => OwnedInv'
  BY OwnedStep
<1>3. OwnedInv => ActiveIsOwned
  BY DEF OwnedInv
<1> QED  BY <1>1, <1>2, <1>3, Inductive, PTL DEF Spec

-----------------------------------------------------------------------------
(* Refinement: TaskLifecycle implements RunLifecycle. *)

RLState == [t \in Runs |-> IF row[t] \in Active THEN "active" ELSE row[t]]
RLAsked == {t \in cancelled : row[t] \in Active}

LEMMA RefinedInit == Init => RL!RInit
BY DEF Init, RL!RInit, Active

(* A step of a request handler or of the boot, about one run. *)
LEMMA RefinedRequest ==
    ASSUME IInv, NEW t \in Runs,
           Create(t) \/ CreateFails(t) \/ Cancel(t) \/ Decide(t) \/ Recover(t)
    PROVE  RL!RNext \/ UNCHANGED <<RLState, RLAsked>>
<1> USE DEF IInv, TypeOK, Active, Settled, Status, RLState, RLAsked
<1>1. CASE Create(t) \/ CreateFails(t)
  <2>1. row[t] = "absent" /\ row' = [row EXCEPT ![t] = "classified"] /\ cancelled' = cancelled
    BY <1>1 DEF Create, CreateFails, Fresh, memory
  <2>2. t \notin cancelled
    BY <1>1, <2>1, LifecycleAssumption
       DEF StopIsForThisRun, HeldInv, Executing, Create, CreateFails, LoopFree
  <2>3. RL!Submit(t)
    BY <2>1, <2>2 DEF RL!Submit
  <2> QED  BY <2>3 DEF RL!RNext
<1>2. CASE Cancel(t) /\ t \in Executing
  <2>1. row[t] = "executing"
    BY <1>2 DEF Executing, HeldInv, Cancel, CancelUnless, LoopFree
  <2>2. row' = row /\ cancelled' = cancelled \cup {t}
    BY <1>2 DEF Cancel, CancelUnless
  <2>3. RL!AskStop(t)
    BY <2>1, <2>2 DEF RL!AskStop
  <2> QED  BY <2>3 DEF RL!RNext
<1>3. CASE Cancel(t) /\ t \notin Executing
  <2>1. /\ row[t] \in {"classified", "executing", "awaiting_approval", "revision_requested"}
        /\ row' = [row EXCEPT ![t] = "cancelled"] /\ cancelled' = cancelled \cup {t}
    BY <1>3 DEF Cancel, CancelUnless
  <2>2. RLAsked' = RLAsked \ {t}
    BY <2>1
  <2>3. CASE row[t] \in Active
    <3>1. RL!Leave(t)
      BY <2>1, <2>2, <2>3 DEF RL!Leave
    <3> QED  BY <3>1 DEF RL!RNext
  <2>4. CASE row[t] \notin Active
    <3>1. RL!Withdraw(t)
      BY <2>1, <2>2, <2>4 DEF RL!Withdraw
    <3> QED  BY <3>1 DEF RL!RNext
  <2> QED  BY <2>3, <2>4
<1>4. CASE Decide(t)
  <2>1. RL!Review(t)
    BY <1>4 DEF RL!Review, Decide, DecideReleasing, memory
  <2> QED  BY <2>1 DEF RL!RNext
<1>5. CASE Recover(t)
  <2>1. row[t] \in Active /\ row' = [row EXCEPT ![t] = "failed"] /\ cancelled' = cancelled
    BY <1>5 DEF Recover, OrphanInv, memory
  <2>2. RL!Leave(t)
    BY <2>1 DEF RL!Leave
  <2> QED  BY <2>2 DEF RL!RNext
<1> QED  BY <1>1, <1>2, <1>3, <1>4, <1>5

(* A step of a worker. *)
LEMMA RefinedWorker ==
    ASSUME IInv, NEW w \in Workers, Take(w) \/ Ends(w) \/ Abandon(w)
    PROVE  RL!RNext \/ UNCHANGED <<RLState, RLAsked>>
<1> USE DEF IInv, TypeOK, Active, Settled, Status, RLState, RLAsked
<1>1. CASE Take(w)
  <2> DEFINE h == Head(queue)
  <2>1. h = queue[1] /\ 1 \in 1..Len(queue) /\ h \in Runs
    BY <1>1, HeadTailProperties, EmptySeq, LenProperties DEF Take, TakeUnless
  <2>2. row[h] = IF h \in cancelled THEN "cancelled" ELSE "classified"
    BY <2>1 DEF QueueInv
  <2>3. \/ h \in cancelled /\ row' = row /\ cancelled' = cancelled \ {h}
        \/ h \notin cancelled /\ row' = [row EXCEPT ![h] = "executing"] /\ cancelled' = cancelled
    BY <1>1 DEF Take, TakeUnless
  <2> HIDE DEF h
  <2> QED  BY <2>1, <2>2, <2>3
<1>2. CASE Ends(w)
  <2>1. PICK s \in {"delivered", "awaiting_approval", "failed", "blocked", "cancelled"} :
          Finish(w, s)
    BY <1>2, EndsIsFinish
  <2>2. row[holds[w]] = "executing" /\ holds[w] \in Runs
    BY <2>1, LifecycleAssumption DEF Finish, LoopFree, HeldInv
  <2>3. /\ row' = [row EXCEPT ![holds[w]] = s] /\ cancelled' = cancelled
    BY <2>1 DEF Finish, memory
  <2>4. holds[w] \in cancelled => s \notin {"delivered", "awaiting_approval"}
    <3>1. holds[w] \in Executing
      BY <2>2, LifecycleAssumption DEF Executing
    <3>2. [Next]_vars
      BY <1>2 DEF Next
    <3> QED  BY <2>2, <2>3, <3>1, <3>2, HonouredStep
  <2>5. ASSUME NEW t \in Runs, t = holds[w]  PROVE RL!Leave(t)
    <3>1. /\ row[t] = "executing" /\ row' = [row EXCEPT ![t] = s] /\ cancelled' = cancelled
          /\ t \in cancelled => s \notin {"delivered", "awaiting_approval"}
      BY <2>2, <2>3, <2>4, <2>5
    <3> QED  BY <3>1 DEF RL!Leave
  <2> QED  BY <2>2, <2>5 DEF RL!RNext
<1>3. CASE Abandon(w)
  <2>1. RL!Forget
    BY <1>3 DEF Abandon, RL!Forget
  <2> QED  BY <2>1 DEF RL!RNext
<1> QED  BY <1>1, <1>2, <1>3

LEMMA RefinedStep ==
    ASSUME IInv, [Next]_vars
    PROVE  RL!RNext \/ UNCHANGED <<RLState, RLAsked>>
<1>1. ASSUME NEW t \in Runs, Create(t) \/ CreateFails(t) \/ Cancel(t) \/ Decide(t) \/ Recover(t)
      PROVE  RL!RNext \/ UNCHANGED <<RLState, RLAsked>>
  BY <1>1, RefinedRequest
<1>2. ASSUME NEW w \in Workers, Take(w) \/ Ends(w) \/ Abandon(w)
      PROVE  RL!RNext \/ UNCHANGED <<RLState, RLAsked>>
  BY <1>2, RefinedWorker
<1>3. CASE Audit \/ AuditFails \/ End \/ Boot \/ Start \/ UNCHANGED vars
  <2>1. row' = row /\ cancelled' \subseteq cancelled
    BY <1>3 DEF Audit, AuditFails, EndHandler, Conclude, End, Boot, BootClosing, Start, memory, vars
  <2>2. RL!Forget
    BY <2>1 DEF RL!Forget, RLState, RLAsked
  <2> QED  BY <2>2 DEF RL!RNext
<1> QED  BY <1>1, <1>2, <1>3 DEF Next, Rerun

(* The task service and the ends of its runs implement the abstract life   *)
(* of a run: every handler is one abstract step or none.                   *)
THEOREM RunsFollowLifecycle == Spec => ImplementsRunLifecycle
<1>1. IInv /\ [Next]_vars => [RL!RNext]_(RL!rvars)
  BY RefinedStep DEF RL!rvars, RLState, RLAsked
<1> QED
  BY <1>1, RefinedInit, Inductive, PTL DEF Spec, ImplementsRunLifecycle, RL!RSpec
=============================================================================
