---------------------------- MODULE RecordsProofs ----------------------------
(***************************************************************************)
(* What is proved of the audit log, of the Merkle trees over it, and of    *)
(* the certificates that rest on both.                                     *)
(*                                                                         *)
(* The log: while no write is cut short it is one chain and every seal     *)
(* stays reproducible, for any number of writers, sealers and records: the *)
(* holder of the lock knows the current end of the file, so what is        *)
(* written goes on from there, and a longer log has every earlier one as a *)
(* prefix.  Where writes are cut short, every record lost and every break  *)
(* has a cut of its own.  And for all its readings and locks it implements *)
(* Ledger, where each append and each seal is one step.                    *)
(*                                                                         *)
(* The trees: of every log every record's proof verifies, a proof that     *)
(* verifies is of a record, and the root pins the records.                 *)
(*                                                                         *)
(* The certificates: whoever is past the seal holds a root of the log and  *)
(* composes from what is under it, and the event loop's last one is of the *)
(* run as it is.                                                           *)
(***************************************************************************)
EXTENDS AuditLog, Certificates, SequenceTheorems, FiniteSetTheorems, WellFoundedInduction, TLAPS

Writers == {"writing"}

(* The holder of the lock has the current end of the file. *)
Whole ==
    cuts = 0 =>
        /\ end = "line"
        /\ \A a \in Agents :
              step[a] \in Writers => lock = a /\ tail[a] = LastRecord

IInv == LogTypeOK /\ Whole /\ ChainIntact /\ SealsReproduce

-----------------------------------------------------------------------------
(* Sequences. *)

(* What is appended leaves the beginning of a sequence alone. *)
LEMMA PrefixOfAppend ==
    ASSUME NEW S, NEW s \in Seq(S), NEW e \in S, NEW n \in 0..Len(s)
    PROVE  SubSeq(Append(s, e), 1, n) = SubSeq(s, 1, n)
  OBVIOUS

(* A log without its last record is a log. *)
LEMMA FrontType ==
    ASSUME NEW S, NEW s \in Seq(S)
    PROVE  SubSeq(s, 1, Len(s) - 1) \in Seq(S)
  OBVIOUS

(* The hashes of a log are as many as its records. *)
LEMMA HashesType ==
    ASSUME NEW s \in Seq(Records)
    PROVE  /\ [i \in 1..Len(s) |-> s[i].hash] \in Seq(Nat)
           /\ Len([i \in 1..Len(s) |-> s[i].hash]) = Len(s)
  <1> DEFINE hs == [i \in 1..Len(s) |-> s[i].hash]
  <1>1. Len(s) \in Nat
    OBVIOUS
  <1>2. hs \in [1..Len(s) -> Nat]
    <2>1. \A i \in 1..Len(s) : s[i] \in Records
      OBVIOUS
    <2>2. QED
      BY <2>1 DEF Records
  <1>3. hs \in Seq(Nat)
    BY <1>1, <1>2, SeqDef
  <1>4. 1..Len(hs) = 1..Len(s) /\ Len(hs) \in Nat
    BY <1>3, LenProperties
  <1>5. QED
    BY <1>1, <1>3, <1>4

(* The hashes of a longer log are those there were and one more. *)
LEMMA HashesGrow ==
    ASSUME records \in Seq(Records), NEW r \in Records, records' = Append(records, r)
    PROVE  Hashes' = Append(Hashes, r.hash)
  BY DEF Hashes, Records

(* A seal reproduced by a log is reproduced by a longer one. *)
LEMMA LongerReproduces ==
    ASSUME NEW s \in Seq(Nat), NEW e \in Nat, NEW r, r.events \in Nat, Reproduces(s, r)
    PROVE  Reproduces(Append(s, e), r)
  <1>1. r.events \in 0..Len(s)
    BY DEF Reproduces
  <1>2. SubSeq(Append(s, e), 1, r.events) = SubSeq(s, 1, r.events)
    BY <1>1, PrefixOfAppend
  <1>3. Len(Append(s, e)) >= r.events
    BY <1>1, AppendProperties
  <1>4. QED
    BY <1>2, <1>3 DEF Reproduces
-----------------------------------------------------------------------------
(* Types. *)

LEMMA LastRecordType ==
    ASSUME LogTypeOK
    PROVE  LastRecord \in [seq : Nat, hash : Nat]
  <1>1. CASE end \in {"junk", "part"} \/ records = <<>>
    BY <1>1 DEF LastRecord, ChainStart, Genesis
  <1>2. CASE end \notin {"junk", "part"} /\ records # <<>>
    <2>1. records[Len(records)] \in Records
      BY <1>2 DEF LogTypeOK
    <2>2. QED
      BY <1>2, <2>1 DEF LastRecord, Records
  <1>3. QED
    BY <1>1, <1>2

LEMMA NewRecordType ==
    ASSUME LogTypeOK, NEW a \in Agents
    PROVE  NewRecord(a) \in Records
  BY DEF LogTypeOK, NewRecord, Records

(* What a written line leaves of the file. *)
LEMMA PutType ==
    ASSUME LogTypeOK, NEW line \in Records, Put(line)
    PROVE  records' \in Seq(Records) /\ end' \in {"line", "junk"}
  <1>1. records \in Seq(Records)
    BY DEF LogTypeOK
  <1>2. Append(records, line) \in Seq(Records)
    BY <1>1
  <1>3. SubSeq(records, 1, Len(records) - 1) \in Seq(Records)
    BY <1>1, FrontType
  <1>4. QED
    BY <1>1, <1>2, <1>3 DEF Put, PutEnding

(* The part of the types that is about agents, and the part about what was *)
(* sealed.                                                                 *)
AgentsOK ==
    /\ step \in [Agents -> Steps]
    /\ lock \in Agents \cup {Nobody}
    /\ lock \in Agents => step[lock] \in Writers
    /\ tail \in [Agents -> [seq : Nat, hash : Nat]]
    /\ head \in [Agents -> Nat]
    /\ held \in [Agents -> Seq(Nat)]

FileOK ==
    /\ records \in Seq(Records)
    /\ end \in {"line", "junk", "part", "whole"}
    /\ written \subseteq 1..issued
    /\ issued \in Nat
    /\ cuts \in Nat

SealedOK ==
    /\ \A r \in roots : r.events \in Nat /\ r.head \in Nat
    /\ alarm \in BOOLEAN

LEMMA TypeParts == LogTypeOK <=> (FileOK /\ AgentsOK /\ SealedOK)
  BY DEF LogTypeOK, FileOK, AgentsOK, SealedOK, Writers

(* An agent that is done is fine, if it leaves the lock. *)
LEMMA DoneOK ==
    ASSUME AgentsOK, NEW a \in Agents, Done(a), roots' = roots,
           Unlock(a) \/ (UNCHANGED lock /\ step[a] \notin Writers)
    PROVE  AgentsOK'
  <1>1. /\ step' \in [Agents -> Steps]
        /\ tail' \in [Agents -> [seq : Nat, hash : Nat]]
        /\ head' \in [Agents -> Nat]
        /\ held' \in [Agents -> Seq(Nat)]
    BY DEF AgentsOK, Done, Proceed, ChainStart, Genesis, Steps
  <1>2. lock' \in Agents \cup {Nobody} /\ (lock' \in Agents => step'[lock'] \in Writers)
    BY AuditAssumption DEF AgentsOK, Done, Proceed, Unlock
  <1>3. QED
    BY <1>1, <1>2 DEF AgentsOK

(* An empty log is a good one. *)
LEMMA TypeInit == LogInit => IInv
  <1> SUFFICES ASSUME LogInit PROVE IInv
    OBVIOUS
  <1>1. LogTypeOK
    <2>1. <<>> \in Seq(Records) /\ <<>> \in Seq(Nat)
      OBVIOUS
    <2>2. FileOK
      BY <2>1 DEF LogInit, FileOK
    <2>3. AgentsOK
      BY <2>1, AuditAssumption DEF LogInit, AgentsOK, ChainStart, Genesis, Steps
    <2>4. SealedOK
      BY DEF LogInit, SealedOK
    <2>5. QED
      BY <2>2, <2>3, <2>4, TypeParts
  <1>2. Whole /\ ChainIntact /\ SealsReproduce
    BY DEF LogInit, Whole, Writers, ChainIntact, ChainValid, SealsReproduce
  <1>3. QED
    BY <1>1, <1>2 DEF IInv

(* Every step keeps the types. *)
LEMMA TypeStep ==
    ASSUME LogTypeOK, [LogNext]_logVars
    PROVE  LogTypeOK'
  <1> SUFFICES FileOK' /\ AgentsOK' /\ SealedOK'
    BY DEF LogTypeOK, FileOK, AgentsOK, SealedOK, Writers
  <1>0. FileOK /\ AgentsOK /\ SealedOK
    BY TypeParts
  <1>1. ASSUME NEW a \in Agents, ReadTail(a)
        PROVE  FileOK' /\ AgentsOK' /\ SealedOK'
    <2>1. LastRecord \in [seq : Nat, hash : Nat]
      BY LastRecordType
    <2>2. AgentsOK'
      BY <1>0, <1>1, <2>1 DEF ReadTail, AgentsOK, Writers, Proceed, Steps, sealed
    <2>3. QED
      BY <1>0, <1>1, <2>2 DEF ReadTail, FileOK, SealedOK, file, sealed
  <1>2. ASSUME NEW a \in Agents, Write(a)
        PROVE  FileOK' /\ AgentsOK' /\ SealedOK'
    <2>1. records' \in Seq(Records) /\ end' \in {"line", "junk"}
      BY <1>2, NewRecordType, PutType DEF Write
    <2>2. FileOK'
      BY <1>0, <1>2, <2>1 DEF Write, FileOK
    <2>3. SealedOK' /\ roots' = roots
      BY <1>0, <1>2 DEF Write, SealedOK, sealed
    <2>4. AgentsOK'
      BY <1>0, <1>2, <2>3, DoneOK DEF Write
    <2>5. QED
      BY <2>2, <2>3, <2>4
  <1>3. ASSUME NEW a \in Agents, Cut(a)
        PROVE  FileOK' /\ AgentsOK' /\ SealedOK'
    <2>1. /\ Append(records, NewRecord(a)) \in Seq(Records)
          /\ SubSeq(records, 1, Len(records) - 1) \in Seq(Records)
      BY <1>0, NewRecordType, FrontType, AppendProperties DEF FileOK
    <2>2. FileOK'
      BY <1>0, <1>3, <2>1 DEF Cut, FileOK
    <2>3. SealedOK' /\ AgentsOK'
      BY <1>0, <1>3, DoneOK DEF Cut, SealedOK, sealed
    <2>4. QED
      BY <2>2, <2>3
  <1>4. ASSUME NEW a \in Agents, VerifyChain(a)
        PROVE  FileOK' /\ AgentsOK' /\ SealedOK'
    <2>1. records # <<>> => records[Len(records)].hash \in Nat
      <3>1. records # <<>> => records[Len(records)] \in Records
        BY <1>0 DEF FileOK
      <3>2. QED
        BY <3>1 DEF Records
    <2>2. AgentsOK'
      BY <1>0, <1>4, <2>1 DEF VerifyChain, AgentsOK, Writers, Proceed, Steps,
                              Genesis, sealed
    <2>3. QED
      BY <1>0, <1>4, <2>2 DEF VerifyChain, FileOK, SealedOK, file, sealed
  <1>5. ASSUME NEW a \in Agents, Seal(a)
        PROVE  FileOK' /\ AgentsOK' /\ SealedOK'
    <2> DEFINE root == [events |-> Len(records), head |-> head[a], merkle |-> MerkleRoot(Hashes)]
    <2>1. root.events \in Nat /\ root.head \in Nat
      BY <1>0 DEF FileOK, AgentsOK
    <2>2. roots' = roots \cup {root}
      BY <1>5 DEF Seal, SealOf
    <2> HIDE DEF root
    <2>3. AgentsOK'
      BY <1>0, <1>5, <2>2 DEF Seal, SealOf, AgentsOK, Writers, Proceed, Steps, Genesis
    <2>4. QED
      BY <1>0, <1>5, <2>1, <2>2, <2>3 DEF Seal, SealOf, FileOK, SealedOK, file
  <1>6. ASSUME NEW a \in Agents, ReadHashes(a)
        PROVE  FileOK' /\ AgentsOK' /\ SealedOK'
    <2>1. Hashes \in Seq(Nat)
      BY <1>0, HashesType DEF Hashes, FileOK
    <2>2. AgentsOK'
      BY <1>0, <1>6, <2>1 DEF ReadHashes, AgentsOK, Writers, Proceed, Steps, sealed
    <2>3. QED
      BY <1>0, <1>6, <2>2 DEF ReadHashes, FileOK, SealedOK, file, sealed
  <1>7. ASSUME NEW a \in Agents, CheckRoots(a)
        PROVE  FileOK' /\ AgentsOK' /\ SealedOK'
    <2>1. AgentsOK'
      BY <1>0, <1>7, DoneOK DEF CheckRoots, Writers
    <2>2. QED
      BY <1>0, <1>7, <2>1 DEF CheckRoots, FileOK, SealedOK, file
  <1>8. ASSUME NEW a \in Agents, Stop(a)
        PROVE  FileOK' /\ AgentsOK' /\ SealedOK'
    <2>1. AgentsOK'
      BY <1>0, <1>8, DoneOK DEF Stop, sealed
    <2>2. QED
      BY <1>0, <1>8, <2>1 DEF Stop, FileOK, SealedOK, file, sealed
  <1>9. CASE UNCHANGED logVars
    BY <1>0, <1>9 DEF logVars, FileOK, AgentsOK, SealedOK
  <1>10. QED
    BY <1>1, <1>2, <1>3, <1>4, <1>5, <1>6, <1>7, <1>8, <1>9 DEF LogNext
-----------------------------------------------------------------------------
(* The chain. *)

(* A step that writes nothing keeps a chain that is whole. *)
LEMMA FileUnchanged ==
    ASSUME ChainIntact, UNCHANGED <<records, cuts>>
    PROVE  ChainIntact'
  BY DEF ChainIntact, ChainValid, Before

(* What goes on from the end of the file prolongs the chain. *)
LEMMA ChainGrows ==
    ASSUME LogTypeOK, ChainIntact, cuts = 0, end = "line",
           NEW a \in Agents, tail[a] = LastRecord,
           records' = Append(records, NewRecord(a))
    PROVE  ChainIntact'
  <1> DEFINE n == Len(records)
             r == NewRecord(a)
  <1>1. records \in Seq(Records) /\ r \in Records /\ n \in Nat
    BY NewRecordType DEF LogTypeOK
  <1>2. /\ Len(records') = n + 1
        /\ \A i \in 1..n : records'[i] = records[i]
        /\ records'[n + 1] = r
    BY <1>1, AppendProperties
  <1>3. r.prev = tail[a].hash /\ r.seq = tail[a].seq + 1
    BY DEF NewRecord
  <1>4. CASE records = <<>>
    <2>1. n = 0 /\ r.prev = Genesis /\ r.seq = 1
      BY <1>3, <1>4 DEF LastRecord, ChainStart, Genesis
    <2>2. QED
      BY <1>2, <2>1 DEF ChainIntact, ChainValid, Before
  <1>5. CASE records # <<>>
    <2>1. n \in 1..n /\ r.prev = records[n].hash /\ r.seq = records[n].seq + 1
      BY <1>1, <1>3, <1>5 DEF LastRecord
    <2>2. \A i \in 1..n : records[i].prev = Before(i) /\ records[i].seq = i
      BY DEF ChainIntact, ChainValid
    <2>3. \A i \in 1..n + 1 : records'[i].prev = Before(i)' /\ records'[i].seq = i
      <3> SUFFICES ASSUME NEW i \in 1..n + 1
                   PROVE  records'[i].prev = Before(i)' /\ records'[i].seq = i
        OBVIOUS
      <3>1. CASE i \in 1..n
        <4>1. i = 1 \/ i - 1 \in 1..n
          BY <1>1, <3>1
        <4>2. Before(i)' = Before(i)
          BY <1>2, <4>1 DEF Before
        <4>3. QED
          BY <1>2, <2>2, <3>1, <4>2
      <3>2. CASE i = n + 1
        <4>1. i # 1 /\ i - 1 = n
          BY <1>1, <2>1, <3>2
        <4>2. Before(i)' = records[n].hash
          BY <1>2, <2>1, <4>1 DEF Before
        <4>3. QED
          BY <1>2, <2>1, <2>2, <3>2, <4>2
      <3>3. QED
        BY <1>1, <3>1, <3>2
    <2>4. QED
      BY <1>2, <2>3 DEF ChainIntact, ChainValid
  <1>6. QED
    BY <1>4, <1>5

(* Every step of a log without a cut keeps the chain, the seals and what   *)
(* the holder of the lock knows.                                           *)
LEMMA ChainStep ==
    ASSUME IInv, [LogNext]_logVars, cuts' = 0
    PROVE  Whole' /\ ChainIntact' /\ SealsReproduce'
  <1>0. LogTypeOK /\ Whole /\ ChainIntact /\ SealsReproduce
    BY DEF IInv
  <1>1. ASSUME NEW a \in Agents, ReadTail(a)
        PROVE  Whole' /\ ChainIntact' /\ SealsReproduce'
    <2>1. UNCHANGED <<records, end, cuts, roots>>
      BY <1>1 DEF ReadTail, file, sealed
    <2>2. \A b \in Agents : step[b] \notin Writers
      BY <1>0, <1>1, <2>1, AuditAssumption DEF ReadTail, Whole
    <2>3. Whole'
      BY <1>0, <1>1, <2>1, <2>2 DEF ReadTail, LogTypeOK, Whole, Writers, Proceed, LastRecord
    <2>4. QED
      BY <1>0, <2>1, <2>3, FileUnchanged DEF SealsReproduce, Hashes
  <1>2. ASSUME NEW a \in Agents, Write(a)
        PROVE  Whole' /\ ChainIntact' /\ SealsReproduce'
    <2>1. cuts = 0 /\ end = "line" /\ step[a] \in Writers /\ lock = a /\ tail[a] = LastRecord
      BY <1>0, <1>2 DEF Write, Whole, Writers
    <2>2. records' = Append(records, NewRecord(a)) /\ end' = "line"
      BY <1>2, <2>1 DEF Write, Put, PutEnding
    <2>3. \A b \in Agents : step'[b] \notin Writers
      <3>1. step' = [step EXCEPT ![a] = "idle"]
        BY <1>2 DEF Write, Done, Proceed
      <3>2. \A b \in Agents \ {a} : step[b] \notin Writers
        BY <1>0, <2>1 DEF Whole
      <3>3. QED
        BY <1>0, <3>1, <3>2 DEF LogTypeOK, Writers
    <2>4. SealsReproduce'
      <3>1. NewRecord(a) \in Records /\ records \in Seq(Records)
        BY <1>0, NewRecordType DEF LogTypeOK
      <3>2. Hashes' = Append(Hashes, NewRecord(a).hash)
        BY <2>2, <3>1, HashesGrow
      <3>3. Hashes \in Seq(Nat) /\ NewRecord(a).hash \in Nat
        BY <3>1, HashesType DEF Hashes, Records
      <3>4. \A r \in roots : r.events \in Nat /\ Reproduces(Hashes, r)
        BY <1>0, <2>1 DEF LogTypeOK, SealsReproduce
      <3>5. \A r \in roots : Reproduces(Append(Hashes, NewRecord(a).hash), r)
        BY <3>3, <3>4, LongerReproduces
      <3>6. roots' = roots
        BY <1>2 DEF Write, sealed
      <3>7. QED
        BY <3>2, <3>5, <3>6 DEF SealsReproduce, Reproduces
    <2>5. QED
      BY <1>0, <2>1, <2>2, <2>3, <2>4, ChainGrows DEF Whole
  <1>3. ASSUME NEW a \in Agents, Cut(a)
        PROVE  FALSE
    BY <1>0, <1>3 DEF Cut, LogTypeOK
  <1>4. ASSUME NEW a \in Agents, VerifyChain(a)
        PROVE  Whole' /\ ChainIntact' /\ SealsReproduce'
    <2>1. UNCHANGED <<records, end, cuts, roots>>
      BY <1>4 DEF VerifyChain, file, sealed
    <2>2. Whole'
      BY <1>0, <1>4, <2>1 DEF VerifyChain, LogTypeOK, Whole, Writers, Proceed, LastRecord
    <2>3. QED
      BY <1>0, <2>1, <2>2, FileUnchanged DEF SealsReproduce, Hashes
  <1>5. ASSUME NEW a \in Agents, Seal(a)
        PROVE  Whole' /\ ChainIntact' /\ SealsReproduce'
    <2> DEFINE root == [events |-> Len(records), head |-> head[a], merkle |-> MerkleRoot(Hashes)]
    <2>1. UNCHANGED <<records, end, cuts>> /\ roots' = roots \cup {root}
      BY <1>5 DEF Seal, SealOf, file
    <2>2. Whole'
      BY <1>0, <1>5, <2>1 DEF Seal, SealOf, LogTypeOK, Whole, Writers, Proceed, LastRecord
    <2>3. Reproduces(Hashes, root)
      <3>1. Hashes \in Seq(Nat) /\ Len(Hashes) = Len(records)
        BY <1>0, HashesType DEF LogTypeOK, Hashes
      <3>2. SubSeq(Hashes, 1, Len(records)) = Hashes /\ Len(Hashes) >= Len(records)
        BY <3>1, SubSeqFull
      <3>3. QED
        BY <3>2 DEF Reproduces
    <2> HIDE DEF root
    <2>4. SealsReproduce'
      BY <1>0, <2>1, <2>3 DEF SealsReproduce, Reproduces, Hashes
    <2>5. QED
      BY <1>0, <2>1, <2>2, <2>4, FileUnchanged
  <1>6. ASSUME NEW a \in Agents, Done(a), UNCHANGED <<records, end, cuts, roots>>,
               Unlock(a) \/ UNCHANGED lock
        PROVE  Whole' /\ ChainIntact' /\ SealsReproduce'
    <2>1. Whole'
      BY <1>0, <1>6 DEF LogTypeOK, Whole, Writers, Unlock, Done, Proceed, LastRecord
    <2>2. QED
      BY <1>0, <1>6, <2>1, FileUnchanged DEF SealsReproduce, Hashes
  <1>7. ASSUME NEW a \in Agents, CheckRoots(a) \/ Stop(a)
        PROVE  Whole' /\ ChainIntact' /\ SealsReproduce'
    BY <1>6, <1>7 DEF CheckRoots, Stop, file, sealed
  <1>8. ASSUME NEW a \in Agents, ReadHashes(a)
        PROVE  Whole' /\ ChainIntact' /\ SealsReproduce'
    <2>1. UNCHANGED <<records, end, cuts, roots>>
      BY <1>8 DEF ReadHashes, file, sealed
    <2>2. Whole'
      BY <1>0, <1>8, <2>1 DEF ReadHashes, LogTypeOK, Whole, Writers, Proceed, LastRecord
    <2>3. QED
      BY <1>0, <2>1, <2>2, FileUnchanged DEF SealsReproduce, Hashes
  <1>9. CASE UNCHANGED logVars
    BY <1>0, <1>9, FileUnchanged DEF logVars, Whole, LastRecord, SealsReproduce, Hashes
  <1>10. QED
    BY <1>1, <1>2, <1>3, <1>4, <1>5, <1>7, <1>8, <1>9 DEF LogNext
-----------------------------------------------------------------------------
(* The theorems. *)

LEMMA Inductive == LogSpec => []IInv
  <1>1. LogInit => IInv
    BY TypeInit
  <1>2. IInv /\ [LogNext]_logVars => IInv'
    <2> SUFFICES ASSUME IInv, [LogNext]_logVars
                 PROVE  IInv'
      OBVIOUS
    <2>1. LogTypeOK'
      BY TypeStep DEF IInv
    <2>2. CASE cuts' = 0
      BY <2>1, <2>2, ChainStep DEF IInv
    <2>3. CASE cuts' # 0
      BY <2>1, <2>3 DEF IInv, Whole, ChainIntact, SealsReproduce
    <2>4. QED
      BY <2>2, <2>3
  <1>3. QED
    BY <1>1, <1>2, PTL DEF LogSpec

(* The log's variables keep their types, the lock is held by one that is   *)
(* writing, and no record is spoken of before it was written.              *)
THEOREM TypeCorrect == LogSpec => []LogTypeOK
  <1>1. IInv => LogTypeOK
    BY DEF IInv
  <1>2. QED
    BY <1>1, Inductive, PTL

(* However many threads and processes append, the records form one chain   *)
(* numbered without a gap while no write is cut short (AuditLog.record).   *)
THEOREM OneChain == LogSpec => []ChainIntact
  <1>1. IInv => ChainIntact
    BY DEF IInv
  <1>2. QED
    BY <1>1, Inductive, PTL

(* Whatever is appended after or during a seal, the log goes on to         *)
(* reproduce it (AuditSeal.seal, AuditSeal.verify).                        *)
THEOREM SealsStayGood == LogSpec => []SealsReproduce
  <1>1. IInv => SealsReproduce
    BY DEF IInv
  <1>2. QED
    BY <1>1, Inductive, PTL
-----------------------------------------------------------------------------
(* What cut writes cost.  Every lost record and every break has a cut to   *)
(* itself, and a file that ends in the middle of a line has one in hand:   *)
(* for the record that will go on the same line, and for the break where   *)
(* the chain then starts over.                                             *)

Lost   == written \ {records[i].hash : i \in 1..Len(records)}
Breaks == {i \in 1..Len(records) : records[i].prev # Before(i)}

(* Whoever writes holds the lock, and knows the end of the file, cut or    *)
(* not.                                                                    *)
HolderKnows ==
    \A a \in Agents : step[a] \in Writers => lock = a /\ tail[a] = LastRecord

(* A record that lacks its newline was never reported written. *)
Unreported ==
    end = "whole" => records # <<>> /\ records[Len(records)].hash \notin written

LossPaidFor ==
    /\ Cardinality(Lost) <= cuts
    /\ end \in {"part", "whole"} => Cardinality(Lost) + 1 <= cuts

BreaksPaidFor ==
    /\ Cardinality(Breaks) <= cuts
    /\ end # "line" => Cardinality(Breaks) + 1 <= cuts

DamageInv == LogTypeOK /\ HolderKnows /\ Unreported /\ LossPaidFor /\ BreaksPaidFor

(* A set grown by at most one element has at most one more. *)
LEMMA AtMostOneMore ==
    ASSUME NEW S, NEW T, NEW x, IsFiniteSet(S), T \subseteq S \cup {x}
    PROVE  /\ IsFiniteSet(T)
           /\ Cardinality(T) \in Nat /\ Cardinality(S) \in Nat
           /\ Cardinality(T) <= Cardinality(S) + 1
           /\ T \subseteq S => Cardinality(T) <= Cardinality(S)
  <1>1. IsFiniteSet(S \cup {x}) /\ Cardinality(S \cup {x}) <= Cardinality(S) + 1
    <2>1. Cardinality(S) \in Nat
      BY FS_CardinalityType
    <2>2. QED
      BY <2>1, FS_AddElement
  <1>2. IsFiniteSet(T) /\ Cardinality(T) <= Cardinality(S \cup {x})
    BY <1>1, FS_Subset
  <1>3. T \subseteq S => Cardinality(T) <= Cardinality(S)
    BY FS_Subset
  <1>4. Cardinality(T) \in Nat /\ Cardinality(S) \in Nat /\ Cardinality(S \cup {x}) \in Nat
    BY <1>1, <1>2, FS_CardinalityType
  <1>5. QED
    BY <1>1, <1>2, <1>3, <1>4

(* What is lost and what is broken can be counted. *)
LEMMA Countable ==
    ASSUME LogTypeOK
    PROVE  /\ IsFiniteSet(Lost) /\ Cardinality(Lost) \in Nat
           /\ IsFiniteSet(Breaks) /\ Cardinality(Breaks) \in Nat
  <1>1. IsFiniteSet(1..issued) /\ IsFiniteSet(1..Len(records))
    BY FS_Interval DEF LogTypeOK
  <1>2. Lost \subseteq 1..issued /\ Breaks \subseteq 1..Len(records)
    BY DEF LogTypeOK, Lost, Breaks
  <1>3. IsFiniteSet(Lost) /\ IsFiniteSet(Breaks)
    BY <1>1, <1>2, FS_Subset
  <1>4. QED
    BY <1>3, FS_CardinalityType

(* A record put at the end is not lost, and breaks the chain only there    *)
(* and only if it does not go on from the record before it.                *)
LEMMA AppendDamage ==
    ASSUME LogTypeOK, NEW r \in Records, records' = Append(records, r)
    PROVE  /\ Lost' \subseteq (Lost \cup (written' \ written)) \ {r.hash}
           /\ Breaks' \subseteq Breaks \cup {Len(records) + 1}
           /\ (end \notin {"junk", "part"} /\ r.prev = LastRecord.hash) => Breaks' \subseteq Breaks
  <1> DEFINE n == Len(records)
  <1>1. records \in Seq(Records) /\ n \in Nat
    BY DEF LogTypeOK
  <1>2. /\ Len(records') = n + 1
        /\ \A i \in 1..n : records'[i] = records[i]
        /\ records'[n + 1] = r
    BY <1>1, AppendProperties
  <1>3. Lost' \subseteq (Lost \cup (written' \ written)) \ {r.hash}
    <2>1. 1..n \subseteq 1..n + 1 /\ n + 1 \in 1..n + 1
      BY <1>1
    <2>2. \A i \in 1..n : records[i].hash \in {records'[j].hash : j \in 1..n + 1}
      BY <1>2, <2>1
    <2>3. r.hash \in {records'[j].hash : j \in 1..n + 1}
      BY <1>2, <2>1
    <2>4. QED
      BY <1>2, <2>2, <2>3 DEF Lost
  <1>4. \A i \in 1..n : Before(i)' = Before(i)
    <2> SUFFICES ASSUME NEW i \in 1..n PROVE Before(i)' = Before(i)
      OBVIOUS
    <2>1. i = 1 \/ i - 1 \in 1..n
      BY <1>1
    <2>2. QED
      BY <1>2, <2>1 DEF Before
  <1>5. \A i \in Breaks' : i \in 1..n \/ i = n + 1
    BY <1>1, <1>2 DEF Breaks
  <1>6. \A i \in Breaks' : i \in 1..n => i \in Breaks
    BY <1>2, <1>4 DEF Breaks
  <1>7. ASSUME end \notin {"junk", "part"}, r.prev = LastRecord.hash, NEW k \in {n + 1}
        PROVE  k \notin Breaks'
    <2>1. CASE records = <<>>
      <3>1. k = 1 /\ n + 1 = 1 /\ r.prev = Genesis
        BY <1>7, <2>1 DEF LastRecord, ChainStart
      <3>2. Before(k)' = Genesis
        BY <3>1 DEF Before, Genesis
      <3>3. QED
        BY <1>2, <1>7, <3>1, <3>2 DEF Breaks
    <2>2. CASE records # <<>>
      <3>1. n \in 1..n /\ k # 1 /\ k - 1 = n /\ k = n + 1 /\ r.prev = records[n].hash
        BY <1>1, <1>7, <2>2 DEF LastRecord
      <3>2. Before(k)' = records'[n].hash
        BY <3>1 DEF Before
      <3>3. QED
        BY <1>2, <3>1, <3>2 DEF Breaks
    <2>3. QED
      BY <2>1, <2>2
  <1>8. QED
    BY <1>3, <1>5, <1>6, <1>7

(* A file that loses an unreported record loses nothing else, and breaks   *)
(* nowhere new.                                                            *)
LEMMA DropDamage ==
    ASSUME LogTypeOK, records # <<>>, records[Len(records)].hash \notin written,
           records' = SubSeq(records, 1, Len(records) - 1)
    PROVE  /\ Lost' \subseteq Lost \cup (written' \ written)
           /\ Breaks' \subseteq Breaks
  <1> DEFINE n == Len(records)
  <1>1. records \in Seq(Records) /\ n \in Nat /\ n >= 1
    BY DEF LogTypeOK
  <1>0. /\ n - 1 \in Int /\ 1 \in Int /\ (n - 1) - 1 + 1 = n - 1
        /\ 1 <= n - 1 \/ n - 1 = 0
    <2> HIDE DEF n
    <2>1. QED
      BY <1>1
  <1>2. /\ Len(records') = n - 1
        /\ \A i \in 1..n - 1 : records'[i] = records[i]
    <2>1. \A i \in 1..n - 1 : records[i] \in Records /\ 1 + i - 1 = i
      BY <1>1
    <2> DEFINE m == n - 1
    <2> HIDE DEF m
    <2>3. /\ Len(SubSeq(records, 1, m)) = (IF 1 <= m THEN m - 1 + 1 ELSE 0)
          /\ \A i \in 1..m - 1 + 1 : SubSeq(records, 1, m)[i] = records[1 + i - 1]
      BY <1>0, <2>1, SubSeqProperties DEF m
    <2>4. m \in Nat /\ records' = SubSeq(records, 1, m) /\ m = n - 1 /\ m - 1 + 1 = m
      BY <1>0, <1>1 DEF m
    <2>5. Len(records') = m /\ \A i \in 1..m : records'[i] = records[i]
      BY <2>1, <2>3, <2>4
    <2>6. QED
      BY <2>4, <2>5
  <1>3. \A i \in 1..n : i \in 1..n - 1 \/ i = n
    BY <1>1
  <1>4. Lost' \subseteq Lost \cup (written' \ written)
    <2>1. \A i \in 1..n - 1 : records[i].hash \in {records'[j].hash : j \in 1..n - 1}
      BY <1>2
    <2>2. \A w \in written : w \in {records[i].hash : i \in 1..n} =>
                             w \in {records'[j].hash : j \in 1..n - 1}
      BY <1>3, <2>1
    <2>3. QED
      BY <1>2, <2>2 DEF Lost
  <1>5. \A i \in 1..n - 1 : Before(i)' = Before(i) /\ i \in 1..n
    <2> SUFFICES ASSUME NEW i \in 1..n - 1 PROVE Before(i)' = Before(i) /\ i \in 1..n
      OBVIOUS
    <2>1. i \in 1..n /\ (i = 1 \/ i - 1 \in 1..n - 1)
      BY <1>1
    <2>2. QED
      BY <1>2, <2>1 DEF Before
  <1>6. Breaks' \subseteq Breaks
    BY <1>2, <1>5 DEF Breaks
  <1>7. QED
    BY <1>4, <1>6

(* A file that stays and nothing reported written keep what is paid for. *)
LEMMA DamageUnchanged ==
    ASSUME LossPaidFor, BreaksPaidFor, Unreported, UNCHANGED <<records, end, written, cuts>>
    PROVE  LossPaidFor' /\ BreaksPaidFor' /\ Unreported'
  BY DEF LossPaidFor, BreaksPaidFor, Unreported, Lost, Breaks, Before

(* The record that goes on the same line as an unfinished one is lost, and *)
(* nothing else.                                                           *)
LEMMA PutCosts ==
    ASSUME DamageInv, NEW a \in Agents, Write(a)
    PROVE  LossPaidFor' /\ BreaksPaidFor' /\ Unreported'
  <1> DEFINE r == NewRecord(a)
  <1>1. r \in Records /\ r.hash = issued + 1 /\ r.prev = tail[a].hash
    BY NewRecordType DEF DamageInv, NewRecord
  <1>2. /\ LogTypeOK /\ LossPaidFor /\ BreaksPaidFor /\ Unreported /\ cuts \in Nat
        /\ tail[a] = LastRecord
    BY DEF DamageInv, HolderKnows, Write, Writers, LogTypeOK
  <1>3. cuts' = cuts /\ written' \ written \subseteq {r.hash} /\ Put(r)
    BY <1>1 DEF Write
  <1>4. IsFiniteSet(Lost) /\ IsFiniteSet(Breaks)
    BY <1>2, Countable
  <1> HIDE DEF r
  <1>5. CASE end \in {"line", "junk"}
    <2>1. records' = Append(records, r) /\ end' = "line"
      BY <1>3, <1>5 DEF Put, PutEnding
    <2>2. Lost' \subseteq Lost
      BY <1>1, <1>2, <1>3, <2>1, AppendDamage
    <2>3. /\ Breaks' \subseteq Breaks \cup {Len(records) + 1}
          /\ end = "line" => Breaks' \subseteq Breaks
      BY <1>1, <1>2, <2>1, AppendDamage
    <2>4. Cardinality(Lost') <= Cardinality(Lost) /\ Cardinality(Lost') \in Nat /\ Cardinality(Lost) \in Nat
      BY <1>4, <2>2, AtMostOneMore
    <2>5. /\ Cardinality(Breaks') <= Cardinality(Breaks) + 1
          /\ end = "line" => Cardinality(Breaks') <= Cardinality(Breaks)
          /\ Cardinality(Breaks') \in Nat /\ Cardinality(Breaks) \in Nat
      BY <1>4, <2>3, AtMostOneMore
    <2>6. LossPaidFor'
      BY <1>2, <1>3, <2>1, <2>4 DEF LossPaidFor
    <2>7. BreaksPaidFor'
      BY <1>2, <1>3, <1>5, <2>1, <2>5 DEF BreaksPaidFor
    <2>8. QED
      BY <2>1, <2>6, <2>7 DEF Unreported
  <1>6. CASE end \notin {"line", "junk"}
    <2>1. end' = "junk" /\ end \in {"part", "whole"}
      BY <1>2, <1>3, <1>6 DEF Put, PutEnding, LogTypeOK
    <2>2. Lost' \subseteq Lost \cup {r.hash} /\ Breaks' \subseteq Breaks
      <3>1. CASE end = "whole"
        <4>1. records' = SubSeq(records, 1, Len(records) - 1)
          BY <1>3, <1>6, <3>1 DEF Put, PutEnding
        <4>2. Lost' \subseteq Lost \cup (written' \ written) /\ Breaks' \subseteq Breaks
          BY <1>2, <3>1, <4>1, DropDamage DEF Unreported
        <4>3. QED
          BY <1>3, <4>2
      <3>2. CASE end = "part"
        <4>1. records' = records
          BY <1>3, <3>2 DEF Put, PutEnding
        <4>2. QED
          BY <1>3, <4>1 DEF Lost, Breaks, Before
      <3>3. QED
        BY <2>1, <3>1, <3>2
    <2>3. Cardinality(Lost') <= Cardinality(Lost) + 1 /\ Cardinality(Lost') \in Nat /\ Cardinality(Lost) \in Nat
      BY <1>4, <2>2, AtMostOneMore
    <2>4. Cardinality(Breaks') <= Cardinality(Breaks) /\ Cardinality(Breaks') \in Nat /\ Cardinality(Breaks) \in Nat
      BY <1>4, <2>2, AtMostOneMore
    <2>5. LossPaidFor'
      BY <1>2, <1>3, <2>1, <2>3 DEF LossPaidFor
    <2>6. BreaksPaidFor'
      BY <1>2, <1>3, <2>1, <2>4 DEF BreaksPaidFor
    <2>7. QED
      BY <2>1, <2>5, <2>6 DEF Unreported
  <1>7. QED
    BY <1>5, <1>6

(* A cut pays for what it breaks itself and for what it leaves behind. *)
LEMMA CutCosts ==
    ASSUME DamageInv, NEW a \in Agents, Cut(a)
    PROVE  LossPaidFor' /\ BreaksPaidFor' /\ Unreported'
  <1> DEFINE r == NewRecord(a)
  <1>1. r \in Records /\ r.hash = issued + 1 /\ r.prev = tail[a].hash
    BY NewRecordType DEF DamageInv, NewRecord
  <1>2. /\ LogTypeOK /\ LossPaidFor /\ BreaksPaidFor /\ Unreported /\ cuts \in Nat
        /\ tail[a] = LastRecord /\ r.hash \notin written /\ records \in Seq(Records)
    BY <1>1 DEF DamageInv, HolderKnows, Cut, Writers, LogTypeOK
  <1>3. cuts' = cuts + 1 /\ written' = written
    BY DEF Cut
  <1>4. IsFiniteSet(Lost) /\ IsFiniteSet(Breaks)
    BY <1>2, Countable
  <1>5. \/ /\ end' = "part"
           /\ records' = IF end = "whole" THEN SubSeq(records, 1, Len(records) - 1) ELSE records
        \/ /\ end \in {"line", "junk"} /\ end' = "whole"
           /\ records' = Append(records, r)
    BY DEF Cut
  <1> HIDE DEF r
  <1>6. /\ Lost' \subseteq Lost
        /\ Breaks' \subseteq Breaks \cup {Len(records) + 1}
        /\ end = "line" => Breaks' \subseteq Breaks
        /\ Unreported'
    <2>1. CASE end' = "part" /\ end = "whole"
      <3>1. Lost' \subseteq Lost /\ Breaks' \subseteq Breaks
        BY <1>2, <1>3, <1>5, <2>1, DropDamage DEF Unreported
      <3>2. QED
        BY <2>1, <3>1 DEF Unreported
    <2>2. CASE end' = "part" /\ end # "whole"
      <3>1. records' = records
        BY <1>5, <2>2
      <3>2. QED
        BY <1>3, <2>2, <3>1 DEF Lost, Breaks, Before, Unreported
    <2>3. CASE end' # "part"
      <3>1. end \in {"line", "junk"} /\ records' = Append(records, r)
        BY <1>5, <2>3
      <3>2. Lost' \subseteq Lost
        BY <1>1, <1>2, <1>3, <3>1, AppendDamage
      <3>3. /\ Breaks' \subseteq Breaks \cup {Len(records) + 1}
            /\ end = "line" => Breaks' \subseteq Breaks
        BY <1>1, <1>2, <3>1, AppendDamage
      <3>4. records' # <<>> /\ records'[Len(records')] = r
        BY <1>1, <1>2, <3>1, AppendProperties
      <3>5. QED
        BY <1>2, <1>3, <3>2, <3>3, <3>4 DEF Unreported
    <2>4. QED
      BY <2>1, <2>2, <2>3
  <1>7. Cardinality(Lost') <= Cardinality(Lost) /\ Cardinality(Lost') \in Nat /\ Cardinality(Lost) \in Nat
    BY <1>4, <1>6, AtMostOneMore
  <1>8. /\ Cardinality(Breaks') <= Cardinality(Breaks) + 1
        /\ end = "line" => Cardinality(Breaks') <= Cardinality(Breaks)
        /\ Cardinality(Breaks') \in Nat /\ Cardinality(Breaks) \in Nat
    BY <1>4, <1>6, AtMostOneMore
  <1>9. LossPaidFor'
    BY <1>2, <1>3, <1>7 DEF LossPaidFor
  <1>10. BreaksPaidFor'
    BY <1>2, <1>3, <1>8 DEF BreaksPaidFor
  <1>11. QED
    BY <1>6, <1>9, <1>10

(* Whoever starts to write finds the lock free and reads the end of the    *)
(* file, which then stays as it is until that one has written.             *)
LEMMA HolderStep ==
    ASSUME LogTypeOK, HolderKnows, [LogNext]_logVars
    PROVE  HolderKnows'
  <1>1. ASSUME NEW a \in Agents, ReadTail(a)
        PROVE  HolderKnows'
    <2>1. \A b \in Agents : step[b] \notin Writers
      BY <1>1, AuditAssumption DEF ReadTail, HolderKnows
    <2>2. LastRecord' = LastRecord
      BY <1>1 DEF ReadTail, file, LastRecord
    <2>3. QED
      BY <1>1, <2>1, <2>2 DEF ReadTail, LogTypeOK, HolderKnows, Writers, Proceed
  <1>2. ASSUME NEW a \in Agents, Write(a) \/ Cut(a)
        PROVE  HolderKnows'
    <2>1. step[a] \in Writers /\ step' = [step EXCEPT ![a] = "idle"]
      BY <1>2 DEF Write, Cut, Writers, Done, Proceed
    <2>2. \A b \in Agents : step'[b] \notin Writers
      BY <2>1 DEF LogTypeOK, HolderKnows, Writers
    <2>3. QED
      BY <2>2 DEF HolderKnows
  <1>3. ASSUME UNCHANGED <<records, end>>,
               \A b \in Agents : step'[b] \in Writers =>
                  step[b] \in Writers /\ tail'[b] = tail[b] /\ lock' = lock
        PROVE  HolderKnows'
    BY <1>3 DEF HolderKnows, LastRecord
  <1>4. ASSUME NEW a \in Agents, VerifyChain(a) \/ Seal(a) \/ ReadHashes(a)
        PROVE  HolderKnows'
    BY <1>3, <1>4 DEF VerifyChain, Seal, SealOf, ReadHashes, LogTypeOK, Writers, Proceed, file
  <1>5. ASSUME NEW a \in Agents, CheckRoots(a) \/ Stop(a)
        PROVE  HolderKnows'
    <2>1. /\ step' = [step EXCEPT ![a] = "idle"] /\ tail' = [tail EXCEPT ![a] = ChainStart]
          /\ lock' = lock \/ lock' = IF lock = a THEN Nobody ELSE lock
      BY <1>5 DEF CheckRoots, Stop, Done, Proceed, Unlock
    <2>2. \A b \in Agents : step'[b] \in Writers =>
             step[b] \in Writers /\ tail'[b] = tail[b] /\ lock' = lock
      BY <2>1 DEF LogTypeOK, HolderKnows, Writers
    <2>3. QED
      BY <1>3, <1>5, <2>2 DEF CheckRoots, Stop, file
  <1>6. CASE UNCHANGED logVars
    BY <1>3, <1>6 DEF logVars
  <1>7. QED
    BY <1>1, <1>2, <1>4, <1>5, <1>6 DEF LogNext

(* Every step keeps what is lost and what is broken paid for. *)
LEMMA DamageStep == DamageInv /\ [LogNext]_logVars => DamageInv'
  <1> SUFFICES ASSUME DamageInv, [LogNext]_logVars
               PROVE  DamageInv'
    OBVIOUS
  <1>1. LogTypeOK' /\ HolderKnows'
    BY TypeStep, HolderStep DEF DamageInv
  <1>2. ASSUME records' = records, end' = end, written' = written, cuts' = cuts
        PROVE  LossPaidFor' /\ BreaksPaidFor' /\ Unreported'
    BY <1>2, DamageUnchanged DEF DamageInv
  <1>3. ASSUME NEW a \in Agents, ReadTail(a) \/ VerifyChain(a) \/ Seal(a) \/ ReadHashes(a)
                                 \/ CheckRoots(a) \/ Stop(a)
        PROVE  LossPaidFor' /\ BreaksPaidFor' /\ Unreported'
    <2>1. records' = records /\ end' = end /\ written' = written /\ cuts' = cuts
      BY <1>3 DEF ReadTail, VerifyChain, Seal, SealOf, ReadHashes, CheckRoots, Stop, file
    <2>2. QED
      BY <1>2, <2>1
  <1>4. ASSUME UNCHANGED logVars
        PROVE  LossPaidFor' /\ BreaksPaidFor' /\ Unreported'
    <2>1. records' = records /\ end' = end /\ written' = written /\ cuts' = cuts
      BY <1>4 DEF logVars
    <2>2. QED
      BY <1>2, <2>1
  <1>5. LossPaidFor' /\ BreaksPaidFor' /\ Unreported'
    BY <1>3, <1>4, PutCosts, CutCosts DEF LogNext
  <1>6. QED
    BY <1>1, <1>5 DEF DamageInv

LEMMA DamageInit == LogInit => DamageInv
  <1> SUFFICES ASSUME LogInit PROVE DamageInv
    OBVIOUS
  <1>1. LogTypeOK
    BY TypeInit DEF IInv
  <1>2. Lost = {} /\ Breaks = {}
    BY DEF LogInit, Lost, Breaks
  <1>3. Cardinality(Lost) = 0 /\ Cardinality(Breaks) = 0
    BY <1>2, FS_EmptySet
  <1>4. QED
    BY <1>1, <1>3 DEF LogInit, DamageInv, HolderKnows, Unreported, LossPaidFor, BreaksPaidFor, Writers

(* However many processes append and wherever a write is cut short, a cut  *)
(* costs at most one record that was reported written and breaks the chain *)
(* in at most one place (AuditLog._tail, AuditLog._iter_raw).              *)
THEOREM CutsAreContained == LogSpec => []DamageIsBounded
  <1>1. LogInit => DamageInv
    BY DamageInit
  <1>2. DamageInv /\ [LogNext]_logVars => DamageInv'
    BY DamageStep
  <1>3. DamageInv => DamageIsBounded
    BY DEF DamageInv, LossPaidFor, BreaksPaidFor, Lost, Breaks, DamageIsBounded
  <1>4. QED
    BY <1>1, <1>2, <1>3, PTL DEF LogSpec
-----------------------------------------------------------------------------
(* The log implements the ledger: each write adds, loses or fails to add   *)
(* the entry that comes next, which is the one its agent prepared because  *)
(* the end it read is still the end; each seal is of the log there is; and *)
(* every other step is of something the ledger does not show.              *)
SealsOf(rs) == {[events |-> r.events, merkle |-> r.merkle] : r \in rs}

LEMMA SealsGrow ==
    ASSUME NEW rs, NEW root
    PROVE  SealsOf(rs \cup {root}) = SealsOf(rs) \cup {[events |-> root.events, merkle |-> root.merkle]}
  BY DEF SealsOf

(* Nothing the ledger shows has changed. *)
LEMMA LedgerRests ==
    ASSUME UNCHANGED <<records, end, issued, written, roots>>
    PROVE  UNCHANGED LG!ledgerVars
  BY DEF LG!ledgerVars

LEMMA LedgerStarts == LogInit => LG!LedgerInit
  BY DEF LogInit, LG!LedgerInit

(* The entry that comes next is the one the holder of the lock prepared. *)
LEMMA NextIs ==
    ASSUME HolderKnows, NEW a \in Agents, step[a] \in Writers, end \in {"line", "junk"}
    PROVE  LG!NextEntry = NewRecord(a)
  <1>1. tail[a] = LastRecord
    BY DEF HolderKnows
  <1>2. LG!LastEntry = LastRecord
    BY DEF LG!LastEntry, LastRecord, ChainStart, Genesis
  <1>3. QED
    BY <1>1, <1>2 DEF LG!NextEntry, NewRecord

LEMMA WriteIsOne ==
    ASSUME HolderKnows, NEW a \in Agents, Write(a), end \in {"line", "junk", "part", "whole"}
    PROVE  LG!AddRecord \/ LG!LoseRecord
  <1>1. step[a] \in Writers
    BY DEF Write, Writers
  <1>2. LG!Use
    BY DEF Write, LG!Use, sealed
  <1>3. written' = written \cup {issued + 1} /\ Put(NewRecord(a))
    BY DEF Write
  <1>4. CASE end \in {"line", "junk"}
    <2>1. records' = Append(records, LG!NextEntry) /\ end' = "line"
      BY <1>1, <1>3, <1>4, NextIs DEF Put, PutEnding
    <2>2. LG!AddRecord
      BY <1>2, <1>3, <1>4, <2>1 DEF LG!AddRecord
    <2>3. QED
      BY <2>2
  <1>5. CASE end \in {"part", "whole"}
    <2>1. records' \in {records, LG!WithoutLast} /\ end' = "junk"
      BY <1>3, <1>5 DEF Put, PutEnding, LG!WithoutLast
    <2>2. LG!LoseRecord
      BY <1>2, <1>3, <1>5, <2>1 DEF LG!LoseRecord
    <2>3. QED
      BY <2>2
  <1>6. QED
    BY <1>4, <1>5

LEMMA CutIsOne ==
    ASSUME HolderKnows, NEW a \in Agents, Cut(a), end \in {"line", "junk", "part", "whole"}
    PROVE  LG!FailToAdd
  <1>1. step[a] \in Writers
    BY DEF Cut, Writers
  <1>2. LG!Use /\ written' = written
    BY DEF Cut, LG!Use, sealed
  <1>3. CASE end' = "part" /\ records' = IF end = "whole" THEN LG!WithoutLast ELSE records
    BY <1>2, <1>3 DEF LG!FailToAdd
  <1>4. CASE end \in {"line", "junk"} /\ end' = "whole" /\ records' = Append(records, NewRecord(a))
    <2>1. records' = Append(records, LG!NextEntry)
      BY <1>1, <1>4, NextIs
    <2>2. QED
      BY <1>2, <1>4, <2>1 DEF LG!FailToAdd
  <1>5. QED
    BY <1>3, <1>4 DEF Cut, LG!WithoutLast

LEMMA SealIsOne ==
    ASSUME NEW a \in Agents, Seal(a)
    PROVE  LG!SealLog
  <1> DEFINE root == [events |-> Len(records), head |-> head[a], merkle |-> MerkleRoot(Hashes)]
             new  == [events |-> Len(records), merkle |-> MerkleRoot(Hashes)]
  <1>1. /\ roots' = roots \cup {root}
        /\ records' = records /\ end' = end /\ issued' = issued /\ written' = written
    BY DEF Seal, SealOf, file
  <1>2. root.events = Len(records) /\ root.merkle = MerkleRoot(Hashes)
    OBVIOUS
  <1>3. SealsOf(roots') = SealsOf(roots) \cup {new}
    <2> HIDE DEF root
    <2>1. QED
      BY <1>1, <1>2, SealsGrow
  <1>4. QED
    BY <1>1, <1>3 DEF LG!SealLog, SealsOf, Hashes

LEMMA LedgerStep == DamageInv /\ [LogNext]_logVars => [LG!LedgerNext]_LG!ledgerVars
  <1> SUFFICES ASSUME DamageInv, [LogNext]_logVars
               PROVE  LG!LedgerNext \/ UNCHANGED LG!ledgerVars
    OBVIOUS
  <1>1. HolderKnows /\ end \in {"line", "junk", "part", "whole"}
    BY DEF DamageInv, LogTypeOK
  <1>2. ASSUME NEW a \in Agents, Write(a) PROVE LG!LedgerNext
    BY <1>1, <1>2, WriteIsOne DEF LG!LedgerNext
  <1>3. ASSUME NEW a \in Agents, Cut(a) PROVE LG!LedgerNext
    BY <1>1, <1>3, CutIsOne DEF LG!LedgerNext
  <1>4. ASSUME NEW a \in Agents, Seal(a) PROVE LG!LedgerNext
    BY <1>4, SealIsOne DEF LG!LedgerNext
  <1>5. ASSUME NEW a \in Agents, ReadTail(a) \/ VerifyChain(a) \/ ReadHashes(a) \/ CheckRoots(a) \/ Stop(a)
        PROVE  UNCHANGED LG!ledgerVars
    <2>1. UNCHANGED <<records, end, issued, written, roots>>
      BY <1>5 DEF ReadTail, VerifyChain, ReadHashes, CheckRoots, Stop, file, sealed
    <2>2. QED
      BY <2>1, LedgerRests
  <1>6. CASE UNCHANGED logVars
    BY <1>6, LedgerRests DEF logVars
  <1>7. QED
    BY <1>2, <1>3, <1>4, <1>5, <1>6 DEF LogNext

(* For any number of processes, whatever is cut short where, recording and *)
(* sealing are as if each were done in one step on the log as it then is   *)
(* (AuditLog.record, AuditSeal.seal).                                      *)
THEOREM LogIsALedger == LogSpec => ImplementsLedger
  <1>1. LogInit => LG!LedgerInit
    BY LedgerStarts
  <1>2. LogInit => DamageInv
    BY DamageInit
  <1>3. DamageInv /\ [LogNext]_logVars => DamageInv'
    BY DamageStep
  <1>4. DamageInv /\ [LogNext]_logVars => [LG!LedgerNext]_LG!ledgerVars
    BY LedgerStep
  <1>5. QED
    BY <1>1, <1>2, <1>3, <1>4, PTL DEF LogSpec, ImplementsLedger, LG!LedgerSpec
-----------------------------------------------------------------------------
(* Merkle trees: the recursive functions satisfy their equations.          *)

(* A set of naturals that is not empty has a least. *)
LEMMA LeastOf ==
    ASSUME NEW S, S \subseteq Nat, S # {}
    PROVE  \E n \in S : \A m \in S : n <= m
  <1>1. PICK n \in S : \A m \in S : ~(<<m, n>> \in OpToRel(<, Nat))
    BY NatLessThanWellFounded, WFMin
  <1>2. ASSUME NEW m \in S, ~(n <= m) PROVE FALSE
    <2>1. m \in Nat /\ n \in Nat /\ m < n
      BY <1>2
    <2>2. <<m, n>> \in OpToRel(<, Nat)
      BY <2>1 DEF OpToRel
    <2>3. QED
      BY <1>1, <2>2
  <1>3. QED
    BY <1>2

(* Splitting leaves two smaller trees. *)
LEMMA SplitIn ==
    ASSUME NEW n \in Nat, n > 1
    PROVE  Split(n) \in 1..(n - 1)
  <1> DEFINE powers == {k \in 1..(n - 1) : \E e \in 0..n : k = 2^e}
             left == {n - k : k \in powers}
  <1>1. 2^0 = 1
    OBVIOUS
  <1>2. 1 \in powers
    <2>1. 0 \in 0..n /\ 1 \in 1..(n - 1)
      OBVIOUS
    <2>2. \E e \in 0..n : 1 = 2^e
      BY <1>1, <2>1
    <2>3. QED
      BY <2>1, <2>2
  <1>3. left \subseteq Nat /\ left # {}
    BY <1>2
  <1>4. PICK l \in left : \A m \in left : l <= m
    BY <1>3, LeastOf
  <1>5. PICK k \in powers : l = n - k
    BY <1>4
  <1>6. \A other \in powers : other <= k
    <2>1. SUFFICES ASSUME NEW other \in powers PROVE other <= k
      OBVIOUS
    <2>2. n - other \in left /\ other \in Int /\ k \in Int
      OBVIOUS
    <2>3. n - k <= n - other
      BY <1>4, <1>5, <2>2
    <2>4. QED
      BY <2>2, <2>3
  <1>7. Split(n) \in powers
    BY <1>5, <1>6 DEF Split
  <1>8. QED
    BY <1>7

(* One run of leaves, given the roots of the shorter ones. *)
RootsOf(hashes, g, n) ==
    [lo \in Nat |-> IF n <= 1 THEN Leaf(hashes[lo])
                    ELSE Node(g[Split(n)][lo], g[n - Split(n)][lo + Split(n)])]

RootsUpTo(hashes, g, n) == \A m \in 0..n : g[m] = RootsOf(hashes, g, m)

(* Only shorter runs are looked at. *)
LEMMA RootsLookBack ==
    ASSUME NEW hashes, NEW g, NEW h, NEW n \in Nat, \A m \in 0..(n - 1) : g[m] = h[m]
    PROVE  RootsOf(hashes, g, n) = RootsOf(hashes, h, n)
  <1>1. CASE n <= 1
    BY <1>1 DEF RootsOf
  <1>2. CASE n > 1
    <2>1. Split(n) \in 0..(n - 1) /\ n - Split(n) \in 0..(n - 1)
      BY <1>2, SplitIn
    <2>2. g[Split(n)] = h[Split(n)] /\ g[n - Split(n)] = h[n - Split(n)]
      BY <2>1
    <2>3. QED
      BY <2>2 DEF RootsOf
  <1>3. QED
    BY <1>1, <1>2

(* Two that satisfy the equations have the same roots. *)
LEMMA RootsUnique ==
    ASSUME NEW hashes, NEW g, NEW h, NEW n \in Nat, RootsUpTo(hashes, g, n), RootsUpTo(hashes, h, n)
    PROVE  \A m \in 0..n : g[m] = h[m]
  <1> DEFINE apart == {m \in 0..n : g[m] # h[m]}
  <1>1. SUFFICES ASSUME apart # {} PROVE FALSE
    OBVIOUS
  <1>2. PICK m \in apart : \A k \in apart : m <= k
    <2>1. apart \subseteq Nat
      OBVIOUS
    <2>2. QED
      BY <1>1, <2>1, LeastOf
  <1>3. \A k \in 0..(m - 1) : g[k] = h[k]
    <2>1. SUFFICES ASSUME NEW k \in 0..(m - 1), g[k] # h[k] PROVE FALSE
      OBVIOUS
    <2>2. k \in apart /\ ~(m <= k)
      BY <2>1
    <2>3. QED
      BY <1>2, <2>2
  <1>4. RootsOf(hashes, g, m) = RootsOf(hashes, h, m)
    BY <1>3, RootsLookBack
  <1>5. QED
    BY <1>4 DEF RootsUpTo

(* Something satisfies the equations up to any length. *)
LEMMA RootsExist ==
    ASSUME NEW hashes, NEW n \in Nat
    PROVE  \E g : RootsUpTo(hashes, g, n)
  <1> DEFINE missing == {m \in Nat : ~ \E g : RootsUpTo(hashes, g, m)}
  <1>1. SUFFICES ASSUME missing # {} PROVE FALSE
    OBVIOUS
  <1>2. PICK m \in missing : \A k \in missing : m <= k
    BY <1>1, LeastOf
  <1>3. PICK g : \A k \in 0..(m - 1) : g[k] = RootsOf(hashes, g, k)
    <2>1. CASE m = 0
      BY <2>1
    <2>2. CASE m > 0
      <3>1. m - 1 \in Nat /\ m - 1 \notin missing
        BY <1>2, <2>2
      <3>2. QED
        BY <3>1 DEF RootsUpTo
    <2>3. QED
      BY <1>2, <2>1, <2>2
  <1> DEFINE h == [k \in 0..m |-> IF k = m THEN RootsOf(hashes, g, m) ELSE g[k]]
  <1>4. \A k \in 0..(m - 1) : h[k] = g[k]
    OBVIOUS
  <1>5. h[m] = RootsOf(hashes, g, m)
    BY <1>2
  <1> HIDE DEF h
  <1>6. ASSUME NEW k \in 0..m PROVE h[k] = RootsOf(hashes, h, k)
    <2>1. \A j \in 0..(k - 1) : g[j] = h[j]
      BY <1>4
    <2>2. RootsOf(hashes, g, k) = RootsOf(hashes, h, k)
      BY <2>1, RootsLookBack
    <2>3. CASE k = m
      BY <1>5, <2>2, <2>3
    <2>4. CASE k # m
      BY <1>3, <1>4, <2>2, <2>4
    <2>5. QED
      BY <2>3, <2>4
  <1>7. RootsUpTo(hashes, h, m)
    BY <1>6 DEF RootsUpTo
  <1>8. QED
    BY <1>2, <1>7

(* What the definition of the roots says of them. *)
LEMMA RootsDefined ==
    ASSUME NEW hashes, NEW n \in Nat
    PROVE  Roots(hashes)[n] = RootsOf(hashes, Roots(hashes), n)
  <1> DEFINE G(m) == CHOOSE g : RootsUpTo(hashes, g, m)
             f == [m \in Nat |-> G(m)[m]]
  <1>1. \A m \in Nat : RootsUpTo(hashes, G(m), m)
    BY RootsExist
  <1>2. ASSUME NEW m \in Nat PROVE f[m] = RootsOf(hashes, f, m)
    <2>1. ASSUME NEW k \in 0..m PROVE G(m)[k] = G(k)[k]
      <3>1. k \in Nat /\ \A j \in 0..k : j \in 0..m
        OBVIOUS
      <3>2. RootsUpTo(hashes, G(m), m) /\ RootsUpTo(hashes, G(k), k)
        BY <1>1, <3>1
      <3>3. RootsUpTo(hashes, G(m), k)
        BY <3>1, <3>2 DEF RootsUpTo
      <3>4. QED
        BY <3>1, <3>2, <3>3, RootsUnique
    <2>2. ASSUME NEW k \in 0..(m - 1) PROVE G(m)[k] = f[k]
      <3>1. k \in 0..m /\ k \in Nat
        OBVIOUS
      <3>2. f[k] = G(k)[k]
        BY <3>1
      <3>3. QED
        BY <2>1, <3>1, <3>2
    <2>3. RootsOf(hashes, G(m), m) = RootsOf(hashes, f, m)
      BY <2>2, RootsLookBack
    <2>4. G(m)[m] = RootsOf(hashes, G(m), m)
      BY <1>1 DEF RootsUpTo
    <2>5. QED
      BY <2>3, <2>4
  <1>3. f = [m \in Nat |-> RootsOf(hashes, f, m)]
    BY <1>2
  <1> HIDE DEF f
  <1> DEFINE r == CHOOSE g : g = [m \in Nat |-> RootsOf(hashes, g, m)]
  <1>4. r = [m \in Nat |-> RootsOf(hashes, r, m)]
    BY <1>3
  <1>5. Roots(hashes) = r
    BY DEF Roots, RootsOf
  <1>6. QED
    BY <1>4, <1>5

(* The paths within one run, given those of the shorter ones. *)
PathsOf(hashes, index, g, n) ==
    [lo \in Nat |->
        IF n <= 1 THEN <<>>
        ELSE IF index < lo + Split(n)
             THEN Append(g[Split(n)][lo], <<"right", Roots(hashes)[n - Split(n)][lo + Split(n)]>>)
             ELSE Append(g[n - Split(n)][lo + Split(n)], <<"left", Roots(hashes)[Split(n)][lo]>>)]

PathsUpTo(hashes, index, g, n) == \A m \in 0..n : g[m] = PathsOf(hashes, index, g, m)

(* Only shorter runs are looked at. *)
LEMMA PathsLookBack ==
    ASSUME NEW hashes, NEW index, NEW g, NEW h, NEW n \in Nat, \A m \in 0..(n - 1) : g[m] = h[m]
    PROVE  PathsOf(hashes, index, g, n) = PathsOf(hashes, index, h, n)
  <1>1. CASE n <= 1
    BY <1>1 DEF PathsOf
  <1>2. CASE n > 1
    <2>1. Split(n) \in 0..(n - 1) /\ n - Split(n) \in 0..(n - 1)
      BY <1>2, SplitIn
    <2>2. g[Split(n)] = h[Split(n)] /\ g[n - Split(n)] = h[n - Split(n)]
      BY <2>1
    <2>3. QED
      BY <2>2 DEF PathsOf
  <1>3. QED
    BY <1>1, <1>2

(* Two that satisfy the equations have the same paths. *)
LEMMA PathsUnique ==
    ASSUME NEW hashes, NEW index, NEW g, NEW h, NEW n \in Nat, PathsUpTo(hashes, index, g, n), PathsUpTo(hashes, index, h, n)
    PROVE  \A m \in 0..n : g[m] = h[m]
  <1> DEFINE apart == {m \in 0..n : g[m] # h[m]}
  <1>1. SUFFICES ASSUME apart # {} PROVE FALSE
    OBVIOUS
  <1>2. PICK m \in apart : \A k \in apart : m <= k
    <2>1. apart \subseteq Nat
      OBVIOUS
    <2>2. QED
      BY <1>1, <2>1, LeastOf
  <1>3. \A k \in 0..(m - 1) : g[k] = h[k]
    <2>1. SUFFICES ASSUME NEW k \in 0..(m - 1), g[k] # h[k] PROVE FALSE
      OBVIOUS
    <2>2. k \in apart /\ ~(m <= k)
      BY <2>1
    <2>3. QED
      BY <1>2, <2>2
  <1>4. PathsOf(hashes, index, g, m) = PathsOf(hashes, index, h, m)
    BY <1>3, PathsLookBack
  <1>5. QED
    BY <1>4 DEF PathsUpTo

(* Something satisfies the equations up to any length. *)
LEMMA PathsExist ==
    ASSUME NEW hashes, NEW index, NEW n \in Nat
    PROVE  \E g : PathsUpTo(hashes, index, g, n)
  <1> DEFINE missing == {m \in Nat : ~ \E g : PathsUpTo(hashes, index, g, m)}
  <1>1. SUFFICES ASSUME missing # {} PROVE FALSE
    OBVIOUS
  <1>2. PICK m \in missing : \A k \in missing : m <= k
    BY <1>1, LeastOf
  <1>3. PICK g : \A k \in 0..(m - 1) : g[k] = PathsOf(hashes, index, g, k)
    <2>1. CASE m = 0
      BY <2>1
    <2>2. CASE m > 0
      <3>1. m - 1 \in Nat /\ m - 1 \notin missing
        BY <1>2, <2>2
      <3>2. QED
        BY <3>1 DEF PathsUpTo
    <2>3. QED
      BY <1>2, <2>1, <2>2
  <1> DEFINE h == [k \in 0..m |-> IF k = m THEN PathsOf(hashes, index, g, m) ELSE g[k]]
  <1>4. \A k \in 0..(m - 1) : h[k] = g[k]
    OBVIOUS
  <1>5. h[m] = PathsOf(hashes, index, g, m)
    BY <1>2
  <1> HIDE DEF h
  <1>6. ASSUME NEW k \in 0..m PROVE h[k] = PathsOf(hashes, index, h, k)
    <2>1. \A j \in 0..(k - 1) : g[j] = h[j]
      BY <1>4
    <2>2. PathsOf(hashes, index, g, k) = PathsOf(hashes, index, h, k)
      BY <2>1, PathsLookBack
    <2>3. CASE k = m
      BY <1>5, <2>2, <2>3
    <2>4. CASE k # m
      BY <1>3, <1>4, <2>2, <2>4
    <2>5. QED
      BY <2>3, <2>4
  <1>7. PathsUpTo(hashes, index, h, m)
    BY <1>6 DEF PathsUpTo
  <1>8. QED
    BY <1>2, <1>7

(* What the definition of the paths says of them. *)
LEMMA PathsDefined ==
    ASSUME NEW hashes, NEW index, NEW n \in Nat
    PROVE  Paths(hashes, index)[n] = PathsOf(hashes, index, Paths(hashes, index), n)
  <1> DEFINE G(m) == CHOOSE g : PathsUpTo(hashes, index, g, m)
             f == [m \in Nat |-> G(m)[m]]
  <1>1. \A m \in Nat : PathsUpTo(hashes, index, G(m), m)
    BY PathsExist
  <1>2. ASSUME NEW m \in Nat PROVE f[m] = PathsOf(hashes, index, f, m)
    <2>1. ASSUME NEW k \in 0..m PROVE G(m)[k] = G(k)[k]
      <3>1. k \in Nat /\ \A j \in 0..k : j \in 0..m
        OBVIOUS
      <3>2. PathsUpTo(hashes, index, G(m), m) /\ PathsUpTo(hashes, index, G(k), k)
        BY <1>1, <3>1
      <3>3. PathsUpTo(hashes, index, G(m), k)
        BY <3>1, <3>2 DEF PathsUpTo
      <3>4. QED
        BY <3>1, <3>2, <3>3, PathsUnique
    <2>2. ASSUME NEW k \in 0..(m - 1) PROVE G(m)[k] = f[k]
      <3>1. k \in 0..m /\ k \in Nat
        OBVIOUS
      <3>2. f[k] = G(k)[k]
        BY <3>1
      <3>3. QED
        BY <2>1, <3>1, <3>2
    <2>3. PathsOf(hashes, index, G(m), m) = PathsOf(hashes, index, f, m)
      BY <2>2, PathsLookBack
    <2>4. G(m)[m] = PathsOf(hashes, index, G(m), m)
      BY <1>1 DEF PathsUpTo
    <2>5. QED
      BY <2>3, <2>4
  <1>3. f = [m \in Nat |-> PathsOf(hashes, index, f, m)]
    BY <1>2
  <1> HIDE DEF f
  <1> DEFINE r == CHOOSE g : g = [m \in Nat |-> PathsOf(hashes, index, g, m)]
  <1>4. r = [m \in Nat |-> PathsOf(hashes, index, r, m)]
    BY <1>3
  <1>5. Paths(hashes, index) = r
    BY DEF Paths, PathsOf
  <1>6. QED
    BY <1>4, <1>5

(* One rung up, given the steps before it. *)
ClimbedOf(hash, path, g, n) ==
    IF n = 0 THEN Leaf(hash)
    ELSE IF path[n][1] = "left" THEN Node(path[n][2], g[n - 1]) ELSE Node(g[n - 1], path[n][2])

ClimbedUpTo(hash, path, g, n) == \A m \in 0..n : g[m] = ClimbedOf(hash, path, g, m)

(* What a rung of a path gives depends on the steps before it alone. *)
LEMMA ClimbedLooksBack ==
    ASSUME NEW hash, NEW path, NEW g, NEW h, NEW n \in Nat, \A m \in 0..(n - 1) : g[m] = h[m]
    PROVE  ClimbedOf(hash, path, g, n) = ClimbedOf(hash, path, h, n)
  <1>1. CASE n = 0
    BY <1>1 DEF ClimbedOf
  <1>2. CASE n > 0
    <2>1. n - 1 \in 0..(n - 1)
      BY <1>2
    <2>2. g[n - 1] = h[n - 1]
      BY <2>1
    <2>3. QED
      BY <2>2 DEF ClimbedOf
  <1>3. QED
    BY <1>1, <1>2

(* Two that satisfy the equations climb alike. *)
LEMMA ClimbedUnique ==
    ASSUME NEW hash, NEW path, NEW g, NEW h, NEW n \in Nat, ClimbedUpTo(hash, path, g, n), ClimbedUpTo(hash, path, h, n)
    PROVE  \A m \in 0..n : g[m] = h[m]
  <1> DEFINE apart == {m \in 0..n : g[m] # h[m]}
  <1>1. SUFFICES ASSUME apart # {} PROVE FALSE
    OBVIOUS
  <1>2. PICK m \in apart : \A k \in apart : m <= k
    <2>1. apart \subseteq Nat
      OBVIOUS
    <2>2. QED
      BY <1>1, <2>1, LeastOf
  <1>3. \A k \in 0..(m - 1) : g[k] = h[k]
    <2>1. SUFFICES ASSUME NEW k \in 0..(m - 1), g[k] # h[k] PROVE FALSE
      OBVIOUS
    <2>2. k \in apart /\ ~(m <= k)
      BY <2>1
    <2>3. QED
      BY <1>2, <2>2
  <1>4. ClimbedOf(hash, path, g, m) = ClimbedOf(hash, path, h, m)
    BY <1>3, ClimbedLooksBack
  <1>5. QED
    BY <1>4 DEF ClimbedUpTo

(* Something satisfies the equations up to any length. *)
LEMMA ClimbedExist ==
    ASSUME NEW hash, NEW path, NEW n \in Nat
    PROVE  \E g : ClimbedUpTo(hash, path, g, n)
  <1> DEFINE missing == {m \in Nat : ~ \E g : ClimbedUpTo(hash, path, g, m)}
  <1>1. SUFFICES ASSUME missing # {} PROVE FALSE
    OBVIOUS
  <1>2. PICK m \in missing : \A k \in missing : m <= k
    BY <1>1, LeastOf
  <1>3. PICK g : \A k \in 0..(m - 1) : g[k] = ClimbedOf(hash, path, g, k)
    <2>1. CASE m = 0
      BY <2>1
    <2>2. CASE m > 0
      <3>1. m - 1 \in Nat /\ m - 1 \notin missing
        BY <1>2, <2>2
      <3>2. QED
        BY <3>1 DEF ClimbedUpTo
    <2>3. QED
      BY <1>2, <2>1, <2>2
  <1> DEFINE h == [k \in 0..m |-> IF k = m THEN ClimbedOf(hash, path, g, m) ELSE g[k]]
  <1>4. \A k \in 0..(m - 1) : h[k] = g[k]
    OBVIOUS
  <1>5. h[m] = ClimbedOf(hash, path, g, m)
    BY <1>2
  <1> HIDE DEF h
  <1>6. ASSUME NEW k \in 0..m PROVE h[k] = ClimbedOf(hash, path, h, k)
    <2>1. \A j \in 0..(k - 1) : g[j] = h[j]
      BY <1>4
    <2>2. ClimbedOf(hash, path, g, k) = ClimbedOf(hash, path, h, k)
      BY <2>1, ClimbedLooksBack
    <2>3. CASE k = m
      BY <1>5, <2>2, <2>3
    <2>4. CASE k # m
      BY <1>3, <1>4, <2>2, <2>4
    <2>5. QED
      BY <2>3, <2>4
  <1>7. ClimbedUpTo(hash, path, h, m)
    BY <1>6 DEF ClimbedUpTo
  <1>8. QED
    BY <1>2, <1>7

(* What the definition of a climb says of it. *)
LEMMA ClimbedDefined ==
    ASSUME NEW hash, NEW path, NEW n \in Nat
    PROVE  Climbed(hash, path)[n] = ClimbedOf(hash, path, Climbed(hash, path), n)
  <1> DEFINE G(m) == CHOOSE g : ClimbedUpTo(hash, path, g, m)
             f == [m \in Nat |-> G(m)[m]]
  <1>1. \A m \in Nat : ClimbedUpTo(hash, path, G(m), m)
    BY ClimbedExist
  <1>2. ASSUME NEW m \in Nat PROVE f[m] = ClimbedOf(hash, path, f, m)
    <2>1. ASSUME NEW k \in 0..m PROVE G(m)[k] = G(k)[k]
      <3>1. k \in Nat /\ \A j \in 0..k : j \in 0..m
        OBVIOUS
      <3>2. ClimbedUpTo(hash, path, G(m), m) /\ ClimbedUpTo(hash, path, G(k), k)
        BY <1>1, <3>1
      <3>3. ClimbedUpTo(hash, path, G(m), k)
        BY <3>1, <3>2 DEF ClimbedUpTo
      <3>4. QED
        BY <3>1, <3>2, <3>3, ClimbedUnique
    <2>2. ASSUME NEW k \in 0..(m - 1) PROVE G(m)[k] = f[k]
      <3>1. k \in 0..m /\ k \in Nat
        OBVIOUS
      <3>2. f[k] = G(k)[k]
        BY <3>1
      <3>3. QED
        BY <2>1, <3>1, <3>2
    <2>3. ClimbedOf(hash, path, G(m), m) = ClimbedOf(hash, path, f, m)
      BY <2>2, ClimbedLooksBack
    <2>4. G(m)[m] = ClimbedOf(hash, path, G(m), m)
      BY <1>1 DEF ClimbedUpTo
    <2>5. QED
      BY <2>3, <2>4
  <1>3. f = [m \in Nat |-> ClimbedOf(hash, path, f, m)]
    BY <1>2
  <1> HIDE DEF f
  <1> DEFINE r == CHOOSE g : g = [m \in Nat |-> ClimbedOf(hash, path, g, m)]
  <1>4. r = [m \in Nat |-> ClimbedOf(hash, path, r, m)]
    BY <1>3
  <1>5. Climbed(hash, path) = r
    BY DEF Climbed, ClimbedOf
  <1>6. QED
    BY <1>4, <1>5
-----------------------------------------------------------------------------
(* What is appended to a path changes nothing of the climb until then. *)
LEMMA ClimbAppended ==
    ASSUME NEW V, NEW hash, NEW path \in Seq(V), NEW rung \in V
    PROVE  \A k \in 0..Len(path) : Climbed(hash, Append(path, rung))[k] = Climbed(hash, path)[k]
  <1> DEFINE longer == Append(path, rung)
             apart  == {k \in 0..Len(path) : Climbed(hash, longer)[k] # Climbed(hash, path)[k]}
  <1>1. SUFFICES ASSUME apart # {} PROVE FALSE
    OBVIOUS
  <1>2. PICK k \in apart : \A j \in apart : k <= j
    <2>1. apart \subseteq Nat
      OBVIOUS
    <2>2. QED
      BY <1>1, <2>1, LeastOf
  <1> HIDE DEF longer
  <1>3. /\ Climbed(hash, longer)[k] = ClimbedOf(hash, longer, Climbed(hash, longer), k)
        /\ Climbed(hash, path)[k] = ClimbedOf(hash, path, Climbed(hash, path), k)
    <2>1. k \in Nat
      OBVIOUS
    <2>2. QED
      BY <2>1, ClimbedDefined
  <1>4. CASE k = 0
    BY <1>2, <1>3, <1>4 DEF ClimbedOf
  <1>5. CASE k > 0
    <2>1. k - 1 \in 0..Len(path) /\ k - 1 \notin apart /\ k \in 1..Len(path)
      BY <1>2, <1>5
    <2>2. Climbed(hash, longer)[k - 1] = Climbed(hash, path)[k - 1]
      BY <2>1
    <2>3. longer[k] = path[k]
      BY <2>1 DEF longer
    <2>4. QED
      BY <1>2, <1>3, <1>5, <2>2, <2>3 DEF ClimbedOf
  <1>6. QED
    BY <1>4, <1>5

(* The steps a path over these leaves may have. *)
PathSteps(hashes) == {<<side, Roots(hashes)[n][lo]>> : side \in {"left", "right"}, n \in Nat, lo \in Nat}

(* The path of a leaf leads to the root of the run it is in. *)
LeadsUp(hashes, index, n, lo) ==
    LET path == Paths(hashes, index)[n][lo]
    IN  path \in Seq(PathSteps(hashes)) /\ Climbed(hashes[index], path)[Len(path)] = Roots(hashes)[n][lo]

(* One rung more leads from the root of one half to that of the whole. *)
LEMMA StepUp ==
    ASSUME NEW hashes, NEW hash, NEW path \in Seq(PathSteps(hashes)), NEW side \in {"left", "right"},
           NEW n \in Nat, NEW lo \in Nat
    PROVE  LET other  == Roots(hashes)[n][lo]
               longer == Append(path, <<side, other>>)
               here   == Climbed(hash, path)[Len(path)]
           IN  /\ longer \in Seq(PathSteps(hashes))
               /\ Climbed(hash, longer)[Len(longer)] =
                     IF side = "left" THEN Node(other, here) ELSE Node(here, other)
  <1> DEFINE other  == Roots(hashes)[n][lo]
             rung   == <<side, other>>
             longer == Append(path, rung)
             here   == Climbed(hash, path)[Len(path)]
  <1>1. rung \in PathSteps(hashes) /\ rung[1] = side /\ rung[2] = other
    BY DEF PathSteps
  <1> HIDE DEF rung
  <1>2. /\ longer \in Seq(PathSteps(hashes)) /\ Len(path) \in Nat
        /\ Len(longer) = Len(path) + 1 /\ longer[Len(longer)] = rung
    BY <1>1
  <1>3. Climbed(hash, longer)[Len(path)] = here
    BY <1>1, <1>2, ClimbAppended
  <1>4. Climbed(hash, longer)[Len(longer)] = ClimbedOf(hash, longer, Climbed(hash, longer), Len(longer))
    BY <1>2, ClimbedDefined
  <1> HIDE DEF longer, other, here
  <1>5. Climbed(hash, longer)[Len(longer)] = IF side = "left" THEN Node(other, here) ELSE Node(here, other)
    BY <1>1, <1>2, <1>3, <1>4 DEF ClimbedOf
  <1>6. QED
    BY <1>2, <1>5 DEF longer, other, here, rung

(* The path of a leaf leads up to the root of every run it is in. *)
LEMMA PathsLeadUp ==
    ASSUME NEW hashes, NEW index \in Nat
    PROVE  \A n \in Nat \ {0}, lo \in Nat : index \in lo..(lo + n - 1) => LeadsUp(hashes, index, n, lo)
  <1> DEFINE bad == {n \in Nat \ {0} : \E lo \in Nat : index \in lo..(lo + n - 1) /\ ~LeadsUp(hashes, index, n, lo)}
  <1>1. SUFFICES ASSUME bad # {} PROVE FALSE
    OBVIOUS
  <1>2. PICK n \in bad : \A m \in bad : n <= m
    <2>1. bad \subseteq Nat
      OBVIOUS
    <2>2. QED
      BY <1>1, <2>1, LeastOf
  <1>3. PICK lo \in Nat : index \in lo..(lo + n - 1) /\ ~LeadsUp(hashes, index, n, lo)
    BY <1>2
  <1>4. n \in Nat \ {0}
    BY <1>2
  <1>5. /\ Roots(hashes)[n] = RootsOf(hashes, Roots(hashes), n)
        /\ Paths(hashes, index)[n] = PathsOf(hashes, index, Paths(hashes, index), n)
    BY <1>4, RootsDefined, PathsDefined
  <1>6. CASE n = 1
    <2>1. Paths(hashes, index)[n][lo] = <<>> /\ Roots(hashes)[n][lo] = Leaf(hashes[lo]) /\ index = lo
      BY <1>3, <1>5, <1>6 DEF RootsOf, PathsOf
    <2>2. Climbed(hashes[index], <<>>)[0] = Leaf(hashes[index])
      <3>1. Climbed(hashes[index], <<>>)[0] = ClimbedOf(hashes[index], <<>>, Climbed(hashes[index], <<>>), 0)
        BY ClimbedDefined
      <3>2. QED
        BY <3>1 DEF ClimbedOf
    <2>3. <<>> \in Seq(PathSteps(hashes)) /\ Len(<<>>) = 0
      OBVIOUS
    <2>4. QED
      BY <1>3, <2>1, <2>2, <2>3 DEF LeadsUp
  <1>7. CASE n > 1
    <2> DEFINE k == Split(n)
               left  == Roots(hashes)[k][lo]
               right == Roots(hashes)[n - k][lo + k]
    <2>1. k \in 1..(n - 1) /\ n - k \in 1..(n - 1)
      <3>1. k \in 1..(n - 1)
        BY <1>4, <1>7, SplitIn
      <3>2. QED
        BY <1>4, <3>1
    <2>2. k \in Nat /\ n - k \in Nat /\ lo + k \in Nat
      BY <2>1
    <2>3. Roots(hashes)[n][lo] = Node(left, right)
      BY <1>3, <1>5, <1>7 DEF RootsOf
    <2>4. k \notin bad /\ n - k \notin bad
      BY <1>2, <1>4, <2>1
    <2> HIDE DEF k
    <2>5. CASE index < lo + k
      <3> DEFINE path == Paths(hashes, index)[k][lo]
      <3>1. index \in lo..(lo + k - 1)
        BY <1>3, <2>2, <2>5
      <3>2. LeadsUp(hashes, index, k, lo)
        BY <2>1, <2>4, <3>1
      <3>3. path \in Seq(PathSteps(hashes)) /\ Climbed(hashes[index], path)[Len(path)] = left
        BY <3>2 DEF LeadsUp
      <3>4. Paths(hashes, index)[n][lo] = Append(path, <<"right", right>>)
        BY <1>5, <1>7, <2>5 DEF PathsOf, k
      <3> HIDE DEF path
      <3>5. LeadsUp(hashes, index, n, lo)
        BY <2>2, <2>3, <3>3, <3>4, StepUp DEF LeadsUp
      <3>6. QED
        BY <1>3, <3>5
    <2>6. CASE ~(index < lo + k)
      <3> DEFINE path == Paths(hashes, index)[n - k][lo + k]
      <3>1. index \in (lo + k)..(lo + k + (n - k) - 1)
        BY <1>3, <1>4, <2>2, <2>6
      <3>2. LeadsUp(hashes, index, n - k, lo + k)
        BY <2>1, <2>2, <2>4, <3>1
      <3>3. path \in Seq(PathSteps(hashes)) /\ Climbed(hashes[index], path)[Len(path)] = right
        BY <3>2 DEF LeadsUp
      <3>4. Paths(hashes, index)[n][lo] = Append(path, <<"left", left>>)
        BY <1>5, <1>7, <2>6 DEF PathsOf, k
      <3> HIDE DEF path
      <3>5. LeadsUp(hashes, index, n, lo)
        BY <1>3, <2>2, <2>3, <3>3, <3>4, StepUp DEF LeadsUp
      <3>6. QED
        BY <1>3, <3>5
    <2>7. QED
      BY <2>5, <2>6
  <1>8. QED
    BY <1>4, <1>6, <1>7

(* Whatever the number of records, and so however lopsided their tree, the *)
(* proof that inclusion_proof makes for a record is accepted by            *)
(* verify_inclusion under the root of the log.                             *)
THEOREM InclusionVerifies ==
    ASSUME NEW V, NEW hashes \in Seq(V), NEW i \in 1..Len(hashes)
    PROVE  VerifyInclusion(hashes[i], InclusionProof(hashes, i), MerkleRoot(hashes))
  <1>1. Len(hashes) \in Nat \ {0} /\ i \in Nat /\ i \in 1..(1 + Len(hashes) - 1) /\ hashes # <<>>
    OBVIOUS
  <1>2. LeadsUp(hashes, i, Len(hashes), 1)
    BY <1>1, PathsLeadUp
  <1>3. QED
    BY <1>1, <1>2 DEF LeadsUp, VerifyInclusion, InclusionProof, MerkleRoot

(* What climbs to the root of a run is one of its leaves. *)
LEMMA ClimbsFromALeaf ==
    ASSUME NEW hashes, NEW hash, NEW path
    PROVE  \A n \in Nat \ {0}, lo \in Nat, k \in Nat :
             Climbed(hash, path)[k] = Roots(hashes)[n][lo] => \E i \in lo..(lo + n - 1) : hash = hashes[i]
  <1> DEFINE Under(n, lo, k) ==
               Climbed(hash, path)[k] = Roots(hashes)[n][lo] => \E i \in lo..(lo + n - 1) : hash = hashes[i]
             bad == {n \in Nat \ {0} : \E lo, k \in Nat : ~Under(n, lo, k)}
  <1>1. SUFFICES ASSUME bad # {} PROVE FALSE
    OBVIOUS
  <1>2. PICK n \in bad : \A m \in bad : n <= m
    <2>1. bad \subseteq Nat
      OBVIOUS
    <2>2. QED
      BY <1>1, <2>1, LeastOf
  <1>3. PICK lo \in Nat, k \in Nat : ~Under(n, lo, k)
    BY <1>2
  <1>4. n \in Nat \ {0}
    BY <1>2
  <1>5. Roots(hashes)[n] = RootsOf(hashes, Roots(hashes), n)
    BY <1>4, RootsDefined
  <1>6. Climbed(hash, path)[k] = ClimbedOf(hash, path, Climbed(hash, path), k)
    BY ClimbedDefined
  <1>7. CASE n = 1
    <2>1. Roots(hashes)[n][lo] = Leaf(hashes[lo])
      BY <1>5, <1>7 DEF RootsOf
    <2>2. k = 0
      BY <1>3, <1>6, <2>1 DEF ClimbedOf, Leaf, Node
    <2>3. hash = hashes[lo] /\ lo \in lo..(lo + n - 1)
      BY <1>3, <1>6, <1>7, <2>1, <2>2 DEF ClimbedOf, Leaf
    <2>4. QED
      BY <1>3, <2>3
  <1>8. CASE n > 1
    <2> DEFINE s == Split(n)
    <2>1. s \in 1..(n - 1)
      BY <1>4, <1>8, SplitIn
    <2>2. s \in Nat \ {0} /\ n - s \in Nat \ {0} /\ lo + s \in Nat /\ s < n /\ n - s < n
      BY <1>4, <2>1
    <2>3. Roots(hashes)[n][lo] = Node(Roots(hashes)[s][lo], Roots(hashes)[n - s][lo + s])
      BY <1>5, <1>8 DEF RootsOf
    <2> HIDE DEF s
    <2>4. k > 0
      BY <1>3, <1>6, <2>3 DEF ClimbedOf, Leaf, Node
    <2>5. \/ Climbed(hash, path)[k - 1] = Roots(hashes)[s][lo]
          \/ Climbed(hash, path)[k - 1] = Roots(hashes)[n - s][lo + s]
      BY <1>3, <1>6, <2>3, <2>4 DEF ClimbedOf, Node
    <2>6. s \notin bad /\ n - s \notin bad /\ k - 1 \in Nat
      BY <1>2, <1>4, <2>2, <2>4
    <2>7. Under(s, lo, k - 1) /\ Under(n - s, lo + s, k - 1)
      BY <2>2, <2>6
    <2>8. \E i \in (lo..(lo + s - 1)) \cup ((lo + s)..(lo + s + (n - s) - 1)) : hash = hashes[i]
      BY <2>5, <2>7
    <2>9. (lo..(lo + s - 1)) \cup ((lo + s)..(lo + s + (n - s) - 1)) \subseteq lo..(lo + n - 1)
      BY <1>4, <2>2
    <2>10. QED
      BY <1>3, <2>8, <2>9
  <1>9. QED
    BY <1>4, <1>7, <1>8

(* No path at all makes verify_inclusion accept, under the root of a log,  *)
(* a hash that is no record's of it.                                       *)
THEOREM InclusionIsEvidence ==
    ASSUME NEW V, NEW hashes \in Seq(V), NEW W, NEW path \in Seq(W), NEW hash,
           VerifyInclusion(hash, path, MerkleRoot(hashes))
    PROVE  \E i \in 1..Len(hashes) : hash = hashes[i]
  <1>1. Len(path) \in Nat
    OBVIOUS
  <1>2. CASE hashes = <<>>
    <2>1. Climbed(hash, path)[Len(path)] = ClimbedOf(hash, path, Climbed(hash, path), Len(path))
      BY <1>1, ClimbedDefined
    <2>2. QED
      BY <1>2, <2>1 DEF VerifyInclusion, MerkleRoot, ClimbedOf, Leaf, Node, EmptyRoot
  <1>3. CASE hashes # <<>>
    <2>1. Len(hashes) \in Nat \ {0} /\ 1 + Len(hashes) - 1 = Len(hashes)
      BY <1>3
    <2>2. Climbed(hash, path)[Len(path)] = Roots(hashes)[Len(hashes)][1]
      BY <1>3 DEF VerifyInclusion, MerkleRoot
    <2> DEFINE n == Len(hashes)
               k == Len(path)
    <2>3. n \in Nat \ {0} /\ k \in Nat /\ Climbed(hash, path)[k] = Roots(hashes)[n][1] /\ 1 + n - 1 = n
      BY <1>1, <2>1, <2>2
    <2> HIDE DEF n, k
    <2>4. \E i \in 1..(1 + n - 1) : hash = hashes[i]
      BY <2>3, ClimbsFromALeaf
    <2>5. QED
      BY <2>3, <2>4 DEF n
  <1>4. QED
    BY <1>2, <1>3

(* Runs that have the same root have the same leaves. *)
LEMMA RootsPinLeaves ==
    ASSUME NEW hashes, NEW others
    PROVE  \A n \in Nat \ {0}, lo \in Nat :
             Roots(hashes)[n][lo] = Roots(others)[n][lo] => \A i \in lo..(lo + n - 1) : hashes[i] = others[i]
  <1> DEFINE Pinned(n, lo) ==
               Roots(hashes)[n][lo] = Roots(others)[n][lo] => \A i \in lo..(lo + n - 1) : hashes[i] = others[i]
             bad == {n \in Nat \ {0} : \E lo \in Nat : ~Pinned(n, lo)}
  <1>1. SUFFICES ASSUME bad # {} PROVE FALSE
    OBVIOUS
  <1>2. PICK n \in bad : \A m \in bad : n <= m
    <2>1. bad \subseteq Nat
      OBVIOUS
    <2>2. QED
      BY <1>1, <2>1, LeastOf
  <1>3. PICK lo \in Nat : ~Pinned(n, lo)
    BY <1>2
  <1>4. n \in Nat \ {0}
    BY <1>2
  <1>5. /\ Roots(hashes)[n] = RootsOf(hashes, Roots(hashes), n)
        /\ Roots(others)[n] = RootsOf(others, Roots(others), n)
    BY <1>4, RootsDefined
  <1>6. CASE n = 1
    <2>1. hashes[lo] = others[lo]
      BY <1>3, <1>5, <1>6 DEF RootsOf, Leaf
    <2>2. QED
      BY <1>3, <1>6, <2>1
  <1>7. CASE n > 1
    <2> DEFINE s == Split(n)
    <2>1. s \in 1..(n - 1)
      BY <1>4, <1>7, SplitIn
    <2>2. s \in Nat \ {0} /\ n - s \in Nat \ {0} /\ lo + s \in Nat /\ s < n /\ n - s < n
      BY <1>4, <2>1
    <2>3. /\ Roots(hashes)[n][lo] = Node(Roots(hashes)[s][lo], Roots(hashes)[n - s][lo + s])
          /\ Roots(others)[n][lo] = Node(Roots(others)[s][lo], Roots(others)[n - s][lo + s])
      BY <1>5, <1>7 DEF RootsOf
    <2> HIDE DEF s
    <2>4. /\ Roots(hashes)[s][lo] = Roots(others)[s][lo]
          /\ Roots(hashes)[n - s][lo + s] = Roots(others)[n - s][lo + s]
      BY <1>3, <2>3 DEF Node
    <2>5. s \notin bad /\ n - s \notin bad
      BY <1>2, <1>4, <2>2
    <2>6. Pinned(s, lo) /\ Pinned(n - s, lo + s)
      BY <2>2, <2>5
    <2>7. \A i \in (lo..(lo + s - 1)) \cup ((lo + s)..(lo + s + (n - s) - 1)) : hashes[i] = others[i]
      BY <2>4, <2>6
    <2>8. lo..(lo + n - 1) \subseteq (lo..(lo + s - 1)) \cup ((lo + s)..(lo + s + (n - s) - 1))
      BY <1>4, <2>2
    <2>9. QED
      BY <1>3, <2>7, <2>8
  <1>8. QED
    BY <1>4, <1>6, <1>7

(* Two logs of one length that have one root are the same log: a record    *)
(* that is changed under a seal gives another root.                        *)
THEOREM RootPinsTheLog ==
    ASSUME NEW V, NEW hashes \in Seq(V), NEW others \in Seq(V), Len(hashes) = Len(others),
           MerkleRoot(hashes) = MerkleRoot(others)
    PROVE  hashes = others
  <1>1. CASE Len(hashes) = 0
    BY <1>1, EmptySeq
  <1>2. CASE Len(hashes) # 0
    <2>1. Len(hashes) \in Nat \ {0} /\ 1 + Len(hashes) - 1 = Len(hashes) /\ hashes # <<>> /\ others # <<>>
      BY <1>2
    <2>2. Roots(hashes)[Len(hashes)][1] = Roots(others)[Len(hashes)][1]
      BY <2>1 DEF MerkleRoot
    <2> DEFINE n == Len(hashes)
    <2>3. n \in Nat \ {0} /\ Roots(hashes)[n][1] = Roots(others)[n][1] /\ 1 + n - 1 = n
      BY <2>1, <2>2
    <2> HIDE DEF n
    <2>4. \A i \in 1..(1 + n - 1) : hashes[i] = others[i]
      <3>1. \A lo \in Nat : Roots(hashes)[n][lo] = Roots(others)[n][lo]
                             => \A i \in lo..(lo + n - 1) : hashes[i] = others[i]
        BY <2>3, RootsPinLeaves
      <3>2. QED
        BY <2>3, <3>1
    <2>5. \A i \in 1..Len(hashes) : hashes[i] = others[i]
      BY <2>3, <2>4 DEF n
    <2>6. QED
      BY <2>5, SeqEqual
  <1>3. QED
    BY <1>1, <1>2

-----------------------------------------------------------------------------
(* The certificates.                                                       *)

RunRows == [status : Statuses, content : Nat]
Events  == {"config_snapshot", "config_snapshot_failed", "finished", "decided", "cancelled", "conflict_resolved",
            "sealed", "certificate_issued", "certificate_failed", "recovered", "other"}
Entries == [of : {"run", "log"}, what : Events, value : Nat]

Points == {"idle", "finished", "decided", "looking", "sealing", "sealed", "reading", "opening", "writing", "issued"}
Issues == [at : Points, run : RunRows \cup {NoFile}, root : Nat, certificate : Bodies \cup {NoFile}]

CertificatesTypeOK ==
  /\ run \in RunRows /\ governing \in Nat /\ log \in Seq(Entries) /\ whole \in BOOLEAN
  /\ issuing \in [Issuers -> Issues]
  /\ excused \in BOOLEAN

UnderRoot(r) == SubSeq(log, 1, r)

(* The first record tells what the run began under, and no later one does. *)
BeginsTheLog ==
  IF run.status = "queued" THEN log = <<>> /\ ranUnder = NoFile /\ \A a \in Issuers : issuing[a].at = "idle"
  ELSE /\ log # <<>> /\ log[1].of = "run"
       /\ IF log[1].what = "config_snapshot" THEN log[1].value = ranUnder ELSE ranUnder = NoFile
       /\ \A i \in 2..Len(log) : log[i].what # "config_snapshot"

(* Who is past the seal holds a root of the log, and a certificate under it. *)
SealedBy(a) ==
  /\ issuing[a].at \in {"looking", "sealing", "sealed", "reading", "opening", "writing"} =>
       issuing[a].run \in RunRows
  /\ issuing[a].at \in {"sealed", "reading", "opening", "writing"} => issuing[a].root \in 1..Len(log)
  /\ issuing[a].at \in {"opening", "writing"} =>
       issuing[a].certificate = Composed(issuing[a].run, issuing[a].root, UnderRoot(issuing[a].root))

SealedAndRead == \A a \in Issuers : SealedBy(a)

(* The run waits for the event loop, whose seal is of all there is to tell. *)
LoopIsCurrent ==
  /\ issuing[Loop].at # "looking"
  /\ issuing[Loop].at \notin {"idle", "issued"} => issuing[Loop].run = run
  /\ issuing[Loop].at \in {"sealing", "sealed", "reading", "opening", "writing"} => run.status \in Settled
  /\ issuing[Loop].at \in {"sealed", "reading", "opening", "writing"} =>
       Finished(UnderRoot(issuing[Loop].root)) = Finished(log)

(* A certificate of the run as it is, that misses nothing it should tell. *)
Current(c) ==
  \E r \in 1..Len(log) : c = Composed(run, r, UnderRoot(r)) /\ Finished(UnderRoot(r)) = Finished(log)

FileIsCurrent ==
  /\ run.status \in Settled /\ stored # NoFile /\ ~excused
  /\ issuing[Loop].at \in {"idle", "issued"} /\ \A a \in Issuers : issuing[a].at # "writing"
  => Current(stored)

CertInv == CertificatesTypeOK /\ BeginsTheLog /\ SealedAndRead /\ LoopIsCurrent /\ FileIsCurrent

-----------------------------------------------------------------------------
(* What the types say of the parts. *)
LEMMA Typed ==
  ASSUME CertificatesTypeOK
  PROVE  /\ run \in RunRows /\ run.status \in Statuses /\ run.content \in Nat
         /\ governing \in Nat /\ log \in Seq(Entries) /\ Len(log) \in Nat
         /\ \A a \in Issuers : issuing[a] \in Issues /\ issuing[a].at \in Points
BY DEF CertificatesTypeOK, RunRows, Issues

(* What a log that grows by one record keeps. *)
LEMMA LogGrows ==
  ASSUME log \in Seq(Entries), NEW e \in Entries, log' = Append(log, e)
  PROVE  /\ log' \in Seq(Entries) /\ Len(log') = Len(log) + 1 /\ Len(log) \in Nat
         /\ \A r \in 1..Len(log) : UnderRoot(r)' = UnderRoot(r)
         /\ \A i \in 1..Len(log) : log'[i] = log[i]
         /\ log'[Len(log) + 1] = e
         /\ e.what # "finished" => Finished(log') = Finished(log)
<1>1. /\ log' \in Seq(Entries) /\ Len(log') = Len(log) + 1 /\ Len(log) \in Nat
      /\ \A i \in 1..Len(log) : log'[i] = log[i]
      /\ log'[Len(log) + 1] = e
  OBVIOUS
<1>2. ASSUME NEW r \in 1..Len(log) PROVE SubSeq(log', 1, r) = SubSeq(log, 1, r)
  <2>1. r \in 0..Len(log)
    OBVIOUS
  <2>2. QED  BY <2>1
<1>3. ASSUME e.what # "finished" PROVE Finished(log') = Finished(log)
  BY <1>1, <1>3 DEF Finished
<1>4. QED  BY <1>1, <1>2, <1>3 DEF UnderRoot

(* The log stays, or grows by a record of no consequence to what was sealed. *)
Grows(what) == \E e \in Entries : log' = Append(log, e) /\ e.what = what

(* Writing a record makes the log one longer. *)
LEMMA Written ==
  ASSUME NEW of \in {"run", "log"}, NEW what \in Events, log' = Append(log, [of |-> of, what |-> what, value |-> 0])
  PROVE  Grows(what)
<1>1. [of |-> of, what |-> what, value |-> 0] \in Entries
  BY DEF Entries
<1>2. QED  BY <1>1 DEF Grows

(* Who is left alone still holds a root of the log, whatever is written. *)
LEMMA Unsealed ==
  ASSUME CertificatesTypeOK, NEW a \in Issuers, SealedBy(a), issuing'[a] = issuing[a],
         NEW what, Grows(what) \/ UNCHANGED log
  PROVE  SealedBy(a)'
<1>1. CASE UNCHANGED log
  BY <1>1 DEF SealedBy, UnderRoot
<1>2. CASE Grows(what)
  <2>1. PICK e \in Entries : log' = Append(log, e)
    BY <1>2 DEF Grows
  <2>2. Len(log') = Len(log) + 1 /\ Len(log) \in Nat /\ \A r \in 1..Len(log) : UnderRoot(r)' = UnderRoot(r)
    BY <2>1, LogGrows DEF CertificatesTypeOK
  <2>3. \A r \in 1..Len(log) : r \in 1..Len(log')
    BY <2>2
  <2>4. QED  BY <2>2, <2>3 DEF SealedBy
<1>3. QED  BY <1>1, <1>2

(* A prefix is under the same under, and tells of the finish what it told. *)
LEMMA StillTells ==
  ASSUME log \in Seq(Entries), NEW what, what # "finished", Grows(what) \/ UNCHANGED log,
         NEW r \in 1..Len(log)
  PROVE  /\ r \in 1..Len(log') /\ UnderRoot(r)' = UnderRoot(r)
         /\ Finished(log') = Finished(log)
<1>1. CASE UNCHANGED log
  BY <1>1 DEF UnderRoot
<1>2. CASE Grows(what)
  <2>1. PICK e \in Entries : log' = Append(log, e) /\ e.what = what
    BY <1>2 DEF Grows
  <2>2. QED  BY <2>1, LogGrows
<1>3. QED  BY <1>1, <1>2

(* The same, of the log as it was and as it is. *)
LEMMA PrefixTells ==
  ASSUME log \in Seq(Entries), NEW what, what # "finished", Grows(what), NEW r \in 1..Len(log)
  PROVE  /\ r \in 1..Len(log') /\ SubSeq(log', 1, r) = SubSeq(log, 1, r)
         /\ Finished(log') = Finished(log)
<1>1. r \in 1..Len(log') /\ UnderRoot(r)' = UnderRoot(r) /\ Finished(log') = Finished(log)
  BY StillTells
<1>2. QED  BY <1>1 DEF UnderRoot

(* The first record stays the one that tells what the run began under. *)
LEMMA StillBegins ==
  ASSUME CertificatesTypeOK, BeginsTheLog, run.status # "queued", run'.status # "queued",
         ranUnder' = ranUnder, NEW what, what # "config_snapshot", Grows(what) \/ UNCHANGED log
  PROVE  BeginsTheLog'
<1>1. CASE UNCHANGED log
  BY <1>1 DEF BeginsTheLog
<1>2. CASE Grows(what)
  <2>1. PICK e \in Entries : log' = Append(log, e) /\ e.what = what
    BY <1>2 DEF Grows
  <2>2. /\ log' \in Seq(Entries) /\ Len(log') = Len(log) + 1 /\ Len(log) \in Nat
        /\ \A i \in 1..Len(log) : log'[i] = log[i]
        /\ log'[Len(log) + 1] = e
    BY <2>1, LogGrows DEF CertificatesTypeOK
  <2>3. Len(log) \in Nat \ {0}
    BY <2>2, EmptySeq DEF BeginsTheLog, CertificatesTypeOK
  <2>4. log' # <<>> /\ log'[1] = log[1]
    BY <2>2, <2>3
  <2>5. \A i \in 2..Len(log') : log'[i].what # "config_snapshot"
    <3>1. SUFFICES ASSUME NEW i \in 2..Len(log') PROVE log'[i].what # "config_snapshot"
      OBVIOUS
    <3>2. i \in 2..Len(log) \/ i = Len(log) + 1
      BY <2>2
    <3>3. QED  BY <2>1, <2>2, <3>2 DEF BeginsTheLog
  <2>6. QED  BY <2>4, <2>5 DEF BeginsTheLog
<1>3. QED  BY <1>1, <1>2

(* What is composed is a certificate. *)
LEMMA ComposedIs ==
  ASSUME log \in Seq(Entries), NEW row \in RunRows, NEW r \in 1..Len(log)
  PROVE  Composed(row, r, UnderRoot(r)) \in Bodies
<1> DEFINE under == UnderRoot(r)
           snapshots == {i \in 1..Len(under) : under[i].of = "run" /\ under[i].what = "config_snapshot"}
<1>1. under \in Seq(Entries) /\ Len(under) = r /\ r \in Nat
  BY DEF UnderRoot
<1>2. Config(under) \in Nat \cup {NoFile}
  <2>1. CASE snapshots = {}
    BY <2>1 DEF Config
  <2>2. CASE snapshots # {}
    <3>1. snapshots \subseteq Nat
      OBVIOUS
    <3>2. \E i \in snapshots : \A k \in snapshots : i <= k
      BY <2>2, <3>1, LeastOf
    <3>3. PICK i \in snapshots : Config(under) = under[i].value
      BY <2>2, <3>2 DEF Config
    <3>4. under[i] \in Entries
      BY <1>1
    <3>5. QED  BY <3>3, <3>4 DEF Entries
  <2>3. QED  BY <2>1, <2>2
<1>3. Finished(under) \in BOOLEAN
  BY DEF Finished
<1>4. {i \in 1..Len(under) : under[i].of = "run"} \in SUBSET Nat
  BY <1>1
<1>5. row.status \in Statuses /\ row.content \in Nat
  BY DEF RunRows
<1> HIDE DEF under
<1>6. QED  BY <1>1, <1>2, <1>3, <1>4, <1>5 DEF Composed, Bodies, under

-----------------------------------------------------------------------------
(* An issuer goes on: of what it is doing only where it is changes, or what is named. *)
LEMMA NotIssuingIs == NotIssuing \in Issues /\ NotIssuing.at = "idle"
BY DEF NotIssuing, Issues, Points

(* Nothing is said of a run that has not begun. *)
LEMMA InitCertInv == CertificatesInit => CertInv
<1> SUFFICES ASSUME CertificatesInit PROVE CertInv
  OBVIOUS
<1>1. CertificatesTypeOK
  <2>1. run \in RunRows
    BY DEF CertificatesInit, RunRows, Statuses, Certifiable
  <2>2. issuing \in [Issuers -> Issues]
    BY NotIssuingIs DEF CertificatesInit
  <2>3. log \in Seq(Entries)
    BY DEF CertificatesInit
  <2>4. QED  BY <2>1, <2>2, <2>3 DEF CertificatesInit, CertificatesTypeOK
<1>2. BeginsTheLog
  BY NotIssuingIs DEF CertificatesInit, BeginsTheLog
<1>3. SealedAndRead
  BY NotIssuingIs DEF CertificatesInit, SealedAndRead, SealedBy
<1>4. LoopIsCurrent
  BY NotIssuingIs DEF CertificatesInit, LoopIsCurrent, Issuers
<1>5. FileIsCurrent
  BY DEF CertificatesInit, FileIsCurrent
<1>6. QED  BY <1>1, <1>2, <1>3, <1>4, <1>5 DEF CertInv

(* The first record is the one that tells what the run begins under. *)
LEMMA BeginKeeps == CertInv /\ Begin => CertInv'
<1> SUFFICES ASSUME CertInv, Begin PROVE CertInv'
  OBVIOUS
<1> USE DEF CertInv
<1>1. /\ run.status = "queued" /\ run' = [run EXCEPT !.status = "executing"] /\ issuing' = issuing
      /\ log = <<>> /\ ranUnder = NoFile /\ \A a \in Issuers : issuing[a].at = "idle"
      /\ UNCHANGED <<governing, whole, stored, excused>>
  BY DEF Begin, BeginsTheLog, FileVars
<1>2. run' \in RunRows /\ run'.status = "executing"
  BY <1>1, Typed DEF RunRows, Statuses, Certifiable, Settled
<1>3. PICK e \in Entries :
         /\ log' = Append(log, e) /\ e.of = "run"
         /\ IF e.what = "config_snapshot" THEN e.value = ranUnder' ELSE ranUnder' = NoFile
  <2>1. CASE Says("run", "config_snapshot", governing) /\ ranUnder' = governing
    <3> DEFINE e == [of |-> "run", what |-> "config_snapshot", value |-> governing]
    <3>1. e \in Entries
      BY Typed DEF Entries, Events
    <3>2. log' = Append(log, e)
      BY <2>1 DEF Says
    <3>3. QED  BY <2>1, <3>1, <3>2
  <2>2. CASE Says("run", "config_snapshot_failed", 0) /\ UNCHANGED ranUnder
    <3> DEFINE e == [of |-> "run", what |-> "config_snapshot_failed", value |-> 0]
    <3>1. e \in Entries
      BY DEF Entries, Events
    <3>2. log' = Append(log, e)
      BY <2>2 DEF Says
    <3>3. QED  BY <1>1, <2>2, <3>1, <3>2
  <2>3. QED  BY <2>1, <2>2 DEF Begin
<1>4. log' \in Seq(Entries) /\ Len(log') = 1 /\ log'[1] = e /\ log' # <<>>
  BY <1>1, <1>3
<1>5. CertificatesTypeOK'
  BY <1>1, <1>2, <1>4 DEF CertificatesTypeOK
<1>6. BeginsTheLog'
  BY <1>2, <1>3, <1>4 DEF BeginsTheLog
<1>7. SealedAndRead' /\ LoopIsCurrent' /\ FileIsCurrent'
  BY <1>1, <1>2 DEF SealedAndRead, SealedBy, LoopIsCurrent, FileIsCurrent, Settled, Issuers
<1>8. QED  BY <1>5, <1>6, <1>7

(* Nothing of the run is stored while the event loop is busy. *)
LEMMA StoreKeeps ==
  ASSUME CertInv, NEW status \in Settled \cup {"awaiting_approval", "failed"},
         NEW owed \in {"finished", "decided"}, run.status # "queued", Store(status, owed)
  PROVE  CertInv'
<1> USE DEF CertInv
<1>1. /\ run' = [run EXCEPT !.status = status] /\ UNCHANGED <<governing, log, whole, stored, excused, ranUnder>>
      /\ issuing' = [issuing EXCEPT ![Loop] = [NotIssuing EXCEPT !.at = owed, !.run = run']]
  BY DEF Store, FileVars
<1>2. run' \in RunRows /\ run'.status = status /\ status # "queued"
  BY <1>1, Typed DEF RunRows, Statuses, Certifiable, Settled
<1> DEFINE issue == [NotIssuing EXCEPT !.at = owed, !.run = run']
<1>3. issue \in Issues /\ issue.at = owed /\ issue.run = run'
  BY <1>2 DEF NotIssuing, Issues, Points
<1> HIDE DEF issue
<1>4. issuing' = [issuing EXCEPT ![Loop] = issue]
  BY <1>1 DEF issue
<1>5. CertificatesTypeOK'
  BY <1>1, <1>2, <1>3, <1>4 DEF CertificatesTypeOK
<1>6. issuing'[Loop] = issue /\ \A a \in Issuers \ {Loop} : issuing'[a] = issuing[a]
  BY <1>4 DEF CertificatesTypeOK, Issuers
<1>7. BeginsTheLog'
  BY <1>1, <1>2 DEF BeginsTheLog
<1>8. SealedAndRead'
  <2>1. SUFFICES ASSUME NEW a \in Issuers PROVE SealedBy(a)'
    BY DEF SealedAndRead
  <2>2. CASE a = Loop
    BY <1>3, <1>6, <2>2 DEF SealedBy
  <2>3. CASE a # Loop
    BY <1>1, <1>6, <2>3 DEF SealedAndRead, SealedBy, UnderRoot
  <2>4. QED  BY <2>2, <2>3
<1>9. LoopIsCurrent' /\ FileIsCurrent'
  BY <1>3, <1>6 DEF LoopIsCurrent, FileIsCurrent
<1>10. QED  BY <1>5, <1>7, <1>8, <1>9

(* An issuer goes on: of what it is doing only where it is changes. *)
LEMMA OnIssuing ==
  ASSUME CertificatesTypeOK, NEW a \in Issuers, NEW at \in Points, Goes(a, at)
  PROVE  /\ issuing' \in [Issuers -> Issues] /\ \A b \in Issuers \ {a} : issuing'[b] = issuing[b]
         /\ issuing'[a].at = at /\ issuing'[a].run = issuing[a].run
         /\ issuing'[a].root = issuing[a].root /\ issuing'[a].certificate = issuing[a].certificate
<1>1. issuing' = [issuing EXCEPT ![a].at = at] /\ issuing \in [Issuers -> Issues]
  BY DEF Goes, CertificatesTypeOK
<1>2. issuing'[a] = [issuing[a] EXCEPT !.at = at] /\ \A b \in Issuers \ {a} : issuing'[b] = issuing[b]
  BY <1>1
<1>3. issuing[a] \in Issues
  BY <1>1
<1>4. /\ issuing'[a] \in Issues
      /\ issuing'[a].at = at /\ issuing'[a].run = issuing[a].run
      /\ issuing'[a].root = issuing[a].root /\ issuing'[a].certificate = issuing[a].certificate
  BY <1>2, <1>3 DEF Issues
<1>5. QED  BY <1>1, <1>2, <1>4

(* One issuer turns to something else, and the others go on. *)
LEMMA StopsIssuing ==
  ASSUME CertificatesTypeOK, NEW a \in Issuers, NEW i \in Issues, issuing' = [issuing EXCEPT ![a] = i]
  PROVE  /\ issuing' \in [Issuers -> Issues] /\ \A b \in Issuers \ {a} : issuing'[b] = issuing[b]
         /\ issuing'[a] = i
BY DEF CertificatesTypeOK

(* The file is what it was, and nobody who could still change it lets go of it. *)
LEMMA FileStays ==
  ASSUME CertInv, NEW a \in Issuers, \A b \in Issuers \ {a} : issuing'[b] = issuing[b],
         run' = run, stored' = stored, excused => excused',
         NEW what, Grows(what) \/ UNCHANGED log,
         issuing[a].at = "writing" => issuing'[a].at = "writing" \/ excused',
         a # Loop => what # "finished",
         a = Loop /\ issuing[Loop].at \notin {"idle", "issued"} =>
           issuing'[Loop].at \notin {"idle", "issued"} \/ excused' \/ run.status \notin Settled,
         a = Loop /\ issuing[Loop].at \in {"idle", "issued"} => what # "finished"
  PROVE  FileIsCurrent'
<1> SUFFICES ASSUME run'.status \in Settled, stored' # NoFile, ~excused', issuing'[Loop].at \in {"idle", "issued"},
                    \A b \in Issuers : issuing'[b].at # "writing"
             PROVE  Current(stored)'
  BY DEF FileIsCurrent
<1>1. issuing[Loop].at \in {"idle", "issued"}
  BY DEF Issuers
<1>2. \A b \in Issuers : issuing[b].at # "writing"
  OBVIOUS
<1>3. Current(stored)
  BY <1>1, <1>2 DEF CertInv, FileIsCurrent
<1>4. what # "finished"
  BY <1>1
<1>5. log \in Seq(Entries)
  BY DEF CertInv, CertificatesTypeOK
<1>6. Current(stored)'
  <2>1. \E r \in 1..Len(log') : stored = Composed(run', r, UnderRoot(r)') /\ Finished(UnderRoot(r)') = Finished(log')
    <3>1. PICK r \in 1..Len(log) : stored = Composed(run, r, UnderRoot(r)) /\ Finished(UnderRoot(r)) = Finished(log)
      BY <1>3 DEF Current
    <3>2. r \in 1..Len(log') /\ UnderRoot(r)' = UnderRoot(r) /\ Finished(log') = Finished(log)
      BY <1>4, <1>5, StillTells
    <3>3. QED  BY <3>1, <3>2
  <2>2. QED  BY <2>1 DEF Current
<1>7. QED  BY <1>6

(* A step of one issuer, who leaves the run to the others. *)
LEMMA IssuerKeeps ==
  ASSUME CertInv, NEW a \in Issuers, issuing[a].at # "idle" \/ run.status # "queued",
         issuing' \in [Issuers -> Issues], \A b \in Issuers \ {a} : issuing'[b] = issuing[b],
         UNCHANGED <<run, governing, ranUnder, whole>>, excused' \in BOOLEAN,
         NEW what, what \notin {"finished", "config_snapshot"}, Grows(what) \/ UNCHANGED log,
         SealedBy(a)', a = Loop => LoopIsCurrent', FileIsCurrent'
  PROVE  CertInv'
<1> USE DEF CertInv
<1>1. CertificatesTypeOK'
  <2>1. log' \in Seq(Entries)
    BY LogGrows DEF Grows, CertificatesTypeOK
  <2>2. QED  BY <2>1 DEF CertificatesTypeOK
<1>2. BeginsTheLog'
  <2>1. run.status # "queued"
    BY DEF BeginsTheLog
  <2>2. QED  BY <2>1, StillBegins
<1>3. SealedAndRead'
  <2>1. SUFFICES ASSUME NEW b \in Issuers, b # a PROVE SealedBy(b)'
    BY DEF SealedAndRead
  <2>2. QED  BY <2>1, Unsealed DEF SealedAndRead
<1>4. LoopIsCurrent'
  <2>1. SUFFICES ASSUME a # Loop PROVE LoopIsCurrent'
    OBVIOUS
  <2>2. issuing'[Loop] = issuing[Loop]
    BY <2>1 DEF Issuers
  <2>3. ASSUME issuing[Loop].at \in {"sealed", "reading", "opening", "writing"}
        PROVE  Finished(SubSeq(log', 1, issuing[Loop].root)) = Finished(log')
    <3> DEFINE r == issuing[Loop].root
    <3>1. r \in 1..Len(log)
      BY <2>3 DEF SealedAndRead, SealedBy, Issuers
    <3>2. Finished(SubSeq(log, 1, r)) = Finished(log)
      BY <2>3 DEF LoopIsCurrent, UnderRoot
    <3> HIDE DEF r
    <3>3. SubSeq(log', 1, r) = SubSeq(log, 1, r) /\ Finished(log') = Finished(log)
      <4>1. CASE UNCHANGED log
        BY <4>1
      <4>2. CASE Grows(what)
        <5>1. PICK e \in Entries : log' = Append(log, e) /\ e.what = what
          BY <4>2 DEF Grows
        <5>2. /\ \A q \in 1..Len(log) : SubSeq(log', 1, q) = SubSeq(log, 1, q)
              /\ Finished(log') = Finished(log)
          BY <5>1, LogGrows DEF CertificatesTypeOK, UnderRoot
        <5>3. QED  BY <3>1, <5>2
      <4>3. QED  BY <4>1, <4>2
    <3>4. QED  BY <3>2, <3>3 DEF r
  <2>4. QED  BY <2>2, <2>3 DEF LoopIsCurrent, UnderRoot
<1>5. QED  BY <1>1, <1>2, <1>3, <1>4

(* Who looks has read the row, or is done. *)
LEMMA LookKeeps == ASSUME CertInv, NEW a \in Issuers, Look(a) PROVE CertInv'
<1> USE DEF CertInv
<1>1. /\ issuing[a].at = "looking" /\ UNCHANGED <<run, governing, log, whole, stored, excused, ranUnder>>
      /\ \/ Goes(a, "sealing")
         \/ issuing' = [issuing EXCEPT ![a] = NotIssuing]
  BY DEF Look, RunVars, FileVars, Goes
<1>2. a # Loop
  BY <1>1 DEF LoopIsCurrent
<1>3. /\ issuing' \in [Issuers -> Issues] /\ \A b \in Issuers \ {a} : issuing'[b] = issuing[b]
      /\ \/ issuing'[a].at = "idle"
         \/ issuing'[a].at = "sealing" /\ issuing'[a].run = issuing[a].run
  <2>1. CASE Goes(a, "sealing")
    BY <2>1, OnIssuing DEF Points
  <2>2. CASE issuing' = [issuing EXCEPT ![a] = NotIssuing]
    BY <2>2, NotIssuingIs, StopsIssuing
  <2>3. QED  BY <1>1, <2>1, <2>2
<1>4. SealedBy(a)'
  BY <1>1, <1>3 DEF SealedBy, SealedAndRead
<1>5. FileIsCurrent'
  BY <1>1, <1>2, <1>3, FileStays
<1>6. excused' \in BOOLEAN
  BY <1>1 DEF CertificatesTypeOK
<1>7. QED  BY <1>1, <1>2, <1>3, <1>4, <1>5, <1>6, IssuerKeeps

(* The root is over the log as it is. *)
LEMMA SealLogKeeps == ASSUME CertInv, NEW a \in Issuers, SealLog(a) PROVE CertInv'
<1> USE DEF CertInv
<1>1. /\ issuing[a].at = "sealing" /\ UNCHANGED <<run, governing, log, whole, stored, excused, ranUnder>>
      /\ issuing' = [issuing EXCEPT ![a].root = Len(log), ![a].at = "sealed"]
  BY DEF SealLog, RunVars, FileVars
<1>2. Len(log) \in Nat \ {0} /\ Len(log) \in 1..Len(log) /\ issuing[a] \in Issues
  BY <1>1, Typed, EmptySeq DEF BeginsTheLog
<1>3. /\ issuing' \in [Issuers -> Issues] /\ \A b \in Issuers \ {a} : issuing'[b] = issuing[b]
      /\ issuing'[a].at = "sealed" /\ issuing'[a].root = Len(log) /\ issuing'[a].run = issuing[a].run
  <2> DEFINE i == [issuing[a] EXCEPT !.root = Len(log), !.at = "sealed"]
  <2>1. i \in Issues /\ i.at = "sealed" /\ i.root = Len(log) /\ i.run = issuing[a].run
    BY <1>2 DEF Issues, Points
  <2>2. issuing' = [issuing EXCEPT ![a] = i]
    BY <1>1 DEF CertificatesTypeOK
  <2> HIDE DEF i
  <2>3. QED  BY <2>1, <2>2, StopsIssuing
<1>4. SealedBy(a)'
  BY <1>1, <1>2, <1>3 DEF SealedBy, SealedAndRead
<1>5. FileIsCurrent'
  BY <1>1, <1>3, FileStays
<1>6. excused' \in BOOLEAN
  BY <1>1 DEF CertificatesTypeOK
<1>7. UnderRoot(Len(log)) = log
  BY DEF UnderRoot, CertificatesTypeOK
<1>8. a = Loop => LoopIsCurrent'
  BY <1>1, <1>3, <1>7 DEF LoopIsCurrent, UnderRoot
<1>9. QED  BY <1>1, <1>3, <1>4, <1>5, <1>6, <1>8, IssuerKeeps

(* The record of the seal is not under it, and tells nothing of the run. *)
LEMMA RecordSealKeeps == ASSUME CertInv, NEW a \in Issuers, RecordSeal(a) PROVE CertInv'
<1> USE DEF CertInv
<1>1. /\ issuing[a].at = "sealed" /\ Goes(a, "reading") /\ UNCHANGED <<run, governing, whole, stored, excused, ranUnder>>
      /\ Grows("sealed")
  BY Written DEF RecordSeal, RunVars, FileVars, Says, Events
<1>2. /\ issuing' \in [Issuers -> Issues] /\ \A b \in Issuers \ {a} : issuing'[b] = issuing[b]
      /\ issuing'[a].at = "reading" /\ issuing'[a].root = issuing[a].root /\ issuing'[a].run = issuing[a].run
  BY <1>1, OnIssuing DEF Points
<1>3. /\ issuing[a].root \in 1..Len(log) /\ issuing[a].run \in RunRows
  BY <1>1 DEF SealedAndRead, SealedBy
<1>4. /\ issuing[a].root \in 1..Len(log')
      /\ SubSeq(log', 1, issuing[a].root) = SubSeq(log, 1, issuing[a].root)
      /\ Finished(log') = Finished(log)
  BY <1>1, <1>3, PrefixTells DEF CertificatesTypeOK
<1>5. SealedBy(a)'
  BY <1>2, <1>3, <1>4 DEF SealedBy
<1>6. FileIsCurrent'
  BY <1>1, <1>2, FileStays
<1>7. excused' \in BOOLEAN
  BY <1>1 DEF CertificatesTypeOK
<1>8. a = Loop => LoopIsCurrent'
  BY <1>1, <1>2, <1>4 DEF LoopIsCurrent, UnderRoot
<1>9. QED  BY <1>1, <1>2, <1>5, <1>6, <1>7, <1>8, IssuerKeeps

(* What is composed is of what is under the root. *)
LEMMA ReadLogKeeps == ASSUME CertInv, NEW a \in Issuers, ReadLog(a) PROVE CertInv'
<1> USE DEF CertInv
<1> DEFINE c == Composed(issuing[a].run, issuing[a].root, UnderRoot(issuing[a].root))
<1>1. /\ issuing[a].at = "reading" /\ UNCHANGED <<run, governing, log, whole, stored, excused, ranUnder>>
      /\ issuing' = [issuing EXCEPT ![a].at = "opening", ![a].certificate = c]
  BY DEF ReadLog, RunVars, FileVars, UnderRoot
<1>2. issuing[a].root \in 1..Len(log) /\ issuing[a].run \in RunRows /\ issuing[a] \in Issues
  BY <1>1, Typed DEF SealedAndRead, SealedBy
<1>3. c \in Bodies
  BY <1>2, ComposedIs DEF CertificatesTypeOK
<1> HIDE DEF c
<1>4. /\ issuing' \in [Issuers -> Issues] /\ \A b \in Issuers \ {a} : issuing'[b] = issuing[b]
      /\ issuing'[a].at = "opening" /\ issuing'[a].root = issuing[a].root /\ issuing'[a].run = issuing[a].run
      /\ issuing'[a].certificate = c
  <2> DEFINE i == [issuing[a] EXCEPT !.at = "opening", !.certificate = c]
  <2>1. /\ i \in Issues /\ i.at = "opening" /\ i.root = issuing[a].root /\ i.run = issuing[a].run
        /\ i.certificate = c
    BY <1>2, <1>3 DEF Issues, Points
  <2>2. issuing' = [issuing EXCEPT ![a] = i]
    BY <1>1 DEF CertificatesTypeOK
  <2> HIDE DEF i
  <2>3. QED  BY <2>1, <2>2, StopsIssuing
<1>5. SealedBy(a)'
  BY <1>1, <1>2, <1>4 DEF SealedBy, c, UnderRoot
<1>6. FileIsCurrent'
  BY <1>1, <1>4, FileStays
<1>7. excused' \in BOOLEAN
  BY <1>1 DEF CertificatesTypeOK
<1>8. a = Loop => LoopIsCurrent'
  BY <1>1, <1>4 DEF LoopIsCurrent, UnderRoot
<1>9. QED  BY <1>1, <1>4, <1>5, <1>6, <1>7, <1>8, IssuerKeeps

(* While somebody writes, nothing is said of the file. *)
LEMMA OpenFileKeeps == ASSUME CertInv, NEW a \in Issuers, OpenFile(a) PROVE CertInv'
<1> USE DEF CertInv
<1>1. /\ issuing[a].at = "opening" /\ Goes(a, "writing") /\ UNCHANGED <<run, governing, log, whole, excused, ranUnder>>
  BY DEF OpenFile, RunVars
<1>2. /\ issuing' \in [Issuers -> Issues] /\ \A b \in Issuers \ {a} : issuing'[b] = issuing[b]
      /\ issuing'[a].at = "writing" /\ issuing'[a].root = issuing[a].root /\ issuing'[a].run = issuing[a].run
      /\ issuing'[a].certificate = issuing[a].certificate
  BY <1>1, OnIssuing DEF Points
<1>3. SealedBy(a)'
  BY <1>1, <1>2 DEF SealedBy, SealedAndRead, UnderRoot
<1>4. FileIsCurrent'
  BY <1>2 DEF FileIsCurrent
<1>5. excused' \in BOOLEAN
  BY <1>1 DEF CertificatesTypeOK
<1>6. a = Loop => LoopIsCurrent'
  BY <1>1, <1>2 DEF LoopIsCurrent, UnderRoot
<1>7. QED  BY <1>1, <1>2, <1>3, <1>4, <1>5, <1>6, IssuerKeeps

(* What the event loop writes is current; of what an asker writes, what is not is excused. *)
LEMMA WriteFileKeeps == ASSUME CertInv, NEW a \in Issuers, WriteFile(a) PROVE CertInv'
<1> USE DEF CertInv
<1> DEFINE c == issuing[a].certificate
           r == issuing[a].root
<1>1. /\ issuing[a].at = "writing" /\ Goes(a, "issued") /\ UNCHANGED <<run, governing, log, whole, ranUnder>>
      /\ stored' = c \/ stored' = Garbled
      /\ excused' = \/ stored' = Garbled
                    \/ a \in Askers /\ (issuing[a].run # run \/ c.egress # Finished(log))
  BY DEF WriteFile, RunVars
<1>2. /\ issuing' \in [Issuers -> Issues] /\ \A b \in Issuers \ {a} : issuing'[b] = issuing[b]
      /\ issuing'[a].at = "issued"
  BY <1>1, OnIssuing DEF Points
<1>3. r \in 1..Len(log) /\ c = Composed(issuing[a].run, r, UnderRoot(r)) /\ c.egress = Finished(UnderRoot(r))
  BY <1>1 DEF SealedAndRead, SealedBy, Composed
<1>4. ASSUME ~excused' PROVE Current(stored)'
  <2>1. stored' = c
    BY <1>1, <1>4
  <2>2. issuing[a].run = run /\ Finished(UnderRoot(r)) = Finished(log)
    <3>1. CASE a \in Askers
      BY <1>1, <1>3, <1>4, <3>1
    <3>2. CASE a = Loop
      BY <1>1, <3>2 DEF LoopIsCurrent
    <3>3. QED  BY <3>1, <3>2 DEF Issuers
  <2> HIDE DEF c, r
  <2>3. QED  BY <1>1, <1>3, <2>1, <2>2 DEF Current, UnderRoot
<1>5. SealedBy(a)'
  BY <1>2 DEF SealedBy
<1>6. FileIsCurrent'
  BY <1>4 DEF FileIsCurrent
<1>7. excused' \in BOOLEAN
  BY <1>1
<1>8. a = Loop => LoopIsCurrent'
  BY <1>2 DEF LoopIsCurrent
<1>9. QED  BY <1>1, <1>2, <1>5, <1>6, <1>7, <1>8, IssuerKeeps

(* The file stays, and its writer is done. *)
LEMMA RecordIssuedKeeps == ASSUME CertInv, NEW a \in Issuers, RecordIssued(a) PROVE CertInv'
<1> USE DEF CertInv
<1>1. /\ issuing[a].at = "issued" /\ UNCHANGED <<run, governing, whole, stored, excused, ranUnder>>
      /\ issuing' = [issuing EXCEPT ![a] = NotIssuing]
      /\ Grows("certificate_issued")
  BY Written DEF RecordIssued, RunVars, FileVars, Says, Events
<1>2. /\ issuing' \in [Issuers -> Issues] /\ \A b \in Issuers \ {a} : issuing'[b] = issuing[b]
      /\ issuing'[a].at = "idle"
  BY <1>1, NotIssuingIs, StopsIssuing
<1>3. SealedBy(a)' /\ (a = Loop => LoopIsCurrent')
  BY <1>2 DEF SealedBy, LoopIsCurrent
<1>4. FileIsCurrent'
  BY <1>1, <1>2, FileStays
<1>5. excused' \in BOOLEAN
  BY <1>1 DEF CertificatesTypeOK
<1>6. QED  BY <1>1, <1>2, <1>3, <1>4, <1>5, IssuerKeeps

(* Whose failure leaves the file behind is excused. *)
LEMMA FailKeeps == ASSUME CertInv, NEW a \in Issuers, Fail(a) PROVE CertInv'
<1> USE DEF CertInv
<1>1. /\ issuing[a].at \in {"sealing", "opening", "writing"} /\ UNCHANGED <<run, governing, whole, stored, ranUnder>>
      /\ issuing' = [issuing EXCEPT ![a] = NotIssuing]
      /\ Grows("certificate_failed")
      /\ excused' = (excused \/ a = Loop \/ issuing[a].at = "writing")
  BY Written DEF Fail, RunVars, Says, Events
<1>2. /\ issuing' \in [Issuers -> Issues] /\ \A b \in Issuers \ {a} : issuing'[b] = issuing[b]
      /\ issuing'[a].at = "idle"
  BY <1>1, NotIssuingIs, StopsIssuing
<1>3. SealedBy(a)' /\ (a = Loop => LoopIsCurrent')
  BY <1>2 DEF SealedBy, LoopIsCurrent
<1>4. FileIsCurrent'
  BY <1>1, <1>2, FileStays
<1>5. excused' \in BOOLEAN
  BY <1>1 DEF CertificatesTypeOK
<1>6. QED  BY <1>1, <1>2, <1>3, <1>4, <1>5, IssuerKeeps

(* Who asks has the row as it is. *)
LEMMA AskKeeps == ASSUME CertInv, NEW t \in Askers, Ask(t) PROVE CertInv'
<1> USE DEF CertInv
<1> DEFINE i == [NotIssuing EXCEPT !.at = "looking", !.run = run]
<1>1. /\ run.status # "queued" /\ UNCHANGED <<run, governing, log, whole, stored, excused, ranUnder>>
      /\ issuing[t].at = "idle" /\ issuing' = [issuing EXCEPT ![t] = i]
  BY DEF Ask, RunVars, FileVars, Certifiable, Settled
<1>2. t \in Issuers /\ t # Loop
  BY CertificatesAssumption DEF Issuers
<1>3. i \in Issues /\ i.at = "looking" /\ i.run = run
  BY Typed DEF NotIssuing, Issues, Points
<1> HIDE DEF i
<1>4. /\ issuing' \in [Issuers -> Issues] /\ \A b \in Issuers \ {t} : issuing'[b] = issuing[b]
      /\ issuing'[t] = i
  BY <1>1, <1>2, <1>3, StopsIssuing
<1>5. SealedBy(t)'
  BY <1>1, <1>3, <1>4, Typed DEF SealedBy
<1>6. FileIsCurrent'
  BY <1>1, <1>2, <1>4, FileStays
<1>7. excused' \in BOOLEAN
  BY <1>1 DEF CertificatesTypeOK
<1>8. QED  BY <1>1, <1>2, <1>4, <1>5, <1>6, <1>7, IssuerKeeps

(* Recording how the run ended is the last it tells. *)
LEMMA RecordOutcomeKeeps == ASSUME CertInv, RecordOutcome PROVE CertInv'
<1> USE DEF CertInv
<1> DEFINE what == issuing[Loop].at
           i == IF Certify = "idle" THEN NotIssuing ELSE [issuing[Loop] EXCEPT !.at = Certify]
<1>1. /\ UNCHANGED <<run, governing, whole, stored, excused, ranUnder>>
      /\ what \in {"finished", "decided"} /\ what \in Events
      /\ issuing' = [issuing EXCEPT ![Loop] = i]
      /\ log' = Append(log, [of |-> "run", what |-> what, value |-> 0])
  BY DEF RecordOutcome, RunVars, FileVars, Says, Events, Issuers, CertificatesTypeOK
<1>2. Loop \in Issuers /\ issuing[Loop] \in Issues /\ run.status # "queued"
  BY <1>1, Typed DEF Issuers, BeginsTheLog
<1>3. /\ i \in Issues
      /\ IF run.status \in Settled THEN i.at = "sealing" /\ i.run = run ELSE i.at = "idle"
  <2>1. CASE run.status \in Settled
    <3>1. i = [issuing[Loop] EXCEPT !.at = "sealing"]
      BY <2>1 DEF Certify
    <3>2. issuing[Loop].run = run
      BY <1>1 DEF LoopIsCurrent
    <3>3. i \in Issues /\ i.at = "sealing" /\ i.run = issuing[Loop].run
      BY <1>2, <3>1 DEF Issues, Points
    <3>4. QED  BY <2>1, <3>2, <3>3
  <2>2. CASE run.status \notin Settled
    BY <2>2, NotIssuingIs DEF Certify
  <2>3. QED  BY <2>1, <2>2
<1>4. Grows(what)
  BY <1>1, Written
<1> HIDE DEF i, what
<1>5. /\ issuing' \in [Issuers -> Issues] /\ \A b \in Issuers \ {Loop} : issuing'[b] = issuing[b]
      /\ issuing'[Loop] = i
  BY <1>1, <1>2, <1>3, StopsIssuing
<1>6. CertificatesTypeOK'
  <2>1. log' \in Seq(Entries)
    BY <1>4, LogGrows DEF Grows, CertificatesTypeOK
  <2>2. QED  BY <1>1, <1>5, <2>1 DEF CertificatesTypeOK
<1>7. BeginsTheLog'
  BY <1>1, <1>2, <1>4, StillBegins
<1>8. SealedAndRead'
  <2>1. SUFFICES ASSUME NEW b \in Issuers PROVE SealedBy(b)'
    BY DEF SealedAndRead
  <2>2. CASE b = Loop
    BY <1>1, <1>3, <1>5, <2>2, Typed DEF SealedBy
  <2>3. CASE b # Loop
    BY <1>4, <1>5, <2>3, Unsealed DEF SealedAndRead
  <2>4. QED  BY <2>2, <2>3
<1>9. LoopIsCurrent'
  BY <1>1, <1>3, <1>5 DEF LoopIsCurrent
<1>10. FileIsCurrent'
  BY <1>1, <1>3, <1>5 DEF FileIsCurrent
<1>11. QED  BY <1>6, <1>7, <1>8, <1>9, <1>10

(* The run changes while nobody settles it: what it was certified as no longer matters. *)
LEMMA RunMovesKeeps ==
  ASSUME CertInv, LoopIsFree, run' \in RunRows, run'.status \notin Settled \cup {"queued"},
         UNCHANGED <<governing, whole, stored, excused, issuing, ranUnder>>,
         NEW what \in Events, what # "config_snapshot",
         log' = Append(log, [of |-> "run", what |-> what, value |-> 0]), run.status = "queued" => log = <<>>
  PROVE  CertInv'
<1> USE DEF CertInv
<1>1. Grows(what)
  BY Written
<1>2. CertificatesTypeOK'
  <2>1. log' \in Seq(Entries)
    BY <1>1, LogGrows DEF Grows, CertificatesTypeOK
  <2>2. QED  BY <2>1 DEF CertificatesTypeOK
<1>3. BeginsTheLog'
  <2>1. CASE run.status = "queued"
    <3>1. log = <<>> /\ ranUnder' = NoFile
      BY <2>1 DEF BeginsTheLog
    <3>2. log' = <<[of |-> "run", what |-> what, value |-> 0]>>
      BY <3>1
    <3>3. QED  BY <3>1, <3>2 DEF BeginsTheLog
  <2>2. CASE run.status # "queued"
    BY <1>1, <2>2, StillBegins
  <2>3. QED  BY <2>1, <2>2
<1>4. SealedAndRead'
  <2>1. SUFFICES ASSUME NEW b \in Issuers PROVE SealedBy(b)'
    BY DEF SealedAndRead
  <2>2. QED  BY <1>1, Unsealed DEF SealedAndRead
<1>5. LoopIsCurrent' /\ FileIsCurrent'
  BY DEF LoopIsFree, LoopIsCurrent, FileIsCurrent
<1>6. QED  BY <1>2, <1>3, <1>4, <1>5

(* A run that is stopped is not settled. *)
LEMMA StoppedKeeps == ASSUME CertInv, Stopped PROVE CertInv'
<1> USE DEF CertInv
<1>1. /\ LoopIsFree /\ UNCHANGED <<governing, whole, stored, excused, issuing, ranUnder>>
      /\ run' = [run EXCEPT !.status = "cancelled"]
      /\ log' = Append(log, [of |-> "run", what |-> "cancelled", value |-> 0])
  BY DEF Stopped, FileVars, Says
<1>2. run' \in RunRows /\ run'.status = "cancelled"
  BY <1>1, Typed DEF RunRows, Statuses
<1>3. run.status = "queued" => log = <<>>
  BY DEF BeginsTheLog
<1>4. "cancelled" \in Events
  BY DEF Events
<1>5. QED  BY <1>1, <1>2, <1>3, <1>4, RunMovesKeeps DEF Settled

(* Only of a run that is held is anything resolved. *)
LEMMA ResolveHeldKeeps == ASSUME CertInv, ResolveHeld PROVE CertInv'
<1> USE DEF CertInv
<1>1. /\ LoopIsFree /\ UNCHANGED <<governing, whole, stored, excused, issuing, ranUnder>>
      /\ run.status = "awaiting_approval"
      /\ run' = [run EXCEPT !.content = 1]
      /\ log' = Append(log, [of |-> "run", what |-> "conflict_resolved", value |-> 0])
  BY DEF ResolveHeld, FileVars, Says
<1>2. run' \in RunRows /\ run'.status = "awaiting_approval"
  BY <1>1, Typed DEF RunRows
<1>3. "conflict_resolved" \in Events
  BY DEF Events
<1>4. QED  BY <1>1, <1>2, <1>3, RunMovesKeeps DEF Settled

(* Who dies while issuing leaves a file that is excused. *)
LEMMA RestartKeeps == ASSUME CertInv, Restart PROVE CertInv'
<1> USE DEF CertInv
<1>1. /\ UNCHANGED <<governing, whole, stored, ranUnder>>
      /\ issuing' = [a \in Issuers |-> NotIssuing]
      /\ excused' = (excused \/ issuing[Loop].at # "idle" \/ \E a \in Issuers : issuing[a].at = "writing")
  BY DEF Restart
<1>2. \A a \in Issuers : issuing'[a].at = "idle" /\ issuing'[a] \in Issues
  BY <1>1, NotIssuingIs
<1>3. issuing' \in [Issuers -> Issues] /\ excused' \in BOOLEAN
  BY <1>1, NotIssuingIs
<1>4. SealedAndRead' /\ LoopIsCurrent'
  BY <1>2 DEF SealedAndRead, SealedBy, LoopIsCurrent, Issuers
<1>5. CASE run.status \in {"queued", "executing"}
  <2>1. /\ run' = [run EXCEPT !.status = "failed"]
        /\ log' = Append(log, [of |-> "run", what |-> "recovered", value |-> 0])
    BY <1>5 DEF Restart, Says
  <2>2. run' \in RunRows /\ run'.status = "failed"
    BY <2>1, Typed DEF RunRows, Statuses
  <2>3. Grows("recovered")
    BY <2>1, Written DEF Events
  <2>4. CertificatesTypeOK'
    <3>1. log' \in Seq(Entries)
      BY <2>3, LogGrows DEF Grows, CertificatesTypeOK
    <3>2. QED  BY <1>1, <1>3, <2>2, <3>1 DEF CertificatesTypeOK
  <2>5. BeginsTheLog'
    <3>1. CASE run.status = "queued"
      <4>1. log = <<>> /\ ranUnder' = NoFile
        BY <1>1, <3>1 DEF BeginsTheLog
      <4>2. log' = <<[of |-> "run", what |-> "recovered", value |-> 0]>>
        BY <2>1, <4>1
      <4>3. QED  BY <2>2, <4>1, <4>2 DEF BeginsTheLog
    <3>2. CASE run.status # "queued"
      BY <1>1, <2>2, <2>3, <3>2, StillBegins
    <3>3. QED  BY <3>1, <3>2
  <2>6. FileIsCurrent'
    BY <2>2 DEF FileIsCurrent, Settled
  <2>7. QED  BY <1>4, <2>4, <2>5, <2>6
<1>6. CASE run.status \notin {"queued", "executing"}
  <2>1. UNCHANGED <<run, log>>
    BY <1>6 DEF Restart
  <2>2. CertificatesTypeOK' /\ BeginsTheLog'
    BY <1>1, <1>3, <1>6, <2>1 DEF CertificatesTypeOK, BeginsTheLog
  <2>3. FileIsCurrent'
    BY <1>1, <2>1 DEF FileIsCurrent, Current, UnderRoot
  <2>4. QED  BY <1>4, <2>2, <2>3
<1>7. QED  BY <1>5, <1>6

(* What is done elsewhere leaves the run, its issuers and its file alone. *)
LEMMA ElsewhereKeeps ==
  ASSUME CertInv, UNCHANGED <<run, stored, excused, issuing, ranUnder>>, governing' \in Nat, whole' \in BOOLEAN,
         NEW what, what \notin {"finished", "config_snapshot"}, Grows(what) \/ UNCHANGED log,
         run.status = "queued" => UNCHANGED log
  PROVE  CertInv'
<1> USE DEF CertInv
<1>1. CertificatesTypeOK'
  <2>1. log' \in Seq(Entries)
    BY LogGrows DEF Grows, CertificatesTypeOK
  <2>2. QED  BY <2>1 DEF CertificatesTypeOK
<1>2. BeginsTheLog'
  <2>1. CASE run.status = "queued"
    BY <2>1 DEF BeginsTheLog
  <2>2. CASE run.status # "queued"
    BY <2>2, StillBegins
  <2>3. QED  BY <2>1, <2>2
<1>3. SealedAndRead'
  <2>1. SUFFICES ASSUME NEW b \in Issuers PROVE SealedBy(b)'
    BY DEF SealedAndRead
  <2>2. QED  BY Unsealed DEF SealedAndRead
<1>4. Loop \in Issuers
  BY DEF Issuers
<1>5. FileIsCurrent'
  BY <1>4, FileStays
<1>6. LoopIsCurrent'
  <2>1. ASSUME issuing[Loop].at \in {"sealed", "reading", "opening", "writing"}
        PROVE  Finished(SubSeq(log', 1, issuing[Loop].root)) = Finished(log')
    <3>1. issuing[Loop].root \in 1..Len(log) /\ Finished(SubSeq(log, 1, issuing[Loop].root)) = Finished(log)
      BY <1>4, <2>1 DEF SealedAndRead, SealedBy, LoopIsCurrent, UnderRoot
    <3>2. CASE UNCHANGED log
      BY <3>1, <3>2
    <3>3. CASE Grows(what)
      <4>1. /\ SubSeq(log', 1, issuing[Loop].root) = SubSeq(log, 1, issuing[Loop].root)
            /\ Finished(log') = Finished(log)
        BY <3>1, <3>3, PrefixTells DEF CertificatesTypeOK
      <4>2. QED  BY <3>1, <4>1
    <3>4. QED  BY <3>2, <3>3
  <2>2. QED  BY <2>1 DEF LoopIsCurrent, UnderRoot
<1>7. QED  BY <1>1, <1>2, <1>3, <1>5, <1>6

(* Every step keeps the invariant. *)
LEMMA NextKeepsCertInv == CertInv /\ [CertificatesNext]_certificateVars => CertInv'
<1> SUFFICES ASSUME CertInv, [CertificatesNext]_certificateVars PROVE CertInv'
  OBVIOUS
<1>1. CASE Begin
  BY <1>1, BeginKeeps
<1>2. CASE Finish
  <2>1. PICK s \in {"delivered", "awaiting_approval", "failed"} : run.status = "executing" /\ Store(s, "finished")
    BY <1>2 DEF Finish
  <2>2. QED  BY <2>1, StoreKeeps DEF Settled
<1>3. CASE Decide
  <2>1. PICK s \in Settled : run.status = "awaiting_approval" /\ Store(s, "decided")
    BY <1>3 DEF Decide
  <2>2. QED  BY <2>1, StoreKeeps
<1>4. CASE RecordOutcome
  BY <1>4, RecordOutcomeKeeps
<1>5. CASE Stopped
  BY <1>5, StoppedKeeps
<1>6. CASE ResolveHeld
  BY <1>6, ResolveHeldKeeps
<1>7. CASE \E t \in Askers : Ask(t)
  BY <1>7, AskKeeps
<1>8. ASSUME NEW a \in Issuers,
             \/ Look(a) \/ SealLog(a) \/ RecordSeal(a) \/ ReadLog(a)
             \/ OpenFile(a) \/ WriteFile(a) \/ RecordIssued(a) \/ Fail(a)
      PROVE  CertInv'
  BY <1>8, LookKeeps, SealLogKeeps, RecordSealKeeps, ReadLogKeeps, OpenFileKeeps, WriteFileKeeps,
     RecordIssuedKeeps, FailKeeps
<1>9. CASE Restart
  BY <1>9, RestartKeeps
<1>10. CASE BreakChain
  <2>1. UNCHANGED <<run, stored, excused, issuing, ranUnder, governing, log>> /\ whole' \in BOOLEAN
    BY <1>10 DEF BreakChain, RunVars, FileVars
  <2>2. (Grows("other") \/ UNCHANGED log) /\ "other" \notin {"finished", "config_snapshot"}
    BY <2>1
  <2>3. governing' \in Nat
    BY <2>1 DEF CertInv, CertificatesTypeOK
  <2>4. QED  BY <2>1, <2>2, <2>3, ElsewhereKeeps
<1>11. CASE OthersWrite
  <2>1. /\ UNCHANGED <<run, stored, excused, issuing, ranUnder, governing, whole>>
        /\ log' = Append(log, [of |-> "log", what |-> "other", value |-> 0])
        /\ \E a \in Issuers : issuing[a].at \in {"sealed", "reading"}
    BY <1>11 DEF OthersWrite, RunVars, FileVars, Says
  <2>2. Grows("other") /\ run.status # "queued"
    BY <2>1, Written DEF Events, CertInv, BeginsTheLog
  <2>3. governing' \in Nat /\ whole' \in BOOLEAN
    BY <2>1 DEF CertInv, CertificatesTypeOK
  <2>4. QED  BY <2>1, <2>2, <2>3, ElsewhereKeeps
<1>12. CASE EditGoverning
  <2>1. UNCHANGED <<run, stored, excused, issuing, ranUnder, whole, log>> /\ governing' = governing + 1
    BY <1>12 DEF EditGoverning, RunVars, FileVars
  <2>2. governing' \in Nat /\ whole' \in BOOLEAN
    BY <2>1 DEF CertInv, CertificatesTypeOK
  <2>3. (Grows("other") \/ UNCHANGED log) /\ "other" \notin {"finished", "config_snapshot"}
    BY <2>1
  <2>4. QED  BY <2>1, <2>2, <2>3, ElsewhereKeeps
<1>13. CASE UNCHANGED certificateVars
  <2>1. UNCHANGED <<run, stored, excused, issuing, ranUnder, whole, log, governing>>
    BY <1>13 DEF certificateVars
  <2>2. governing' \in Nat /\ whole' \in BOOLEAN
    BY <2>1 DEF CertInv, CertificatesTypeOK
  <2>3. (Grows("other") \/ UNCHANGED log) /\ "other" \notin {"finished", "config_snapshot"}
    BY <2>1
  <2>4. QED  BY <2>1, <2>2, <2>3, ElsewhereKeeps
<1>14. QED
  BY <1>1, <1>2, <1>3, <1>4, <1>5, <1>6, <1>7, <1>8, <1>9, <1>10, <1>11, <1>12, <1>13 DEF CertificatesNext

-----------------------------------------------------------------------------
(* What was recorded first is what the run is said to have begun under. *)
LEMMA BeganUnder ==
  ASSUME CertInv, run.status # "queued", NEW r \in 1..Len(log)
  PROVE  /\ Config(UnderRoot(r)) = ranUnder
         /\ 1 \in {i \in 1..Len(UnderRoot(r)) : UnderRoot(r)[i].of = "run"}
<1> USE DEF CertInv
<1> DEFINE under == UnderRoot(r)
           snapshots == {i \in 1..Len(under) : under[i].of = "run" /\ under[i].what = "config_snapshot"}
<1>1. r \in Nat \ {0} /\ Len(under) = r /\ \A i \in 1..r : under[i] = log[i]
  BY DEF UnderRoot, CertificatesTypeOK
<1>2. 1 \in 1..Len(under) /\ under[1] = log[1]
  BY <1>1
<1>3. \A i \in snapshots : i = 1
  <2>1. SUFFICES ASSUME NEW i \in snapshots, i # 1 PROVE FALSE
    OBVIOUS
  <2>2. i \in 2..Len(log) /\ under[i] = log[i]
    BY <1>1, <2>1
  <2>3. QED  BY <2>1, <2>2 DEF BeginsTheLog
<1> HIDE DEF under
<1>4. CASE log[1].what = "config_snapshot"
  <2>1. snapshots = {1} /\ under[1].value = ranUnder
    BY <1>2, <1>3, <1>4 DEF BeginsTheLog
  <2>2. (CHOOSE i \in snapshots : \A j \in snapshots : i <= j) = 1
    BY <2>1
  <2>3. Config(under) = ranUnder
    BY <2>1, <2>2 DEF Config
  <2>4. QED  BY <1>2, <2>3 DEF BeginsTheLog, under
<1>5. CASE log[1].what # "config_snapshot"
  <2>1. snapshots = {} /\ ranUnder = NoFile
    BY <1>2, <1>3, <1>5 DEF BeginsTheLog
  <2>2. Config(under) = ranUnder
    BY <2>1 DEF Config
  <2>3. QED  BY <1>2, <2>2 DEF BeginsTheLog, under
<1>6. QED  BY <1>4, <1>5

(* The check that every record of the run is under the root it names. *)
LEMMA IncludedUnder ==
  ASSUME NEW n \in Nat, NEW i \in 1..n
  PROVE  VerifyInclusion(i, InclusionProof(Places(n), i), MerkleRoot(Places(n)))
<1>1. Places(n) \in Seq(Nat) /\ Len(Places(n)) = n /\ Places(n)[i] = i
  <2>1. Places(n) \in [1..n -> Nat]
    BY DEF Places
  <2>2. Places(n) \in Seq(Nat)
    BY <2>1, SeqDef
  <2>3. QED  BY <2>2, LenProperties DEF Places
<1> DEFINE p == Places(n)
<1>2. p \in Seq(Nat) /\ i \in 1..Len(p) /\ p[i] = i
  BY <1>1
<1> HIDE DEF p
<1>3. VerifyInclusion(p[i], InclusionProof(p, i), MerkleRoot(p))
  BY <1>2, InclusionVerifies
<1>4. QED  BY <1>2, <1>3 DEF p

(* A certificate of the run as it is passes its own checks. *)
LEMMA CurrentTellsTheRun == CertInv => CertificateTellsTheRun
<1> SUFFICES ASSUME CertInv, run.status \in Settled, stored # NoFile, ~excused,
                    \A a \in Issuers : issuing[a].at = "idle"
             PROVE  /\ stored \notin {Empty, Garbled}
                    /\ stored.status = run.status /\ stored.content = run.content
                    /\ whole => /\ stored.config = ranUnder /\ stored.egress = Finished(log)
                                /\ Failing(stored) = {}
  BY DEF CertificateTellsTheRun
<1> USE DEF CertInv
<1>1. run.status # "queued"
  BY DEF Settled
<1>2. PICK r \in 1..Len(log) : stored = Composed(run, r, UnderRoot(r)) /\ Finished(UnderRoot(r)) = Finished(log)
  <2>1. Loop \in Issuers
    BY DEF Issuers
  <2>2. Current(stored)
    BY <2>1 DEF FileIsCurrent
  <2>3. QED  BY <2>2 DEF Current
<1>3. log \in Seq(Entries) /\ run \in RunRows /\ r \in Nat \ {0} /\ Len(log) \in Nat /\ r <= Len(log)
  BY Typed
<1>4. Len(UnderRoot(r)) = r
  BY <1>3 DEF UnderRoot
<1>5. stored \in Bodies
  BY <1>2, <1>3, ComposedIs
<1>6. /\ stored.status = run.status /\ stored.content = run.content
      /\ stored.config = Config(UnderRoot(r)) /\ stored.egress = Finished(UnderRoot(r))
      /\ stored.root = r /\ stored.leaves = r
      /\ stored.of = {i \in 1..r : UnderRoot(r)[i].of = "run"}
  BY <1>2, <1>4 DEF Composed
<1>7. Config(UnderRoot(r)) = ranUnder /\ stored.of # {}
  BY <1>1, <1>4, <1>6, BeganUnder
<1>8. ASSUME whole PROVE Failing(stored) = {}
  <2>1. \A i \in stored.of :
           VerifyInclusion(i, InclusionProof(Places(stored.leaves), i), MerkleRoot(Places(stored.root)))
    BY <1>3, <1>6, IncludedUnder
  <2>2. ~(Len(log) < stored.root)
    BY <1>3, <1>6
  <2>3. Config(SubSeq(log, 1, stored.root)) = stored.config /\ Finished(SubSeq(log, 1, stored.root)) = stored.egress
    BY <1>6 DEF UnderRoot
  <2> DEFINE included == \/ stored.of = {}
                         \/ \E i \in stored.of :
                              ~VerifyInclusion(i, InclusionProof(Places(stored.leaves), i), MerkleRoot(Places(stored.root)))
             chained == ~whole
             shorter == Len(log) < stored.root
             differs == \/ Config(SubSeq(log, 1, stored.root)) # stored.config
                        \/ Finished(SubSeq(log, 1, stored.root)) # stored.egress
             fails == [inclusion |-> included, chain |-> chained, reproduced |-> shorter, provenance |-> differs]
  <2>4. included = FALSE /\ chained = FALSE /\ shorter = FALSE /\ differs = FALSE
    BY <1>7, <1>8, <2>1, <2>2, <2>3
  <2>5. Failing(stored) = {check \in DOMAIN fails : fails[check]}
    BY DEF Failing
  <2> HIDE DEF included, chained, shorter, differs
  <2>6. fails = [inclusion |-> FALSE, chain |-> FALSE, reproduced |-> FALSE, provenance |-> FALSE]
    BY <2>4
  <2> HIDE DEF fails
  <2>7. \A check \in DOMAIN fails : ~fails[check]
    BY <2>6
  <2>8. QED  BY <2>5, <2>7
<1>9. QED  BY <1>2, <1>5, <1>6, <1>7, <1>8, CertificatesAssumption

(* The certificate on disk of a settled run tells how it was settled, on   *)
(* what and under which configuration, and passes its own checks, for any  *)
(* number of askers, of records, edits and failures; with the exceptions   *)
(* the property names.                                                     *)
THEOREM CertificateTells == CertificatesSpec => []CertificateTellsTheRun
<1>1. CertificatesInit => CertInv
  BY InitCertInv
<1>2. CertInv /\ [CertificatesNext]_certificateVars => CertInv'
  BY NextKeepsCertInv
<1>3. CertInv => CertificateTellsTheRun
  BY CurrentTellsTheRun
<1>4. QED  BY <1>1, <1>2, <1>3, PTL DEF CertificatesSpec
=============================================================================
