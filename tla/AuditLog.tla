------------------------------ MODULE AuditLog -------------------------------
(***************************************************************************)
(* The audit log: a file of hash-chained records that threads and other    *)
(* processes append to, and the signed Merkle roots that seal it.          *)
(*                                                                         *)
(* A hash is a number no other record has.  Readers skip lines they cannot *)
(* parse, so of the file only the readable records matter and, for the     *)
(* next append, how it ends: a write that is cut short (the process dies,  *)
(* the disk is full) leaves part of a line, or a whole record that lacks   *)
(* its newline, and the next append goes on that same line.                *)
(***************************************************************************)
EXTENDS Naturals, Sequences, FiniteSets, Merkle

CONSTANTS
    Agents,      \* threads and processes that write to the log
    Sealers,     \* those of the API process, which also seal and verify
    Nobody,      \* no agent
    MaxRecords,  \* bound: records ever written
    MaxCuts      \* bound: writes cut short

ASSUME AuditAssumption ==
    /\ Sealers \subseteq Agents
    /\ Nobody \notin Agents
    /\ MaxRecords \in Nat
    /\ MaxCuts \in Nat

VARIABLES
    records,  \* what reading the file yields
    end,      \* how the file ends
    lock,     \* who holds the log's lock file
    step,     \* where each agent is
    tail,     \* the sequence number and hash each agent read off the end
    head,     \* the head hash each agent verified the chain up to
    held,     \* the hashes each agent read to verify the roots
    roots,    \* audit-roots.jsonl
    written,  \* records whose append returned
    issued,   \* hashes used
    cuts,     \* writes cut short so far
    alarm     \* a sealed root was reported as not reproduced

logVars == <<records, end, lock, step, tail, head, held, roots, written, issued,
          cuts, alarm>>
file   == <<records, end, written, issued, cuts>>
sealed == <<roots, alarm>>

Records == [hash : Nat, seq : Nat, prev : Nat]
Steps   == {"idle", "writing", "checked", "sealed", "read"}
Genesis == 0
ChainStart   == [seq |-> 0, hash |-> Genesis]

(* The types, that the lock is held by an agent that is writing, and that  *)
(* no record and no root is spoken of before there is one.                 *)
LogTypeOK ==
    /\ records \in Seq(Records)
    /\ end \in {"line", "junk", "part", "whole"}
    /\ step \in [Agents -> Steps]
    /\ lock \in Agents \cup {Nobody}
    /\ lock \in Agents => step[lock] = "writing"
    /\ tail \in [Agents -> [seq : Nat, hash : Nat]]
    /\ head \in [Agents -> Nat]
    /\ held \in [Agents -> Seq(Nat)]
    /\ \A r \in roots : r.events \in Nat /\ r.head \in Nat
    /\ written \subseteq 1..issued
    /\ issued \in Nat
    /\ cuts \in Nat
    /\ alarm \in BOOLEAN

LogInit ==
    /\ records = <<>>
    /\ end = "line"
    /\ lock = Nobody
    /\ step = [a \in Agents |-> "idle"]
    /\ tail = [a \in Agents |-> ChainStart]
    /\ head = [a \in Agents |-> Genesis]
    /\ held = [a \in Agents |-> <<>>]
    /\ roots = {}
    /\ written = {}
    /\ issued = 0
    /\ cuts = 0
    /\ alarm = FALSE

Proceed(a, s) == step' = [step EXCEPT ![a] = s]

(* a is done with what it was doing. *)
Done(a) ==
    /\ Proceed(a, "idle")
    /\ tail' = [tail EXCEPT ![a] = ChainStart]
    /\ head' = [head EXCEPT ![a] = Genesis]
    /\ held' = [held EXCEPT ![a] = <<>>]

Unlock(a) == lock' = IF lock = a THEN Nobody ELSE lock

-----------------------------------------------------------------------------
(* Reading. *)

Hashes == [i \in 1..Len(records) |-> records[i].hash]

(* The hash a record must have before it. *)
Before(i) == IF i = 1 THEN Genesis ELSE records[i - 1].hash

ChainValid == \A i \in 1..Len(records) : records[i].prev = Before(i)

(* An unreadable last line sends _tail back through the whole file, where  *)
(* the last line is still that one: the chain starts over.                 *)
LastRecord ==
    IF end \in {"junk", "part"} \/ records = <<>>
    THEN ChainStart
    ELSE [seq |-> records[Len(records)].seq, hash |-> records[Len(records)].hash]

-----------------------------------------------------------------------------
(* Appending: under the lock, the tail is read and a line is written.      *)
(* (Mutation first: the lock orders nothing.)                              *)

ReadTailUnlocked(a) ==
    /\ step[a] \in {"idle", "sealed"}
    /\ issued < MaxRecords
    /\ tail' = [tail EXCEPT ![a] = LastRecord]
    /\ Proceed(a, "writing")
    /\ UNCHANGED <<file, lock, head, held, sealed>>

ReadTail(a) ==
    /\ lock = Nobody
    /\ step[a] \in {"idle", "sealed"}
    /\ issued < MaxRecords
    /\ lock' = a
    /\ tail' = [tail EXCEPT ![a] = LastRecord]
    /\ Proceed(a, "writing")
    /\ UNCHANGED <<file, head, held, sealed>>

NewRecord(a) == [hash |-> issued + 1, seq |-> tail[a].seq + 1, prev |-> tail[a].hash]

(* A line of its own is read back; one that continues an unfinished line   *)
(* makes that line unreadable, and takes with it a record that lacked only *)
(* its newline.  (Mutation first: such a line is not ended either.)        *)
PutEnding(r, unreadable) ==
    IF end \in {"line", "junk"}
    THEN /\ records' = Append(records, r)
         /\ end' = "line"
    ELSE /\ records' = IF end = "whole" THEN SubSeq(records, 1, Len(records) - 1) ELSE records
         /\ end' = unreadable

PutUnended(r) == PutEnding(r, "part")

Put(r) == PutEnding(r, "junk")

Write(a) ==
    /\ step[a] = "writing"
    /\ Put(NewRecord(a))
    /\ issued' = issued + 1
    /\ written' = written \cup {issued + 1}
    /\ Unlock(a)
    /\ Done(a)
    /\ UNCHANGED <<cuts, sealed>>

(* The write is cut short; whoever was writing fails or dies. *)
Cut(a) ==
    /\ step[a] = "writing"
    /\ cuts < MaxCuts
    /\ cuts' = cuts + 1
    /\ issued' = issued + 1
    /\ \/ /\ end' = "part"
          /\ records' = IF end = "whole" THEN SubSeq(records, 1, Len(records) - 1) ELSE records
       \/ /\ end \in {"line", "junk"}
          /\ end' = "whole"
          /\ records' = Append(records, NewRecord(a))
    /\ Unlock(a)
    /\ Done(a)
    /\ UNCHANGED <<written, sealed>>

-----------------------------------------------------------------------------
(* Sealing.  One thread of the API process seals at a time; the chain is   *)
(* verified first, and the hashes are then read again.                     *)

VerifyChain(a) ==
    /\ a \in Sealers
    /\ step[a] = "idle"
    /\ \A b \in Agents : step[b] # "checked"
    /\ ChainValid
    /\ head' = [head EXCEPT ![a] = IF records = <<>> THEN Genesis ELSE records[Len(records)].hash]
    /\ Proceed(a, "checked")
    /\ UNCHANGED <<file, lock, tail, held, sealed>>

SealOf(a, count) ==
    /\ step[a] = "checked"
    /\ roots' = roots \cup
         {[events |-> count, head |-> head[a], merkle |-> MerkleRoot(Hashes)]}
    /\ head' = [head EXCEPT ![a] = Genesis]
    /\ Proceed(a, "sealed")
    /\ UNCHANGED <<file, lock, tail, held, alarm>>

(* Mutation: one event short. *)
SealShort(a) == SealOf(a, IF records = <<>> THEN 0 ELSE Len(records) - 1)

Seal(a) == SealOf(a, Len(records))

-----------------------------------------------------------------------------
(* Verifying: the hashes first, then the roots there are by then. *)

ReadHashes(a) ==
    /\ a \in Sealers
    /\ step[a] = "idle"
    /\ held' = [held EXCEPT ![a] = Hashes]
    /\ Proceed(a, "read")
    /\ UNCHANGED <<file, lock, tail, head, sealed>>

Reproduces(hashes, root) ==
    /\ Len(hashes) >= root.events
    /\ MerkleRoot(SubSeq(hashes, 1, root.events)) = root.merkle

CheckRoots(a) ==
    /\ step[a] = "read"
    /\ alarm' = (alarm \/ \E r \in roots : ~ Reproduces(held[a], r))
    /\ Done(a)
    /\ UNCHANGED <<file, lock, roots>>

(* What an agent was doing ends, by an error, by its process or because a  *)
(* seal was all that was asked for.                                        *)
Stop(a) ==
    /\ step[a] # "idle"
    /\ Unlock(a)
    /\ Done(a)
    /\ UNCHANGED <<file, sealed>>

LogNext ==
    \E a \in Agents :
       \/ ReadTail(a) \/ Write(a) \/ Cut(a)
       \/ VerifyChain(a) \/ Seal(a)
       \/ ReadHashes(a) \/ CheckRoots(a)
       \/ Stop(a)

LogSpec == LogInit /\ [][LogNext]_logVars
-----------------------------------------------------------------------------
(* Properties. *)

(* However many processes append, the records form one chain, numbered     *)
(* from one without a gap (record's lock), as long as no write is cut.     *)
ChainIntact ==
    cuts = 0 =>
        /\ ChainValid
        /\ \A i \in 1..Len(records) : records[i].seq = i

(* A write that is cut costs at most one record that was reported written  *)
(* and breaks the chain in at most one place (_tail, _iter_raw).           *)
DamageIsBounded ==
    /\ Cardinality(written \ {records[i].hash : i \in 1..Len(records)}) <= cuts
    /\ Cardinality({i \in 1..Len(records) : records[i].prev # Before(i)}) <= cuts

(* What was sealed stays reproducible: the first n events of today's log   *)
(* give the root sealed over n (AuditSeal).                                *)
SealsReproduce == cuts = 0 => \A r \in roots : Reproduces(Hashes, r)

(* For all that the tail is read before the line is written and the chain  *)
(* verified before it is read again, whoever records or seals does it as   *)
(* if in one step, on the log as it is then (record's lock, _tail, seal).  *)
LG == INSTANCE Ledger WITH
        entries  <- records,
        edge     <- CASE end = "line" -> "sound" [] end = "junk" -> "spoilt" [] OTHER -> "open",
        used     <- issued,
        reported <- written,
        seals    <- {[events |-> r.events, merkle |-> r.merkle] : r \in roots},
        RootOf   <- MerkleRoot

ImplementsLedger == LG!LedgerSpec
=============================================================================
