------------------------------- MODULE Ledger --------------------------------
(***************************************************************************)
(* What the audit log promises whoever records or seals, as if each did it *)
(* alone: the abstract specification AuditLog is shown to implement.       *)
(* There are no agents, locks or readings here.  A record is numbered and  *)
(* chained by what the log ends with at the moment it is added, a seal is  *)
(* of the log at one moment, and a write that fails spoils its end only.   *)
(***************************************************************************)
EXTENDS Naturals, Sequences

CONSTANT RootOf(_)    \* the root sealed over a sequence of hashes

VARIABLES
    entries,    \* the records
    edge,       \* the log's end: sound, open (a line unfinished) or spoilt
    used,       \* hashes are numbered as they are made
    reported,   \* records whose recorder was told they are written
    seals

ledgerVars == <<entries, edge, used, reported, seals>>

LedgerInit ==
    /\ entries = <<>> /\ edge = "sound"
    /\ used = 0 /\ reported = {} /\ seals = {}

(* What the next record goes on from: nothing, if the end is spoilt. *)
LastEntry ==
    IF edge = "spoilt" \/ entries = <<>>
    THEN [seq |-> 0, hash |-> 0]
    ELSE [seq |-> entries[Len(entries)].seq, hash |-> entries[Len(entries)].hash]

NextEntry == [hash |-> used + 1, seq |-> LastEntry.seq + 1, prev |-> LastEntry.hash]

WithoutLast == SubSeq(entries, 1, Len(entries) - 1)

Use == used' = used + 1 /\ UNCHANGED seals

AddRecord ==
    /\ edge # "open"
    /\ entries' = Append(entries, NextEntry)
    /\ edge' = "sound"
    /\ reported' = reported \cup {used + 1}
    /\ Use

(* Added to an unfinished line: not to be read, nor what was on the line. *)
LoseRecord ==
    /\ edge = "open"
    /\ entries' \in {entries, WithoutLast}
    /\ edge' = "spoilt"
    /\ reported' = reported \cup {used + 1}
    /\ Use

FailToAdd ==
    /\ \/ entries' = entries
       \/ edge = "open" /\ entries' = WithoutLast
       \/ edge # "open" /\ entries' = Append(entries, NextEntry)
    /\ edge' = "open"
    /\ UNCHANGED reported
    /\ Use

SealLog ==
    /\ seals' = seals \cup
         {[events |-> Len(entries), merkle |-> RootOf([i \in 1..Len(entries) |-> entries[i].hash])]}
    /\ UNCHANGED <<entries, edge, used, reported>>

LedgerNext == AddRecord \/ LoseRecord \/ FailToAdd \/ SealLog

LedgerSpec == LedgerInit /\ [][LedgerNext]_ledgerVars
=============================================================================
