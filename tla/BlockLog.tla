------------------------------ MODULE BlockLog ------------------------------
(***************************************************************************)
(* The durable log of blocks (crates/tao-database/src/block_log.rs), byte  *)
(* by byte: records framed by a big-endian length, append, replace_all and *)
(* read_all, by a process that may die between any two system calls, get   *)
(* an I/O error from any of them, or lose the power.                       *)
(*                                                                         *)
(* The length has two digits of base Base instead of four bytes.  The      *)
(* operating system is external: what was written survives the death of    *)
(* the process; a power failure keeps a prefix of a file that holds at     *)
(* least what was synced, and may undo a rename until the directory is     *)
(* synced.  append calls File::flush, which syncs nothing.                 *)
(***************************************************************************)
EXTENDS Naturals, SequencesExt

CONSTANTS
    Base,           \* values of a byte
    Record,         \* payloads, serialized blocks, which are never empty
    Compaction,     \* sequences of payloads that replace_all is called with
    MaxBytes,       \* bound: size of the log
    MaxFaults,      \* bound: crashes, I/O errors and power failures
    NONE

ASSUME LogAssumption ==
    /\ Base \in Nat \ {0, 1}
    /\ Record \subseteq Seq(0..(Base - 1)) \ {<<>>}
    /\ \A r \in Record : Len(r) < Base * Base
    /\ Compaction \subseteq Seq(Record)
    /\ {MaxBytes, MaxFaults} \subseteq Nat
    /\ NONE \notin [bytes : Seq(Nat), synced : Nat, torn : {"no", "tail", "inside"}]
    /\ NONE \notin [records : Seq(Record), kept : Nat, broken : BOOLEAN]

VARIABLES
    file,       \* the file at path: its bytes, how many of them are synced,
                \* and whether a cut short record is at its "tail", or
                \* "inside" it because an append went behind it
    old,        \* the file a power failure may bring back, or NONE
    temp,       \* the compaction file of the call in progress, or NONE
    open,       \* the process runs and holds the log
    attached,   \* its writer is the file at path
    call,       \* the call in progress: who is called and the next step
    acked,      \* history: the records a caller may expect in the log
    unsure,     \* history: since then replace_all has failed, or the power
    faults      \* history: how many faults happened

vars == <<file, old, temp, open, attached, call, acked, unsure, faults>>

Idle == [op |-> "none"]

EmptyFile == [bytes |-> <<>>, synced |-> 0, torn |-> "no"]

Init ==
    /\ file = EmptyFile
    /\ old = NONE
    /\ temp = NONE
    /\ open = FALSE
    /\ attached = TRUE
    /\ call = Idle
    /\ acked = <<>>
    /\ unsure = FALSE
    /\ faults = 0

----------------------------------------------------------------------------
(* Framing.                                                                *)

Header(r) == <<Len(r) \div Base, Len(r) % Base>>

Frame(r) == Header(r) \o r

EncodeNext(bytes, r) == bytes \o Frame(r)

Encode(rs) == FoldLeft(EncodeNext, <<>>, rs)

(* read_all: the complete records; a length cut short ends the log, a      *)
(* payload cut short is an error.                                          *)
ReadAll(bytes) ==
    LET n == Len(bytes)
        read[i \in 1..(n + 1)] ==
          LET len == bytes[i] * Base + bytes[i + 1]
          IN  IF i + 1 > n THEN [ok |-> TRUE, records |-> <<>>]
              ELSE IF i + 1 + len > n THEN [ok |-> FALSE, records |-> <<>>]
              ELSE [read[i + 2 + len] EXCEPT !.records = <<SubSeq(bytes, i + 2, i + 1 + len)>> \o @]
    IN  read[1]

----------------------------------------------------------------------------
(* The file system (external).                                             *)

Write(f, bytes) == [f EXCEPT !.bytes = @ \o bytes]

Sync(f) == [f EXCEPT !.synced = Len(f.bytes)]

(* A write that fails, or whose process dies, leaves a part of it.         *)
Parts(bytes) == {SubSeq(bytes, 1, n) : n \in 0..(Len(bytes) - 1)}

(* What a power failure leaves of a file.                                  *)
AfterPowerFailure(f) ==
    LET Left(n) == SubSeq(f.bytes, 1, n)
        Torn(n) == IF f.torn = "inside" THEN "inside"
                   ELSE IF Encode(ReadAll(Left(n)).records) = Left(n) THEN "no" ELSE "tail"
    IN  {[bytes |-> Left(n), synced |-> n, torn |-> Torn(n)] : n \in f.synced..Len(f.bytes)}

Fault == faults < MaxFaults /\ faults' = faults + 1

----------------------------------------------------------------------------
(* open and the replay by its caller, who gives up when read_all fails.    *)
OpenLog ==
    /\ ~open
    /\ ReadAll(file.bytes).ok
    /\ open' = TRUE
    /\ attached' = TRUE
    /\ acked' = ReadAll(file.bytes).records
    /\ unsure' = FALSE
    /\ UNCHANGED <<file, old, temp, call, faults>>

(* append takes the writer's lock: one call at a time.                     *)
BeginAppend(r) ==
    /\ open
    /\ call = Idle
    /\ Max({Len(file.bytes), Len(Encode(acked))}) + 2 + Len(r) <= MaxBytes
    /\ call' = [op |-> "append", record |-> r, writes |-> <<Header(r), r>>]
    /\ UNCHANGED <<file, old, temp, open, attached, acked, faults, unsure>>

(* Bytes that go behind a record cut short are misread with it.            *)
Appended(f, bytes) ==
    [Write(f, bytes) EXCEPT !.torn = IF @ = "no" \/ bytes = <<>> THEN @ ELSE "inside"]

(* The writer is the file at path, or the one that was replaced.           *)
Put(f, g) ==
    /\ file' = IF attached THEN f ELSE file
    /\ old' = IF attached \/ old = NONE THEN old ELSE g

(* One write_all; the last one ends the call.                              *)
AppendWrites ==
    /\ call.op = "append"
    /\ Put(Appended(file, Head(call.writes)), Appended(old, Head(call.writes)))
    /\ IF Len(call.writes) = 1
       THEN call' = Idle /\ acked' = Append(acked, call.record)
       ELSE call' = [call EXCEPT !.writes = Tail(@)] /\ UNCHANGED acked
    /\ UNCHANGED <<temp, open, attached, faults, unsure>>

(* What an append that ends in the middle of a write leaves.               *)
CutShort(f, part) ==
    [Appended(f, part) EXCEPT
       !.torn = IF @ = "no" /\ (part # <<>> \/ Len(call.writes) = 1) THEN "tail" ELSE @]

AppendFails ==
    /\ call.op = "append"
    /\ Fault
    /\ \E part \in Parts(Head(call.writes)) : Put(CutShort(file, part), CutShort(old, part))
    /\ call' = Idle
    /\ UNCHANGED <<temp, open, attached, acked, unsure>>

----------------------------------------------------------------------------
(* replace_all.                                                            *)

At(step) == call.op = "replace" /\ call.step = step

Goto(step) == call' = [call EXCEPT !.step = step]

BeginReplace(rs) ==
    /\ open
    /\ call = Idle
    /\ call' = [op |-> "replace", records |-> rs, step |-> "write"]
    /\ temp' = EmptyFile
    /\ UNCHANGED <<file, old, open, attached, acked, faults, unsure>>

WriteTemp ==
    /\ At("write")
    /\ temp' = Write(temp, Encode(call.records))
    /\ Goto("sync")
    /\ UNCHANGED <<file, old, open, attached, acked, faults, unsure>>

(* Mutant: sync_all is left out.                                           *)
SkipSync ==
    /\ At("sync")
    /\ Goto("rename")
    /\ UNCHANGED <<file, old, temp, open, attached, acked, faults, unsure>>

SyncTemp ==
    /\ At("sync")
    /\ temp' = Sync(temp)
    /\ Goto("rename")
    /\ UNCHANGED <<file, old, open, attached, acked, faults, unsure>>

Rename ==
    /\ At("rename")
    /\ old' = file
    /\ file' = temp
    /\ temp' = NONE
    /\ attached' = FALSE
    /\ Goto("sync dir")
    /\ UNCHANGED <<open, acked, faults, unsure>>

SyncDir ==
    /\ At("sync dir")
    /\ old' = NONE
    /\ Goto("repoint")
    /\ UNCHANGED <<file, temp, open, attached, acked, faults, unsure>>

(* Mutant: the writer stays on the file that was replaced.                 *)
KeepWriter ==
    /\ At("repoint")
    /\ acked' = call.records
    /\ call' = Idle
    /\ unsure' = FALSE
    /\ UNCHANGED <<file, old, temp, open, attached, faults>>

Repoint ==
    /\ At("repoint")
    /\ attached' = TRUE
    /\ acked' = call.records
    /\ call' = Idle
    /\ unsure' = FALSE
    /\ UNCHANGED <<file, old, temp, open, faults>>

(* Any step may fail: the error goes to the caller, what is done stays,    *)
(* but for the compaction file, which the next call truncates.             *)
ReplaceFails ==
    /\ call.op = "replace"
    /\ Fault
    /\ temp' = NONE
    /\ call' = Idle
    /\ unsure' = TRUE
    /\ UNCHANGED <<file, old, open, attached, acked>>

----------------------------------------------------------------------------
(* Faults of the process.                                                  *)

(* The process dies; the write in progress may be done in part.            *)
Die ==
    /\ open
    /\ Fault
    /\ IF call.op = "append"
       THEN \E part \in Parts(Head(call.writes)) : Put(CutShort(file, part), CutShort(old, part))
       ELSE UNCHANGED <<file, old>>
    /\ temp' = NONE
    /\ open' = FALSE
    /\ attached' = TRUE
    /\ call' = Idle
    /\ unsure' = (unsure \/ call.op = "replace")
    /\ UNCHANGED acked

PowerFails ==
    /\ Fault
    /\ \E f \in {file, old} \ {NONE} : file' \in AfterPowerFailure(f)
    /\ temp' = NONE
    /\ old' = NONE
    /\ open' = FALSE
    /\ attached' = TRUE
    /\ call' = Idle
    /\ unsure' = TRUE
    /\ UNCHANGED acked

Next ==
    \/ OpenLog
    \/ \E r \in Record : BeginAppend(r)
    \/ AppendWrites
    \/ AppendFails
    \/ \E rs \in Compaction : BeginReplace(rs)
    \/ WriteTemp
    \/ SyncTemp
    \/ Rename
    \/ SyncDir
    \/ Repoint
    \/ ReplaceFails
    \/ Die
    \/ PowerFails

Spec == Init /\ [][Next]_vars

----------------------------------------------------------------------------
(* The log is AtomicLog: "a crash leaves either the old or the new log     *)
(* intact, never a partial one" (replace_all), an append adds its record   *)
(* or nothing, and a record cut short, or a power failure, takes nothing   *)
(* that was there before away, whichever system calls happened.            *)
Version(f) == [records |-> ReadAll(f.bytes).records,
               kept    |-> Len(ReadAll(SubSeq(f.bytes, 1, f.synced)).records),
               broken  |-> f.torn = "inside"]

Current == [Version(file) EXCEPT !.broken = @ \/ (~attached /\ call.op # "replace")]

Previous == IF old = NONE THEN NONE ELSE Version(old)

Atomic == INSTANCE AtomicLog WITH
    current <- Current, previous <- Previous, NoVersion <- NONE

LogIsAtomic == Atomic!Spec

(* A replay returns, in order, the records the log held when it was opened *)
(* or replaced and every record appended since; a record cut short at the  *)
(* end makes it fail or is left out, it never becomes a record.            *)
AckedReadable ==
    call = Idle /\ ~unsure /\ file.torn # "inside"
      => /\ ReadAll(file.bytes).records = acked
         /\ file.torn = "no" => ReadAll(file.bytes).ok

=============================================================================
