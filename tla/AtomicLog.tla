----------------------------- MODULE AtomicLog ------------------------------
(***************************************************************************)
(* What the block log (crates/tao-database/src/block_log.rs) promises the  *)
(* nodes that replay it: a sequence of records that is appended to, and    *)
(* replaced as a whole.  A power failure takes records off its end, never  *)
(* one of those the last replacement wrote, or undoes a replacement that   *)
(* is not settled yet.  The promise ends where records are appended behind *)
(* an interrupted append, or after a replacement that failed half way.     *)
(***************************************************************************)
EXTENDS Naturals, Sequences

CONSTANTS
    Record,         \* what can be appended
    Compaction,     \* what a replacement can write
    NoVersion

VARIABLES
    current,        \* [records, kept, broken]: what a replay returns, how
                    \* many of its records no failure takes away, and
                    \* whether the promise has ended
    previous        \* the version a power failure may bring back

vars == <<current, previous>>

Init ==
    /\ current = [records |-> <<>>, kept |-> 0, broken |-> FALSE]
    /\ previous = NoVersion

AppendRecord(r) ==
    /\ current' = [current EXCEPT !.records = Append(@, r)]
    /\ UNCHANGED previous

Replace(rs) ==
    /\ current' = [records |-> rs, kept |-> Len(rs), broken |-> FALSE]
    /\ previous' = current

Settle == previous' = NoVersion /\ UNCHANGED current

PowerFailure ==
    \E v \in {current, previous} \ {NoVersion} :
      /\ \E n \in v.kept..Len(v.records) :
           \/ v.broken
           \/ current' = [records |-> SubSeq(v.records, 1, n), kept |-> n, broken |-> FALSE]
      /\ previous' = NoVersion

Break == current'.broken

Next ==
    \/ \E r \in Record : AppendRecord(r)
    \/ \E rs \in Compaction : Replace(rs)
    \/ Settle
    \/ PowerFailure
    \/ Break
    \/ current.broken

Spec == Init /\ [][Next]_vars
=============================================================================
