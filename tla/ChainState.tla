----------------------------- MODULE ChainState -----------------------------
(***************************************************************************)
(* The consensus core of the linear node: chain work (target.rs), LWMA     *)
(* difficulty (difficulty.rs) and ChainState (chain.rs), all of            *)
(* crates/tao-consensus, as operators on a chain value                     *)
(*                                                                         *)
(*   [headers, work, tip]                                                  *)
(*                                                                         *)
(* headers and work are the map `blocks': the header and the cumulative    *)
(* work of every known block.  256-bit words are 0..MaxWord.  A header has *)
(* at least the fields prev, height, time and target; its proof of work is *)
(* taken to be valid.  Cumulative work is taken not to overflow.           *)
(***************************************************************************)
EXTENDS Integers, FiniteSets, SequencesExt

CONSTANTS
    BlockId,          \* block ids
    GenesisId,        \* id of the genesis header
    GenesisTarget,    \* genesis_target
    MaxWord,          \* the largest 256-bit word
    BlockTime,        \* target_block_time_secs
    Window            \* window

ASSUME ChainAssumption ==
    /\ GenesisId \in BlockId
    /\ MaxWord \in Nat \ {0}
    /\ GenesisTarget \in 0..MaxWord
    /\ BlockTime \in Nat \ {0}
    /\ Window \in Nat \ {0, 1}

----------------------------------------------------------------------------
(* Work and difficulty.                                                    *)

WorkForTarget(t) == IF t = 0 THEN MaxWord ELSE (MaxWord - t) \div (t + 1) + 1

DifficultyToTarget(d) == IF d = 0 THEN MaxWord ELSE MaxWord \div d

Clamp(x, lo, hi) == Min({Max({x, lo}), hi})

(* `recent' ends with the parent of the next block.  Solve times are       *)
(* clamped and weighted by recency; the multiplication saturates.          *)
NextTarget(recent) ==
    LET n     == Window
        w     == SubSeq(recent, Len(recent) - n, Len(recent))
        time  == MapThenSumSet(
                   LAMBDA i : i * Clamp(w[i + 1].time - w[i].time, 1, 6 * BlockTime), 1..n)
        avg   == MapThenSumSet(LAMBDA i : WorkForTarget(w[i + 1].target), 1..n) \div n
        k     == BlockTime * ((n * (n + 1)) \div 2)
    IN  IF Len(recent) <= n
        THEN Last(recent).target
        ELSE DifficultyToTarget(Min({avg * k, MaxWord}) \div Max({time, 1}))

----------------------------------------------------------------------------
(* The chain.                                                              *)

KnownBlocks(c) == DOMAIN c.headers

GenesisHeader == [prev |-> GenesisId, height |-> 0, time |-> 0, target |-> GenesisTarget]

NewChainState ==
    [headers |-> [x \in {GenesisId} |-> GenesisHeader],
     work    |-> [x \in {GenesisId} |-> WorkForTarget(GenesisTarget)],
     tip     |-> GenesisId]

(* The blocks from the genesis to b.                                       *)
PathTo(c, b) ==
    LET path[h \in 0..c.headers[b].height] ==
          IF h = 0 THEN <<b>> ELSE <<c.headers[path[h - 1][1]].prev>> \o path[h - 1]
    IN  path[c.headers[b].height]

(* Up to Window + 1 headers that end with b, the oldest one first.         *)
RecentHeaders(c, b) ==
    LET path == PathTo(c, b)
        ids  == SubSeq(path, Max({1, Len(path) - Window}), Len(path))
    IN  [i \in DOMAIN ids |-> c.headers[ids[i]]]

TargetAfter(c, b) == NextTarget(RecentHeaders(c, b))

(* build_candidate: the fields of the next header on the best tip.         *)
Candidate(c, time) ==
    [prev   |-> c.tip,
     height |-> c.headers[c.tip].height + 1,
     time   |-> time,
     target |-> TargetAfter(c, c.tip)]

(* The checks of add_header, in the code's order.                          *)
HeaderResult(c, id, h) ==
    IF id \in KnownBlocks(c) THEN "Duplicate"
    ELSE IF h.prev \notin KnownBlocks(c) THEN "UnknownParent"
    ELSE IF h.height # c.headers[h.prev].height + 1 THEN "BadHeight"
    ELSE IF h.time < c.headers[h.prev].time THEN "BadTimestamp"
    ELSE IF h.target # TargetAfter(c, h.prev) THEN "BadTarget"
    ELSE "ok"

(* Mutants of the fork choice: ties displace the incumbent; the last block *)
(* added wins.                                                             *)
TieTakesOver(c, work) == work >= c.work[c.tip]
LastAddedWins(c, work) == TRUE

(* "Heaviest cumulative work wins; ties keep the incumbent."               *)
TakesTip(c, work) == work > c.work[c.tip]

WorkAfter(c, h) == c.work[h.prev] + WorkForTarget(h.target)

Extend(f, x, v) == [y \in DOMAIN f \cup {x} |-> IF y = x THEN v ELSE f[y]]

(* add_header of a header that passes the checks.                          *)
AddHeader(c, id, h) ==
    [headers |-> Extend(c.headers, id, h),
     work    |-> Extend(c.work, id, WorkAfter(c, h)),
     tip     |-> IF TakesTip(c, WorkAfter(c, h)) THEN id ELSE c.tip]
=============================================================================
