----------------------------- MODULE UnseenShards ----------------------------
(***************************************************************************)
(* How the leader finds the shard blocks of a masterchain block,           *)
(* fetcher/block.go with the cache of fetcher/cache.go and the second try  *)
(* of indexer/fetch.go: those reached from the shards the block names, up  *)
(* to the shards its predecessor names.                                    *)
(*                                                                         *)
(* The chain is external.  A masterchain block names the last block, or    *)
(* tip, of every shard of the basechain.  Shards split and merge only      *)
(* between a tip that was named and its successor, as TON requires.  A     *)
(* block number 0 is a shard's zero state and has no data to load.         *)
(*                                                                         *)
(* SameShard is a faulty variant of Seen; no action uses it.               *)
(***************************************************************************)
EXTENDS Naturals, Sequences, FiniteSets, SequencesExt

CONSTANTS
    Finder,       \* workers of the producer, which share one fetcher
    MaxMaster,    \* bound: masterchain blocks after the first
    MaxNew        \* bound: blocks of a shard between two masterchain blocks

FinderAssumption ==
    /\ MaxMaster \in Nat /\ MaxNew \in Nat \ {0}

VARIABLES
    tips,      \* by masterchain block, from number 0: its shards' last blocks
    parents,   \* by shard block with data: its parents, in their order
    masters,   \* blocksCache.masterBlocks
    shards,    \* blocksCache.shardsInfo, a function on some numbers
    pc,        \* where each finder is
    seq,       \* the masterchain block it works on
    cur,       \* the shards it read for that block
    waited,    \* it is on its second try
    found      \* what was last answered, a function on some numbers

chain == <<tips, parents>>
cache == <<masters, shards>>
vars  == <<tips, parents, masters, shards, pc, seq, cur, waited, found>>

Latest   == Len(tips) - 1
Tips(m)  == tips[m + 1]

\* A shard block is the shard's id and its number there.
Halves   == {"left", "right"}
Block(s, n) == <<s, n>>
Number(b) == b[2]

Init ==
    /\ tips \in {<<{}>>, <<{Block("full", 0)}>>}
    /\ parents = <<>>
    /\ masters = {} /\ shards = <<>>
    /\ pc = [f \in Finder |-> "idle"]
    /\ seq = [f \in Finder |-> 0]
    /\ cur = [f \in Finder |-> {}]
    /\ waited = [f \in Finder |-> FALSE]
    /\ found = <<>>

-----------------------------------------------------------------------------
\* The chain.  Each shard gets some blocks, or the one shard splits, or the
\* two halves merge.
With(f, g) == [b \in DOMAIN f \cup DOMAIN g |->
                  IF b \in DOMAIN g THEN g[b] ELSE f[b]]

\* Each shard s gets count[s] blocks after the number low[s], the first of
\* them with the parents first[s].
Grow(count, low, first) ==
    LET new == UNION {{Block(s, low[s] + i) : i \in 1..count[s]} :
                         s \in DOMAIN count}
    IN  /\ tips' = Append(tips, {Block(s, low[s] + count[s]) : s \in DOMAIN count})
        /\ parents' = With(parents, [b \in new |->
               IF Number(b) = low[b[1]] + 1 THEN first[b[1]]
               ELSE <<Block(b[1], Number(b) - 1)>>])

Extend(named, count) ==
    LET tip == [s \in DOMAIN count |-> CHOOSE t \in named : t[1] = s] IN
    Grow(count, [s \in DOMAIN count |-> Number(tip[s])],
         [s \in DOMAIN count |-> <<tip[s]>>])

Split(t, count) ==
    /\ t[1] = "full"
    /\ Grow(count, [s \in Halves |-> Number(t)], [s \in Halves |-> <<t>>])

Merge(l, r, count) ==
    /\ l[1] = "left" /\ r[1] = "right"
    /\ LET last == IF Number(l) > Number(r) THEN Number(l) ELSE Number(r) IN
       Grow(count, [s \in {"full"} |-> last], [s \in {"full"} |-> <<l, r>>])

NewMaster ==
    /\ Latest < MaxMaster
    /\ LET named == Tips(Latest) IN
       \/ /\ named = {} /\ tips' = Append(tips, {Block("full", 0)})
          /\ UNCHANGED parents
       \/ \E count \in [{t[1] : t \in named} -> 0..MaxNew] :
              named # {} /\ Extend(named, count)
       \/ \E t \in named, count \in [Halves -> 1..MaxNew] : Split(t, count)
       \/ \E l, r \in named, count \in [{"full"} -> 1..MaxNew] : Merge(l, r, count)
    /\ UNCHANGED <<cache, pc, seq, cur, waited, found>>

-----------------------------------------------------------------------------
\* setMaster and setShards store, and then may clear both maps: they do when
\* a minute has passed since that was last done.
Store(ms, ss) ==
    \/ masters' = ms /\ shards' = ss
    \/ masters' = {} /\ shards' = <<>>

\* LookupMaster: from the cache or from the node, which has no block beyond
\* the head.  The answer is the block's id, so only the cache changes.
LookedUp(m) ==
    \/ m \in masters /\ UNCHANGED cache
    \/ m \notin masters /\ m <= Latest /\ Store(masters \cup {m}, shards)

\* getShardsInfo: an answer with no shards is passed on and not cached, as the
\* error the code wraps in that case is nil.
ShardsOf(m) == IF m \in DOMAIN shards THEN shards[m] ELSE Tips(m)
RememberShards(m) ==
    IF m \in DOMAIN shards \/ ShardsOf(m) = {} THEN UNCHANGED cache
    ELSE Store(masters, With(shards, [n \in {m} |-> ShardsOf(m)]))

\* getNotSeenBlocks: the parents' blocks first, then the block itself;
\* nothing for a block that the earlier shards name.
SameShard(b, seen) == \E s \in seen : s[1] = b[1]
Seen(b, seen) == b \in seen
NotSeen(start, seen) ==
    LET walk[b \in DOMAIN parents \cup UNION Range(tips)] ==
            IF Seen(b, seen) THEN <<>>
            ELSE IF Number(b) = 0 THEN <<b>>
            ELSE FlattenSeq([i \in DOMAIN parents[b] |-> walk[parents[b][i]]])
                 \o <<b>>
    IN  walk[start]

\* The blocks of all shards named, in the order the answer has.
AllNotSeen(named, seen) ==
    FlattenSeq([i \in 1..Cardinality(named) |->
                   NotSeen(SetToSeq(named)[i], seen)])

-----------------------------------------------------------------------------
\* A finder, GetUnseenBlocks.
At(f, l)   == pc[f] = l
Move(f, l) == pc' = [pc EXCEPT ![f] = l]

Begin(f) ==
    /\ At(f, "idle")
    /\ \E m \in 1..MaxMaster : seq' = [seq EXCEPT ![f] = m]
    /\ waited' = [waited EXCEPT ![f] = FALSE]
    /\ Move(f, "lookup")
    /\ UNCHANGED <<chain, cache, cur, found>>

\* UnseenBlocks and, on the second try, LookupMaster through WaitForBlock.
Lookup(f) ==
    /\ At(f, "lookup")
    /\ LookedUp(seq[f])
    /\ Move(f, "shards")
    /\ UNCHANGED <<chain, seq, cur, waited, found>>

CurShards(f) ==
    /\ At(f, "shards")
    /\ cur' = [cur EXCEPT ![f] = ShardsOf(seq[f])]
    /\ RememberShards(seq[f])
    /\ Move(f, "previous")
    /\ UNCHANGED <<chain, seq, waited, found>>

LookupPrevious(f) ==
    /\ At(f, "previous")
    /\ LookedUp(seq[f] - 1)
    /\ Move(f, "walk")
    /\ UNCHANGED <<chain, seq, cur, waited, found>>

\* The previous block's shards and the walk over parents, whose every step
\* reads what never changes.  The zero state stops it with an error.
Walk(f) ==
    /\ At(f, "walk")
    /\ RememberShards(seq[f] - 1)
    /\ LET answer == AllNotSeen(cur[f], ShardsOf(seq[f] - 1)) IN
       /\ \A b \in Range(answer) : Number(b) # 0
       /\ found' = With(found, [m \in {seq[f]} |-> answer])
    /\ Move(f, "idle")
    /\ cur' = [cur EXCEPT ![f] = {}]
    /\ UNCHANGED <<chain, seq, waited>>

\* A call fails.  When the node does not have the block, the first time, the
\* finder waits for it and tries again; else the worker sends the number
\* back to its channel.
Fail(f) ==
    /\ pc[f] # "idle"
    /\ \/ /\ ~waited[f]
          /\ waited' = [waited EXCEPT ![f] = TRUE]
          /\ Move(f, "lookup")
       \/ UNCHANGED waited /\ Move(f, "idle")
    /\ cur' = [cur EXCEPT ![f] = {}]
    /\ UNCHANGED <<chain, cache, seq, found>>

Step(f) ==
    \/ Begin(f) \/ Lookup(f) \/ CurShards(f) \/ LookupPrevious(f) \/ Walk(f)
    \/ Fail(f)

Next == NewMaster \/ \E f \in Finder : Step(f)

Spec == Init /\ [][Next]_vars

-----------------------------------------------------------------------------
\* Whatever was cached, split, merged or tried again, no shard block is found
\* twice, for one masterchain block or for two, and once all masterchain
\* blocks have been looked up none is missing.  A block whose predecessor
\* names no shards is never answered for: the walk runs into the zero state.
FoundOnce ==
    LET blocks == [m \in DOMAIN found |-> Range(found[m])]
    IN  /\ \A m \in DOMAIN found : IsInjective(found[m])
        /\ \A m, n \in DOMAIN found : m # n => blocks[m] \cap blocks[n] = {}
        /\ (\A m \in 1..Latest : m \in DOMAIN found \/ Tips(m - 1) = {})
              => UNION Range(blocks) = DOMAIN parents
-----------------------------------------------------------------------------
\* The inductive invariant of FoundOnce, in named parts.
Shard == {"full"} \cup Halves
Related(s, r) == s = r \/ "full" \in {s, r}

\* A masterchain block names the one shard or both halves, and later blocks
\* of them than those before it.
TipsOK ==
    /\ tips \in Seq(SUBSET (Shard \X Nat)) /\ tips # <<>>
    /\ \A m \in 0..Latest :
          /\ {t[1] : t \in Tips(m)} \in {{}, {"full"}, Halves}
          /\ \A t, u \in Tips(m) : t[1] = u[1] => t = u
TipsGrow ==
    \A i, j \in 0..Latest : i < j =>
        /\ Tips(i) # {} => Tips(j) # {}
        /\ \A t \in Tips(i), u \in Tips(j) : Related(t[1], u[1]) =>
              IF t[1] = u[1] THEN Number(t) <= Number(u) ELSE Number(t) < Number(u)

\* The blocks between a masterchain block and its predecessor, and what there
\* is behind each of them.
New(m) ==
    {b \in UNION {{Block(t[1], n) : n \in 1..Number(t)} : t \in Tips(m)} :
        /\ Tips(m - 1) # {}
        /\ \A u \in Tips(m - 1) : Related(u[1], b[1]) => Number(u) < Number(b)}
Behind(b, m) ==
    LET below == Block(b[1], Number(b) - 1) IN
    IF below \in New(m) THEN parents[b] = <<below>>
    ELSE /\ parents[b] \in Seq(Tips(m - 1))
         /\ \A i \in DOMAIN parents[b] : Number(parents[b][i]) < Number(b)
ChainInv ==
    /\ TipsOK /\ TipsGrow
    /\ DOMAIN parents = UNION {New(m) : m \in 1..Latest}
    /\ \A m \in 1..Latest : \A b \in New(m) : Behind(b, m)
    /\ \A m \in 1..Latest : \A t \in Tips(m) :
          \/ t \in Tips(m - 1) \cup New(m)
          \/ Tips(m - 1) = {} /\ Number(t) = 0
    /\ \A t \in Tips(0) : Number(t) = 0

\* What the finders read is the chain's, and what they found is new.
CacheInv ==
    /\ masters \subseteq 0..Latest /\ DOMAIN shards \subseteq 0..Latest
    /\ \A m \in DOMAIN shards : shards[m] = Tips(m)
FinderInv ==
    /\ pc \in [Finder -> {"idle", "lookup", "shards", "previous", "walk"}]
    /\ seq \in [Finder -> Nat]
    /\ cur \in [Finder -> SUBSET (Shard \X Nat)]
    /\ \A f \in Finder :
          /\ pc[f] # "idle" => seq[f] \in Nat \ {0}
          /\ pc[f] \in {"shards", "previous", "walk"} => seq[f] <= Latest
          /\ pc[f] \in {"previous", "walk"} => cur[f] = Tips(seq[f])
FoundInv ==
    \A m \in DOMAIN found :
        m \in 1..Latest /\ IsInjective(found[m]) /\ Range(found[m]) = New(m)

FindInv == ChainInv /\ CacheInv /\ FinderInv /\ FoundInv
=============================================================================
