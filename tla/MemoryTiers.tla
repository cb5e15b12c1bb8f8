---------------------------- MODULE MemoryTiers ----------------------------
(***************************************************************************)
(* MultiTierMemory.remember (memory/multi_tier.py): the text goes into the *)
(* conversation window, a ShortTermMemory, and then into the episodic      *)
(* store behind EpisodicMemory.  The store is either InMemoryMemoryStore   *)
(* (memory/store.py), none of whose awaits suspends, or an external one    *)
(* that may suspend, fail and apply a write late.                          *)
(*                                                                         *)
(* A call of remember is known by its number, which is the order in which  *)
(* the calls entered the window; so is the record that it makes.           *)
(***************************************************************************)
EXTENDS ShortTermMemory, Integers, SequencesExt, Ranking

CONSTANTS
    MaxCalls,        \* bound: calls of remember, for each kind of store
    ShortTermLimit,  \* short_term_limit
    Score            \* the similarity of each text to the query of recall

Stores == {"in_memory", "external"}

ASSUME TiersAssumption ==
    /\ MaxCalls \in [Stores -> Nat]
    /\ ShortTermLimit \in Nat \ {0}
    /\ Score \in [Texts -> Int]

VARIABLES
    store,    \* which store was injected
    texts,    \* the text of each call
    at,       \* where each call is: "add", "store", or how it ended
    index,    \* the records of the store, in the order they were written
    recent,   \* InMemoryMemoryStore._short_term
    cleared   \* how many records there were when it was cleared last

tierVars == <<vars, store, texts, at, index, recent, cleared>>

Calls   == 1..Len(texts)
Written == Range(index)

TiersInit ==
    /\ Init
    /\ store \in Stores
    /\ texts = <<>>
    /\ at = <<>>
    /\ index = <<>>
    /\ recent = <<>>
    /\ cleared = 0

\* add() never suspends: no other call runs until it returns.
Remember(n) ==
    /\ Len(texts) < MaxCalls[store]
    /\ Add(n)
    /\ texts' = Append(texts, n)
    /\ at' = Append(at, "add")
    /\ UNCHANGED <<store, index, recent, cleared>>

CompressRound ==
    /\ Compress
    /\ UNCHANGED <<store, texts, at, index, recent, cleared>>

\* del self._short_term[:-limit]
Trim(s) == SubSeq(s, Len(s) - Smaller(Len(s), ShortTermLimit) + 1, Len(s))

\* add() has returned.  The in-memory store is written in the same step, its
\* vector index and its recent list; an external one is asked to.
Added_NotAwaited ==
    /\ Return
    /\ at' = [at EXCEPT ![Len(at)] = "returned"]
    /\ \/ /\ store = "in_memory"
          /\ index' = Append(index, Len(at))
          /\ recent' = Trim(Append(recent, Len(at)))
       \/ /\ store = "external"
          /\ UNCHANGED <<index, recent>>
    /\ UNCHANGED <<store, texts, cleared>>
Added ==
    /\ Return
    /\ \/ /\ store = "in_memory"
          /\ index' = Append(index, Len(at))
          /\ recent' = Trim(Append(recent, Len(at)))
          /\ at' = [at EXCEPT ![Len(at)] = "returned"]
       \/ /\ store = "external"
          /\ at' = [at EXCEPT ![Len(at)] = "store"]
          /\ UNCHANGED <<index, recent>>
    /\ UNCHANGED <<store, texts, cleared>>

\* The external store writes what it was asked for, on its own time: while
\* the call waits, or after it failed or was cancelled.
Write(c) ==
    /\ ~adding
    /\ store = "external"
    /\ at[c] \in {"store", "failed", "cancelled"}
    /\ c \notin Written
    /\ index' = Append(index, c)
    /\ UNCHANGED <<vars, store, texts, at, recent, cleared>>

\* It answers, it fails, or the caller is cancelled meanwhile.
Leave(c, how) ==
    /\ ~adding
    /\ at[c] = "store"
    /\ how = "returned" => c \in Written
    /\ at' = [at EXCEPT ![c] = how]
    /\ UNCHANGED <<vars, store, texts, index, recent, cleared>>

ClearShortTerm ==
    /\ ~adding
    /\ store = "in_memory"
    /\ recent' = <<>>
    /\ cleared' = Len(index)
    /\ UNCHANGED <<vars, store, texts, at, index>>

TiersNext ==
    \/ \E n \in Texts : Remember(n)
    \/ CompressRound
    \/ Added
    \/ \E c \in Calls : Write(c)
    \/ \E c \in Calls, how \in {"returned", "failed", "cancelled"} : Leave(c, how)
    \/ ClearShortTerm

TiersSpec ==
    TiersInit /\ [][TiersNext]_tierVars
              /\ WF_tierVars(CompressRound) /\ WF_tierVars(Added)

-----------------------------------------------------------------------------
(* InMemoryMemoryStore.recall and recent, which change nothing.            *)

\* The records by falling score; the sort is stable, and the oldest first.
Before(c, d) ==
    \/ Score[texts[c]] > Score[texts[d]]
    \/ Score[texts[c]] = Score[texts[d]] /\ c < d

ByScore == {p \in Written \X Written : Before(p[1], p[2])}

Similar(c) == Score[texts[c]] > 0

\* The best are cut off first, then those that are not similar are dropped.
Recall_CutUnsorted(limit) ==
    LET best == SubSeq(index, 1, Smaller(limit, Len(index)))
    IN  InOrder({c \in Range(best) : Similar(c)}, ByScore)
Recall(limit) ==
    LET best == SubSeq(InOrder(Written, ByScore), 1, Smaller(limit, Cardinality(Written)))
    IN  InOrder({c \in Range(best) : Similar(c)}, ByScore)

-----------------------------------------------------------------------------
(* Properties.                                                             *)

\* What a model reads as its conversation: both limits are kept, and behind
\* the oldest entry, which may be compressed, come the latest texts, all of
\* them, in their order and word for word.  So the newest text is there as it
\* was given, but for a first one that alone is too long.
WindowKept ==
    /\ WindowBounded
    /\ \A k \in 2..Len(items) : items[k] = texts[Len(texts) - Len(items) + k]
    /\ texts # <<>> /\ Last(texts) <= MaxChars =>
          items # <<>> /\ Last(items) = Last(texts)

\* The tiers hold the same texts in the same order with the in-memory store.
\* With an external one a text may be in the window alone, or in another
\* order, but a call that returned has both, and nothing is in the store
\* that was not in the window first.
TiersAgree ==
    /\ Written \subseteq Calls
    /\ IsInjective(index)
    /\ \A c \in Calls : at[c] = "returned" => c \in Written
    /\ store = "in_memory" /\ ~adding => index = [c \in Calls |-> c]

\* The recent list is the newest end of what was written since it was
\* cleared last, never more than its limit and never a record less.
RecentIsTail ==
    store = "in_memory" =>
        LET since == Len(index) - cleared
            n     == Smaller(since, ShortTermLimit)
        IN  recent = SubSeq(index, Len(index) - n + 1, Len(index))

\* The tiers agree, and so do the two structures of the in-memory store.
StoresAgree == TiersAgree /\ RecentIsTail

\* recall gives the best records of all that were ever written, those the
\* recent list has lost included: in order, similar ones only, and none is
\* left out for a worse one.
RecallIsBest ==
    store = "in_memory" =>
        \A limit \in 1..(ShortTermLimit + 1) :
            LET got == Recall(limit) IN
            /\ Len(got) <= limit
            /\ \A i, j \in DOMAIN got : i < j => Before(got[i], got[j])
            /\ \A c \in Range(got) : Similar(c)
            /\ \A c \in Written \ Range(got) :
                  Similar(c) =>
                      Len(got) = limit /\ \A d \in Range(got) : Before(d, c)

=============================================================================
