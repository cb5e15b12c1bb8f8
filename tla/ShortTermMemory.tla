-------------------------- MODULE ShortTermMemory --------------------------
(***************************************************************************)
(* The bounded conversation window, ShortTermMemory of                     *)
(* memory/multi_tier.py.  Texts are abstracted to their lengths.           *)
(*                                                                         *)
(* add() never suspends: the lock is free whenever a caller reaches it,    *)
(* and the whole event loop waits while the compression loop runs.  So a   *)
(* single adder suffices, and each round of the while loop is an action,   *)
(* for the loop itself is what can go wrong.                               *)
(*                                                                         *)
(* A definition Op_Variant, right before Op, is a mutated form of Op: a    *)
(* bug that could be made in that code, which a property must notice.      *)
(***************************************************************************)
EXTENDS Naturals, Sequences

CONSTANTS
    MaxItems,   \* max_items
    MaxChars,   \* max_chars
    Texts       \* bound: the lengths of the stripped texts that are added

\* What the constructor and add() require.
ASSUME LimitsAssumption ==
    /\ MaxItems \in Nat /\ MaxItems >= 2
    /\ MaxChars \in Nat /\ MaxChars >= 100
    /\ Texts \subseteq Nat \ {0}

VARIABLES
    items,    \* the lengths of _items
    adding    \* add() holds the lock and is in its while loop

vars == <<items, adding>>

-----------------------------------------------------------------------------
Marker  == 21     \* len("[compressed context]\n")
Cutoff  == 4000   \* a summary is cut to 3997 characters and "..."

Smaller(m, n) == IF m < n THEN m ELSE n

\* sum(map(len, s)); a function, for what is said of it to be proved.
Chars(s) ==
    LET sum[k \in 0..Len(s)] == IF k = 0 THEN 0 ELSE sum[k - 1] + s[k]
    IN  sum[Len(s)]

\* _compress: the texts are joined with blanks and cut off.
Summary(head) == Smaller(Chars(head) + Len(head) - 1, Cutoff)

Over_ItemsOnly(s) == Len(s) > MaxItems
Over(s) == Len(s) > MaxItems \/ Chars(s) > MaxChars

\* The older half of the window is what a round compresses.
HeadLength_OldestOnly(s) == 1
HeadLength(s) == IF Len(s) < 2 THEN 1 ELSE Len(s) \div 2

\* What a round makes of a window: one entry in the place of that half.
Round(s) ==
    LET k == HeadLength(s)
    IN  <<Marker + Summary(SubSeq(s, 1, k))>> \o SubSeq(s, k + 1, Len(s))

-----------------------------------------------------------------------------
Init ==
    /\ items = <<>>
    /\ adding = FALSE

\* The text is added first; what does not fit is dealt with afterwards.
Add(n) ==
    /\ ~adding
    /\ items' = Append(items, n)
    /\ adding' = TRUE

\* One round of the while loop.
Compress_KeepsOld ==
    /\ adding
    /\ Over(items)
    /\ LET k == HeadLength(items) IN
       items' = <<Marker + Summary(SubSeq(items, 1, k))>>
                \o SubSeq(items, k, Len(items))
    /\ UNCHANGED adding
Compress ==
    /\ adding
    /\ Over(items)
    /\ items' = Round(items)
    /\ UNCHANGED adding

Return ==
    /\ adding
    /\ ~Over(items)
    /\ adding' = FALSE
    /\ UNCHANGED items

Next ==
    \/ \E n \in Texts : Add(n)
    \/ Compress
    \/ Return

\* add() is plain code: once begun, it keeps running.
Fairness == WF_vars(Compress) /\ WF_vars(Return)

Spec == Init /\ [][Next]_vars /\ Fairness

-----------------------------------------------------------------------------
(* Properties.                                                             *)

TypeOK ==
    /\ items \in Seq(Nat \ {0})
    /\ adding \in BOOLEAN

\* Between two calls the window respects both of its limits.
WindowBounded ==
    ~adding => Len(items) <= MaxItems /\ Chars(items) <= MaxChars

\* Wherever the loop goes on, its next round leaves fewer entries, or a window
\* that fits; a round that changes nothing is neither.  So a call of add() has
\* no more rounds than the window has entries when it begins.  It depends on
\* the limits: two of the longest texts must fit beside a compressed entry.
RoundsShrink ==
    adding /\ Over(items) =>
        \/ Len(Round(items)) < Len(items)
        \/ ~Over(Round(items))

\* Every call of add() returns.
AddReturns == adding ~> ~adding

=============================================================================
