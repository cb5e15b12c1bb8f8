------------------------- MODULE QdrantVectorStore -------------------------
(***************************************************************************)
(* The adapter of memory/qdrant_store.py: every upsert and every search    *)
(* first asks the server for its collections and creates its own if it is  *)
(* missing.  A call is at the request it has sent; a request takes effect  *)
(* at the server in one step, which is also when its answer is fixed.      *)
(***************************************************************************)
EXTENDS Naturals

CONSTANTS
    Upserts,   \* calls of upsert
    Searches   \* calls of search

ASSUME CallsAssumption == Upserts \intersect Searches = {}

VARIABLES
    collection,  \* the server has the collection
    points,      \* the upserts whose point the server has
    asks,        \* the request of each call, or how the call ended
    found        \* calls that began when the collection was there

qdrantVars == <<collection, points, asks, found>>

QdrantCalls == Upserts \union Searches

QdrantInit ==
    /\ collection \in BOOLEAN
    /\ points = {}
    /\ asks = [c \in QdrantCalls |-> "idle"]
    /\ found = {}

Ask(c, r) == asks' = [asks EXCEPT ![c] = r]

EnsureCollection(c) ==
    /\ asks[c] = "idle"
    /\ Ask(c, "list")
    /\ found' = IF collection THEN found \union {c} ELSE found
    /\ UNCHANGED <<collection, points>>

ListCollections_Always(c) ==
    /\ asks[c] = "list"
    /\ Ask(c, "create")
    /\ UNCHANGED <<collection, points, found>>
ListCollections(c) ==
    /\ asks[c] = "list"
    /\ Ask(c, IF collection THEN "use" ELSE "create")
    /\ UNCHANGED <<collection, points, found>>

\* The server refuses to create what it has.
CreateCollection(c) ==
    /\ asks[c] = "create"
    /\ Ask(c, IF collection THEN "conflict" ELSE "use")
    /\ collection' = TRUE
    /\ UNCHANGED <<points, found>>

Use(c) ==
    /\ asks[c] = "use"
    /\ Ask(c, "returned")
    /\ points' = IF c \in Upserts THEN points \union {c} ELSE points
    /\ UNCHANGED <<collection, found>>

\* A request or its answer is lost, or the caller is cancelled: the server
\* may have done what it was asked or not.
Lose(c) ==
    /\ asks[c] \in {"list", "create", "use"}
    /\ Ask(c, "failed")
    /\ \/ UNCHANGED <<collection, points>>
       \/ asks[c] = "create" /\ collection' = TRUE /\ UNCHANGED points
       \/ asks[c] = "use" /\ points' = points \union ({c} \intersect Upserts) /\ UNCHANGED collection
    /\ UNCHANGED found

QdrantNext ==
    \E c \in QdrantCalls :
        EnsureCollection(c) \/ ListCollections(c) \/ CreateCollection(c) \/ Use(c) \/ Lose(c)

QdrantSpec == QdrantInit /\ [][QdrantNext]_qdrantVars

-----------------------------------------------------------------------------
\* The check and the creation are two requests, and a first use may lose the
\* race between them: the write it was made for is lost with it.  But a
\* collection that was there when a call began never fails that call, no
\* point is kept without a collection, and a write that returned is kept.
OnlyFirstUsesConflict ==
    /\ \A c \in QdrantCalls :
          asks[c] = "conflict" => collection /\ c \notin found /\ c \notin points
    /\ points # {} => collection
    /\ \A c \in Upserts : asks[c] = "returned" => c \in points

=============================================================================
