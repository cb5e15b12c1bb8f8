--------------------------- MODULE LLMGatewayProofs ---------------------------
(***************************************************************************)
(* Proofs about LLMGateway, for every finite set of calls, any number of   *)
(* retries, any size of the thread pool, and any routes.                   *)
(***************************************************************************)
EXTENDS LLMGateway, RankingProofs

CallType ==
    /\ at \in [Callers -> {"idle", "waiting", "backoff"} \union Over]
    /\ attempt \in [Callers -> 0..(MaxRetries + 1)]
    /\ request \in [Callers -> [Attempts -> RequestStates]]
    /\ cancelled \in [Callers -> BOOLEAN]

\* How many attempts a call has made, wherever it is.
AttemptInv ==
    \A c \in Callers :
        /\ at[c] = "idle" => attempt[c] = 0 /\ ~cancelled[c]
        /\ at[c] \in {"waiting", "returned"} => attempt[c] \in Attempts
        /\ at[c] = "backoff" => attempt[c] \in 1..MaxRetries

IInv == CallType /\ AttemptInv /\ VerdictIsOfLastAttempt /\ QueuedIsAwaited

-----------------------------------------------------------------------------
LEMMA InitEstablishes == Init => IInv
  BY GatewayAssumption
  DEF Init, IInv, CallType, AttemptInv, VerdictIsOfLastAttempt, QueuedIsAwaited,
      Attempts, RequestStates

\* Giving up the attempt under way leaves nothing of it in the queue, and
\* touches no other request.
LEMMA GiveUpWithdraws ==
  ASSUME IInv, NEW c \in Callers, at[c] = "waiting" \/ at[c] = "backoff", GiveUp(c)
  PROVE  /\ request' \in [Callers -> [Attempts -> RequestStates]]
         /\ \A k \in Attempts : request'[c][k] # "queued"
         /\ \A d \in Callers \ {c} : request'[d] = request[d]
<1> USE DEF IInv, CallType, AttemptInv, QueuedIsAwaited, SetRequest, Current, RequestStates
<1>1. attempt[c] \in Attempts
  BY GatewayAssumption DEF Attempts
<1>2. CASE Current(c) = "queued"
  <2> DEFINE row == [request[c] EXCEPT ![attempt[c]] = "withdrawn"]
  <2>1. request' = [request EXCEPT ![c] = row]
    BY <1>2 DEF GiveUp
  <2>2. request[c] \in [Attempts -> RequestStates]
    OBVIOUS
  <2>3. row \in [Attempts -> RequestStates]
    BY <2>2
  <2>4. \A k \in Attempts : row[k] # "queued"
    BY <1>1, <2>2
  <2> HIDE DEF row
  <2>5. QED
    BY <2>1, <2>3, <2>4
<1>3. CASE Current(c) # "queued"
  BY <1>1, <1>3 DEF GiveUp
<1>4. QED
  BY <1>2, <1>3

LEMMA StepPreserves == IInv /\ [Next]_vars => IInv'
<1> SUFFICES ASSUME IInv, [Next]_vars PROVE IInv'
    OBVIOUS
<1> USE GatewayAssumption
    DEF IInv, CallType, AttemptInv, VerdictIsOfLastAttempt, QueuedIsAwaited,
        Attempts, Over, RequestStates, SetRequest, Current, Resumes
<1>1. ASSUME NEW c \in Callers, Begin(c) PROVE IInv'
  BY <1>1 DEF Begin
<1>2. ASSUME NEW c \in Callers, BeginRejected(c) PROVE IInv'
  BY <1>2 DEF BeginRejected
<1>3. ASSUME NEW c \in Callers, NoRoute(c) PROVE IInv'
  BY <1>3 DEF NoRoute
<1>4. ASSUME NEW c \in Callers, Return(c) PROVE IInv'
  BY <1>4 DEF Return
<1>5. ASSUME NEW c \in Callers, AttemptFails(c) PROVE IInv'
  BY <1>5 DEF AttemptFails, Retry
<1>6. ASSUME NEW c \in Callers, AttemptTimesOut(c) PROVE IInv'
  BY <1>6, GiveUpWithdraws DEF AttemptTimesOut, Retry
<1>7. ASSUME NEW c \in Callers, Cancel(c) PROVE IInv'
  BY <1>7 DEF Cancel
<1>8. ASSUME NEW c \in Callers, Interrupt(c) PROVE IInv'
  BY <1>8, GiveUpWithdraws DEF Interrupt
<1>9. ASSUME NEW c \in Callers, NEW k \in Attempts, Work(c, k) PROVE IInv'
  BY <1>9 DEF Work
<1>10. ASSUME NEW c \in Callers, NEW k \in Attempts, Finish(c, k) PROVE IInv'
  BY <1>10 DEF Finish
<1>11. CASE UNCHANGED vars
  BY <1>11 DEF vars
<1>12. QED
  BY <1>1, <1>2, <1>3, <1>4, <1>5, <1>6, <1>7, <1>8, <1>9, <1>10, <1>11 DEF Next

LEMMA Invariance == Spec => []IInv
  BY InitEstablishes, StepPreserves, PTL DEF Spec

-----------------------------------------------------------------------------
(* Which route a call goes out on.                                         *)

Fit(model) == {i \in DOMAIN Routes : Serves(i, model)}

\* The routes that serve a model are candidates, the preferred one first.
LEMMA BestIsFirst ==
  ASSUME NEW model
  PROVE  /\ Candidates(model) = <<>> <=> Fit(model) = {}
         /\ Fit(model) # {} =>
               /\ Head(Candidates(model)) \in Fit(model)
               /\ \A i \in Fit(model) \ {Head(Candidates(model))} :
                     Preferred(Head(Candidates(model)), i)
<1> DEFINE F == Fit(model)
           n == Cardinality(F)
           q == Candidates(model)
<1>1. /\ Len(Routes) \in Nat
      /\ DOMAIN Routes = 1..Len(Routes)
      /\ \A i \in DOMAIN Routes : Routes[i].priority \in Int
  <2> DEFINE RouteSet == [model : Models, priority : Int, enabled : BOOLEAN]
  <2>1. Routes \in Seq(RouteSet) /\ \A r \in RouteSet : r.priority \in Int
    BY GatewayAssumption
  <2> HIDE DEF RouteSet
  <2>2. QED
    BY <2>1
<1>2. IsFiniteSet(F)
  <2>1. IsFiniteSet(DOMAIN Routes)
    BY <1>1, FS_Interval
  <2>2. QED
    BY <2>1, FS_Subset DEF Fit
<1>3. F \subseteq DOMAIN Routes
  BY DEF Fit
<1>4. StrictTotalOrder(F, Preference)
  <2>1. ASSUME NEW i \in F, NEW j \in F
        PROVE  <<i, j>> \in Preference <=> Preferred(i, j)
    <3>1. <<i, j>> \in (DOMAIN Routes) \X (DOMAIN Routes)
      BY <1>3
    <3>2. QED
      BY <3>1 DEF Preference
  <2>2. \A i \in F : i \in Int /\ Routes[i].priority \in Int
    BY <1>1, <1>3
  <2> HIDE DEF F
  <2>3. QED
    BY <2>1, <2>2 DEF StrictTotalOrder, Preferred
<1>5. q = InOrder(F, Preference)
  BY DEF Candidates, Fit
<1> HIDE DEF F, q
<1>6. /\ q \in Seq(F) /\ Len(q) = n
      /\ \A x \in F : \E k \in 1..n : q[k] = x
      /\ \A j, k \in 1..n : j < k => <<q[j], q[k]>> \in Preference
  BY <1>2, <1>4, <1>5, SortsInOrder
<1>7. n \in Nat
  BY <1>2, FS_CardinalityType
<1>8. q = <<>> <=> F = {}
  BY <1>6, <1>7
<1>9. ASSUME F # {}
      PROVE  /\ Head(q) \in F
             /\ \A i \in F \ {Head(q)} : Preferred(Head(q), i)
  <2>1. q # <<>> /\ Head(q) = q[1] /\ n >= 1
    BY <1>6, <1>7, <1>8, <1>9
  <2>2. ASSUME NEW i \in F \ {q[1]} PROVE <<q[1], i>> \in Preference
    <3>1. PICK k \in 1..n : q[k] = i
      BY <1>6
    <3>2. 1 \in 1..n /\ 1 < k
      BY <1>7, <2>1, <3>1
    <3>3. QED
      BY <1>6, <3>1, <3>2
  <2>3. q[1] \in F
    BY <1>6, <2>1
  <2>4. QED
    BY <2>1, <2>2, <2>3 DEF Preference
<1>10. QED
  BY <1>8, <1>9 DEF F, q

\* A call that made an attempt has selected the first candidate; one that is
\* over without an attempt had none.
SelectedInv ==
    /\ route \in [Callers -> DOMAIN Routes \union {0}]
    /\ \A c \in Callers :
          /\ attempt[c] > 0 => /\ Candidates(Wanted[c]) # <<>>
                               /\ route[c] = Head(Candidates(Wanted[c]))
          /\ at[c] # "idle" /\ attempt[c] = 0 => Candidates(Wanted[c]) = <<>>

\* A call selects its route with its first attempt and no other.
LEMMA BeginSelects ==
  ASSUME IInv, SelectedInv, NEW c \in Callers, Begin(c) \/ BeginRejected(c)
  PROVE  SelectedInv'
<1> DEFINE q == Candidates(Wanted[c])
<1>1. /\ Select(c)
      /\ attempt' = [attempt EXCEPT ![c] = @ + 1]
      /\ \A d \in Callers \ {c} : at'[d] = at[d]
      /\ at[c] = "idle" => q # <<>>
  <2> HIDE DEF q
  <2>1. CASE Begin(c)
    BY <2>1 DEF Begin, Resumes, IInv, CallType, q
  <2>2. CASE BeginRejected(c)
    BY <2>2 DEF BeginRejected, Resumes, IInv, CallType, q
  <2>3. QED
    BY <2>1, <2>2
<1>2. attempt'[c] > 0 /\ \A d \in Callers \ {c} : attempt'[d] = attempt[d]
  BY <1>1, GatewayAssumption DEF IInv, CallType
<1>3. q # <<>>
  BY <1>1 DEF Begin, BeginRejected, Resumes, IInv, AttemptInv, SelectedInv
<1>4. Head(q) \in DOMAIN Routes
  BY <1>3, BestIsFirst DEF Fit
<1> HIDE DEF q
<1>5. /\ route' \in [Callers -> DOMAIN Routes \union {0}]
      /\ \A d \in Callers \ {c} : route'[d] = route[d]
      /\ route'[c] = IF at[c] = "idle" THEN Head(q) ELSE route[c]
  BY <1>1, <1>4 DEF Select, SelectedInv, q
<1>6. route'[c] = Head(q)
  <2>1. at[c] # "idle" => attempt[c] > 0
    BY GatewayAssumption DEF Begin, BeginRejected, Resumes, IInv, AttemptInv
  <2>2. QED
    BY <1>5, <2>1 DEF SelectedInv, q
<1>7. QED
  BY <1>1, <1>2, <1>3, <1>5, <1>6 DEF SelectedInv, q

LEMMA SelectedStep == IInv /\ SelectedInv /\ [Next]_vars => SelectedInv'
<1> SUFFICES ASSUME IInv, SelectedInv, [Next]_vars PROVE SelectedInv'
    OBVIOUS
<1>1. ASSUME NEW c \in Callers, NoRoute(c) PROVE SelectedInv'
  BY <1>1 DEF NoRoute, SelectedInv, IInv, CallType
<1>2. ASSUME NEW c \in Callers,
             \/ Return(c) \/ AttemptFails(c) \/ AttemptTimesOut(c)
             \/ Cancel(c) \/ Interrupt(c)
             \/ \E k \in Attempts : Work(c, k) \/ Finish(c, k)
      PROVE  SelectedInv'
  <2>1. /\ UNCHANGED <<route, attempt>>
        /\ \A d \in Callers : at'[d] # "idle" => at[d] # "idle"
    BY <1>2 DEF Return, AttemptFails, AttemptTimesOut, Cancel, Interrupt, Work,
                Finish, Retry, Resumes, IInv, CallType
  <2>2. QED
    BY <2>1 DEF SelectedInv
<1>3. CASE UNCHANGED vars
  BY <1>3 DEF vars, SelectedInv
<1>4. QED
  BY <1>1, <1>2, <1>3, BeginSelects DEF Next

LEMMA Selection == Spec => []SelectedInv
<1>1. Init => SelectedInv
  BY DEF Init, SelectedInv
<1>2. QED
  BY <1>1, SelectedStep, Invariance, PTL DEF Spec

-----------------------------------------------------------------------------
\* Every variable keeps its type: a call is on a route there is, and makes no
\* more attempts than it may.
THEOREM TypeCorrect == Spec => []TypeOK
<1>1. IInv /\ SelectedInv => TypeOK
  BY DEF IInv, CallType, SelectedInv, TypeOK
<1>2. QED
  BY <1>1, Invariance, Selection, PTL

\* A call returns the answer to its latest request, and fails only without
\* an attempt left or before the first.
THEOREM VerdictsAreCurrent == Spec => []VerdictIsOfLastAttempt
<1>1. IInv => VerdictIsOfLastAttempt
  BY DEF IInv
<1>2. QED
  BY <1>1, Invariance, PTL

\* No request waits for a worker that nobody waits for, however many calls
\* give theirs up and however small the pool is.
THEOREM QueueIsAwaited == Spec => []QueuedIsAwaited
<1>1. IInv => QueuedIsAwaited
  BY DEF IInv
<1>2. QED
  BY <1>1, Invariance, PTL

\* A cancelled call makes no further attempt.
THEOREM CancellationStops == Spec => CancelStopsRetries
<1> DEFINE Stops == \A c \in Callers : cancelled[c] => attempt'[c] = attempt[c]
<1>1. IInv /\ [Next]_vars => [Stops]_vars
  <2> SUFFICES ASSUME IInv, Next, NEW d \in Callers, cancelled[d]
               PROVE  attempt'[d] = attempt[d]
      OBVIOUS
  <2> USE DEF IInv, CallType, AttemptInv, Resumes
  <2>1. ASSUME NEW c \in Callers, Begin(c) \/ BeginRejected(c)
        PROVE  attempt'[d] = attempt[d]
    BY <2>1 DEF Begin, BeginRejected
  <2>2. QED
    BY <2>1 DEF Next, NoRoute, Return, AttemptFails, AttemptTimesOut, Cancel,
                Interrupt, Work, Finish
<1>2. QED
  BY <1>1, Invariance, PTL DEF Spec, CancelStopsRetries

\* Whatever the routes, their priorities and the model that is asked for, a
\* call goes out on the best route that serves it and keeps it through all
\* retries; without one it fails before it made an attempt.
THEOREM BestRouteIsKept == Spec => []RouteIsBest
<1>1. IInv /\ SelectedInv => RouteIsBest
  <2> SUFFICES ASSUME IInv, SelectedInv, NEW c \in Callers
               PROVE  LET fit == Fit(Wanted[c]) IN
                      /\ attempt[c] > 0 =>
                            /\ route[c] \in fit
                            /\ \A i \in fit \ {route[c]} : Preferred(route[c], i)
                      /\ at[c] # "idle" => (attempt[c] = 0 <=> fit = {})
      BY DEF RouteIsBest, Fit
  <2>1. attempt[c] = 0 \/ attempt[c] > 0
    BY GatewayAssumption DEF IInv, CallType
  <2>2. QED
    BY <2>1, BestIsFirst DEF SelectedInv
<1>2. QED
  BY <1>1, Selection, Invariance, PTL

=============================================================================
