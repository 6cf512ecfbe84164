--------------------------- MODULE UiServerProofs ---------------------------
(***************************************************************************)
(* Proofs about UiServer, for every set of clients and every cap.          *)
(***************************************************************************)
EXTENDS UiServer, FiniteSetTheorems, TLAPS

-----------------------------------------------------------------------------
(***************************************************************************)
(* The inductive invariant.                                                *)
(***************************************************************************)

\* A connection nobody has accepted yet has no thread and no answer, and a
\* worker exists only once its connection thread has started it.
NotYetServed ==
    \A c \in Clients :
        /\ sock[c] \in {None, "queued"} => conn[c] = None /\ answer[c] = None
        /\ conn[c] \in {None, "starting"} => worker[c] = None

\* The connection that the accept loop is handling is its own: open,
\* unanswered, and with no connection thread.
LoopOwnsCurrent ==
    loop = "reading" =>
        /\ current \in Clients
        /\ sock[current] = "open"
        /\ conn[current] = None
        /\ answer[current] = None

IInv ==
    /\ TypeOK
    /\ IsFiniteSet(Holders)
    /\ AdmissionsAccounted
    /\ OwnerCloses
    /\ NotYetServed
    /\ LoopOwnsCurrent

-----------------------------------------------------------------------------
(***************************************************************************)
(* Admissions: what happens to the holders and the count together.         *)
(***************************************************************************)

\* A step that leaves the holders, the count and the failures alone keeps
\* the account.
LEMMA SameHolders ==
    ASSUME IInv, Holders' = Holders, active_work' = active_work,
           unspawned' = unspawned
    PROVE  IsFiniteSet(Holders') /\ AdmissionsAccounted'
  BY DEF IInv, AdmissionsAccounted

\* try_admit takes an admission for a request that held none.
LEMMA AddHolder ==
    ASSUME IInv, NEW c \in Clients, c \notin Holders, Holders' = Holders \cup {c},
           active_work' = active_work + 1, unspawned' = unspawned
    PROVE  IsFiniteSet(Holders') /\ AdmissionsAccounted'
  <1>1. Cardinality(Holders') = Cardinality(Holders) + 1 /\ IsFiniteSet(Holders')
    BY FS_AddElement DEF IInv
  <1>2. Cardinality(Holders) \in Nat
    BY FS_CardinalityType DEF IInv
  <1>3. unspawned \in Nat
    BY FailuresAssumption DEF IInv, TypeOK
  <1>4. QED
    BY <1>1, <1>2, <1>3 DEF IInv, AdmissionsAccounted

\* Taking a holder away leaves one admission fewer to account for, so there
\* was at least one in use.
LEMMA DropHolder ==
    ASSUME IInv, NEW c \in Clients, c \in Holders, Holders' = Holders \ {c}
    PROVE  /\ IsFiniteSet(Holders')
           /\ Cardinality(Holders') \in Nat
           /\ Cardinality(Holders) = Cardinality(Holders') + 1
           /\ active_work = Cardinality(Holders') + 1 + unspawned
           /\ unspawned \in Nat
  <1>1. IsFiniteSet(Holders') /\ Cardinality(Holders') = Cardinality(Holders) - 1
    BY FS_RemoveElement DEF IInv
  <1>2. Cardinality(Holders) \in Nat /\ Cardinality(Holders') \in Nat
    BY <1>1, FS_CardinalityType DEF IInv
  <1>3. unspawned \in Nat
    BY FailuresAssumption DEF IInv, TypeOK
  <1>4. QED
    BY <1>1, <1>2, <1>3 DEF IInv, AdmissionsAccounted

-----------------------------------------------------------------------------
(***************************************************************************)
(* Every action keeps the invariant.                                       *)
(***************************************************************************)

\* What the actions of this section leave to show.
ShapeInv == TypeOK /\ OwnerCloses /\ NotYetServed /\ LoopOwnsCurrent

\* Clients come and go without touching what the server keeps of others.
LEMMA ClientStep ==
    ASSUME IInv, NEW c \in Clients, Connect(c) \/ Disconnect(c) \/ Reset(c)
    PROVE  IInv'
  <1>1. CASE Connect(c)
    <2>1. Holders' = Holders
      BY <1>1 DEF Connect, Holders
    <2>2. ShapeInv'
      BY <1>1, AsksAssumption DEF IInv, ShapeInv, Connect, TypeOK, OwnerCloses, clients,
                  NotYetServed, LoopOwnsCurrent, None, Requests
    <2>3. QED
      BY <1>1, <2>1, <2>2, SameHolders DEF Connect, IInv, ShapeInv
  <1>2. CASE Disconnect(c)
    <2>1. Holders' = Holders
      BY <1>2 DEF Disconnect, Holders
    <2>2. ShapeInv'
      BY <1>2 DEF IInv, ShapeInv, Disconnect, TypeOK, OwnerCloses, clients,
                  NotYetServed, LoopOwnsCurrent, None
    <2>3. QED
      BY <1>2, <2>1, <2>2, SameHolders DEF Disconnect, IInv, ShapeInv
  <1>3. CASE Reset(c)
    <2>1. Holders' = Holders
      BY <1>3 DEF Reset, Holders
    <2>2. ShapeInv'
      BY <1>3 DEF IInv, ShapeInv, Reset, TypeOK, OwnerCloses, clients,
                  NotYetServed, LoopOwnsCurrent, None
    <2>3. QED
      BY <1>3, <2>1, <2>2, SameHolders DEF Reset, IInv, ShapeInv
  <1>4. QED
    BY <1>1, <1>2, <1>3

\* The accept loop: accepting, answering and joining hold no admission;
\* handing a request over takes one.
LEMMA LoopStepKeeps ==
    ASSUME IInv, LoopStep
    PROVE  IInv'
  <1>1. CASE reap_finished_connections
    <2>1. Holders' = Holders
      BY <1>1 DEF reap_finished_connections, Reaped, Holders
    <2>2. ShapeInv'
      BY <1>1 DEF IInv, ShapeInv, reap_finished_connections, Reaped, TypeOK, OwnerCloses, clients,
                  NotYetServed, LoopOwnsCurrent, None
    <2>3. QED
      BY <1>1, <2>1, <2>2, SameHolders DEF reap_finished_connections, IInv, ShapeInv
  <1>2. ASSUME NEW c \in Clients, Accept(c)
        PROVE  IInv'
    <2>1. Holders' = Holders
      BY <1>2 DEF Accept, Holders
    <2>2. ShapeInv'
      BY <1>2 DEF IInv, ShapeInv, Accept, TypeOK, OwnerCloses, clients,
                  NotYetServed, LoopOwnsCurrent, None
    <2>3. QED
      BY <1>2, <2>1, <2>2, SameHolders DEF Accept, IInv, ShapeInv
  <1>3. CASE Refuse
    <2>1. Holders' = Holders
      BY <1>3 DEF Refuse, Answer, Holders
    <2>2. ShapeInv'
      BY <1>3 DEF IInv, ShapeInv, Refuse, Answer, TypeOK, OwnerCloses, clients,
                  NotYetServed, LoopOwnsCurrent, None
    <2>3. QED
      BY <1>3, <2>1, <2>2, SameHolders DEF Refuse, Answer, IInv, ShapeInv
  <1>4. CASE ServePage
    <2>1. Holders' = Holders
      BY <1>4 DEF ServePage, Answer, Holders
    <2>2. ShapeInv'
      BY <1>4 DEF IInv, ShapeInv, ServePage, Answer, TypeOK, OwnerCloses, clients,
                  NotYetServed, LoopOwnsCurrent, None
    <2>3. QED
      BY <1>4, <2>1, <2>2, SameHolders DEF ServePage, Answer, IInv, ShapeInv
  <1>5. CASE ServeShutdown
    <2>1. Holders' = Holders
      BY <1>5 DEF ServeShutdown, Answer, Holders
    <2>2. ShapeInv'
      BY <1>5 DEF IInv, ShapeInv, ServeShutdown, Answer, TypeOK, OwnerCloses, clients,
                  NotYetServed, LoopOwnsCurrent, None
    <2>3. QED
      BY <1>5, <2>1, <2>2, SameHolders DEF ServeShutdown, Answer, IInv, ShapeInv
  <1>6. CASE ServeProvider /\ try_admit
    <2>1. current \in Clients /\ current \notin Holders
      BY <1>6 DEF IInv, TypeOK, LoopOwnsCurrent, NotYetServed, ServeProvider, Holders, None
    <2>2. Holders' = Holders \cup {current}
      BY <1>6, <2>1 DEF IInv, TypeOK, ServeProvider, Holders
    <2>3. active_work' = active_work + 1 /\ unspawned' = unspawned
      BY <1>6 DEF ServeProvider
    <2>4. active_work' \in 0 .. Cap
      BY <1>6, <2>3, CapAssumption DEF IInv, TypeOK, try_admit
    <2>5. ShapeInv'
      BY <1>6, <2>4 DEF IInv, ShapeInv, ServeProvider, TypeOK, OwnerCloses, clients,
                  NotYetServed, LoopOwnsCurrent, None
    <2>6. QED
      BY <2>1, <2>2, <2>3, <2>5, AddHolder DEF IInv, ShapeInv
  <1>7. CASE ServeProvider /\ ~try_admit
    <2>1. Holders' = Holders
      BY <1>7 DEF ServeProvider, Answer, Holders
    <2>2. ShapeInv'
      BY <1>7 DEF IInv, ShapeInv, ServeProvider, Answer, TypeOK, OwnerCloses, clients,
                  NotYetServed, LoopOwnsCurrent, None
    <2>3. QED
      BY <1>7, <2>1, <2>2, SameHolders DEF ServeProvider, Answer, IInv, ShapeInv
  <1>8. CASE Drain
    <2>1. Holders' = Holders
      BY <1>8 DEF Drain, Reaped, Holders
    <2>2. ShapeInv'
      BY <1>8 DEF IInv, ShapeInv, Drain, Reaped, TypeOK, OwnerCloses, clients,
                  NotYetServed, LoopOwnsCurrent, None
    <2>3. QED
      BY <1>8, <2>1, <2>2, SameHolders DEF Drain, IInv, ShapeInv
  <1>9. QED
    BY <1>1, <1>2, <1>3, <1>4, <1>5, <1>6, <1>7, <1>8 DEF LoopStep

\* The loop's failures: an admission goes with the connection thread that could
\* not be created; an error of accept() takes none.
LEMMA LoopFailsKeeps ==
    ASSUME IInv, LoopFails
    PROVE  IInv'
  <1>1. CASE AcceptInterrupted
    <2>1. Holders' = Holders
      BY <1>1 DEF AcceptInterrupted, Reaped, Holders
    <2>2. ShapeInv'
      BY <1>1 DEF IInv, ShapeInv, AcceptInterrupted, Reaped, TypeOK, OwnerCloses, clients,
                  NotYetServed, LoopOwnsCurrent, None
    <2>3. QED
      BY <1>1, <2>1, <2>2, SameHolders DEF AcceptInterrupted, IInv, ShapeInv
  <1>2. CASE AcceptFails
    <2>1. Holders' = Holders
      BY <1>2 DEF AcceptFails, Holders
    <2>2. ShapeInv'
      BY <1>2 DEF IInv, ShapeInv, AcceptFails, TypeOK, OwnerCloses, clients,
                  NotYetServed, LoopOwnsCurrent, None
    <2>3. QED
      BY <1>2, <2>1, <2>2, SameHolders DEF AcceptFails, IInv, ShapeInv
  <1>3. CASE HandOverFails
    <2>1. Holders' = Holders
      BY <1>3 DEF HandOverFails, Holders
    <2>2. active_work' = active_work + 1 /\ unspawned' = unspawned + 1
      BY <1>3 DEF HandOverFails
    <2>3. active_work' \in 0 .. Cap /\ unspawned' \in 0 .. Failures
      BY <1>3, <2>2, CapAssumption, FailuresAssumption
         DEF IInv, TypeOK, try_admit, HandOverFails
    <2>4. ShapeInv'
      BY <1>3, <2>3 DEF IInv, ShapeInv, HandOverFails, TypeOK, OwnerCloses, clients,
                        NotYetServed, LoopOwnsCurrent, None
    <2>5. IsFiniteSet(Holders') /\ AdmissionsAccounted'
      <3>1. Cardinality(Holders) \in Nat /\ unspawned \in Nat
        BY FS_CardinalityType, FailuresAssumption DEF IInv, TypeOK
      <3>2. QED
        BY <2>1, <2>2, <3>1 DEF IInv, AdmissionsAccounted
    <2>6. QED
      BY <2>4, <2>5 DEF IInv, ShapeInv
  <1>4. QED
    BY <1>1, <1>2, <1>3 DEF LoopFails

\* Connection threads: starting the worker passes the admission on to it;
\* failing to start it moves the admission to the ones that are never given
\* back; nothing else a connection thread does touches admissions.
LEMMA ConnStepKeeps ==
    ASSUME IInv, NEW c \in Clients, ConnStep(c)
    PROVE  IInv'
  <1>1. CASE Start(c)
    <2>1. Holders' = Holders
      BY <1>1 DEF Start, Holders, IInv, TypeOK
    <2>2. ShapeInv'
      BY <1>1 DEF IInv, ShapeInv, Start, TypeOK, OwnerCloses, clients,
                  NotYetServed, LoopOwnsCurrent, None
    <2>3. QED
      BY <1>1, <2>1, <2>2, SameHolders DEF Start, IInv, ShapeInv
  <1>2. CASE StartFails(c)
    <2>1. c \in Holders /\ Holders' = Holders \ {c}
      BY <1>2 DEF StartFails, Holders, IInv, TypeOK, NotYetServed, None
    <2>2. ShapeInv'
      BY <1>2, FailuresAssumption DEF IInv, ShapeInv, StartFails, TypeOK, OwnerCloses, clients,
                  NotYetServed, LoopOwnsCurrent, None
    <2>3. active_work' = active_work /\ unspawned' = unspawned + 1
      BY <1>2 DEF StartFails
    <2>4. IsFiniteSet(Holders') /\ AdmissionsAccounted'
      BY <2>1, <2>3, DropHolder DEF AdmissionsAccounted
    <2>5. QED
      BY <2>2, <2>4 DEF IInv, ShapeInv
  <1>3. CASE PollDone(c)
    <2>1. Holders' = Holders
      BY <1>3 DEF PollDone, Holders, IInv, TypeOK
    <2>2. ShapeInv'
      BY <1>3 DEF IInv, ShapeInv, PollDone, TypeOK, OwnerCloses, clients,
                  NotYetServed, LoopOwnsCurrent, None
    <2>3. QED
      BY <1>3, <2>1, <2>2, SameHolders DEF PollDone, IInv, ShapeInv
  <1>4. CASE Watch(c)
    <2>1. Holders' = Holders
      BY <1>4 DEF Watch, Holders, IInv, TypeOK
    <2>2. ShapeInv'
      BY <1>4 DEF IInv, ShapeInv, Watch, TypeOK, OwnerCloses, clients,
                  NotYetServed, LoopOwnsCurrent, None
    <2>3. QED
      BY <1>4, <2>1, <2>2, SameHolders DEF Watch, IInv, ShapeInv
  <1>5. CASE Send(c)
    <2>1. Holders' = Holders
      BY <1>5 DEF Send, Holders, IInv, TypeOK
    <2>2. ShapeInv'
      BY <1>5 DEF IInv, ShapeInv, Send, TypeOK, OwnerCloses, clients,
                  NotYetServed, LoopOwnsCurrent, None
    <2>3. QED
      BY <1>5, <2>1, <2>2, SameHolders DEF Send, IInv, ShapeInv
  <1>6. QED
    BY <1>1, <1>2, <1>3, <1>4, <1>5 DEF ConnStep

\* Workers: a provider that returns keeps its admission until the worker
\* gives it back, once.
LEMMA WorkerStep ==
    ASSUME IInv, NEW c \in Clients, ProviderReturns(c) \/ Release(c)
    PROVE  IInv'
  <1>1. CASE ProviderReturns(c)
    <2>1. Holders' = Holders
      BY <1>1 DEF ProviderReturns, Holders, IInv, TypeOK
    <2>2. ShapeInv'
      BY <1>1 DEF IInv, ShapeInv, ProviderReturns, TypeOK, OwnerCloses, clients,
                  NotYetServed, LoopOwnsCurrent, None
    <2>3. QED
      BY <1>1, <2>1, <2>2, SameHolders DEF ProviderReturns, IInv, ShapeInv
  <1>2. CASE Release(c)
    <2>1. c \in Holders /\ Holders' = Holders \ {c}
      BY <1>2 DEF Release, Holders, IInv, TypeOK, NotYetServed, None
    <2>2. active_work' = active_work - 1 /\ unspawned' = unspawned
      BY <1>2 DEF Release
    <2> DEFINE left == Cardinality(Holders')
    <2>3. /\ IsFiniteSet(Holders')
          /\ left \in Nat /\ unspawned \in Nat
          /\ active_work = left + 1 + unspawned
      BY <2>1, DropHolder
    <2> HIDE DEF left
    <2>4. active_work' = left + unspawned' /\ active_work' \in 0 .. Cap
      BY <2>2, <2>3, CapAssumption DEF IInv, TypeOK
    <2>a. AdmissionsAccounted'
      BY <2>4 DEF AdmissionsAccounted, left
    <2>5. ShapeInv'
      BY <1>2, <2>4 DEF IInv, ShapeInv, Release, TypeOK, OwnerCloses, clients,
                        NotYetServed, LoopOwnsCurrent, None
    <2>6. QED
      BY <2>3, <2>a, <2>5 DEF IInv, ShapeInv
  <1>3. QED
    BY <1>1, <1>2

-----------------------------------------------------------------------------
\* The invariant holds of the server that has just started listening.
LEMMA InitInvariant == Init => IInv
  <1> SUFFICES ASSUME Init PROVE IInv
    OBVIOUS
  <1>1. Holders = {}
    BY DEF Init, Holders, None
  <1>2. IsFiniteSet(Holders) /\ Cardinality(Holders) = 0
    BY <1>1, FS_EmptySet
  <1>3. AdmissionsAccounted
    BY <1>2 DEF Init, AdmissionsAccounted
  <1>4. TypeOK
    <2>1. active_work \in 0 .. Cap /\ unspawned \in 0 .. Failures
      BY CapAssumption, FailuresAssumption DEF Init
    <2>2. /\ here \subseteq Clients /\ unread \subseteq Clients /\ loop = "top"
          /\ current = None /\ shutting_down \in BOOLEAN
          /\ request \in [Clients -> {None}] /\ sock \in [Clients -> {None}]
          /\ answer \in [Clients -> {None}] /\ conn \in [Clients -> {None}]
          /\ worker \in [Clients -> {None}]
      BY DEF Init
    <2>3. QED
      BY <2>1, <2>2 DEF TypeOK
  <1>5. OwnerCloses /\ NotYetServed /\ LoopOwnsCurrent
    BY DEF Init, OwnerCloses, NotYetServed, LoopOwnsCurrent, None
  <1>6. QED
    BY <1>2, <1>3, <1>4, <1>5 DEF IInv

\* Every step of the server and of its clients keeps the invariant.
LEMMA StepInvariant == IInv /\ [Next]_vars => IInv'
  <1> SUFFICES ASSUME IInv, [Next]_vars PROVE IInv'
    OBVIOUS
  <1>1. CASE Next
    BY <1>1, ClientStep, LoopStepKeeps, LoopFailsKeeps, ConnStepKeeps, WorkerStep DEF Next
  <1>2. CASE UNCHANGED vars
    <2>1. Holders' = Holders
      BY <1>2 DEF vars, Holders
    <2>2. ShapeInv'
      BY <1>2 DEF vars, IInv, ShapeInv, TypeOK, OwnerCloses, clients,
                  NotYetServed, LoopOwnsCurrent
    <2>3. QED
      BY <1>2, <2>1, <2>2, SameHolders DEF vars, IInv, ShapeInv
  <1>3. QED
    BY <1>1, <1>2

\* Hence it always holds.
LEMMA Invariance == Spec => []IInv
  BY InitInvariant, StepInvariant, PTL DEF Spec

\* The server's state is well typed; in particular the admissions in use
\* never exceed max_concurrent_requests and never go below zero, whichever
\* of abandonment, completion and refusal comes first.
THEOREM TypeCorrect == Spec => []TypeOK
  BY Invariance, PTL DEF IInv

\* Admissions are given back exactly once: the count is the number of
\* unfinished provider calls, abandoned ones included, plus the threads that
\* could not be created.
THEOREM Admissions == Spec => []AdmissionsAccounted
  BY Invariance, PTL DEF IInv

\* A connection is answered and closed by exactly the thread that owns it.
THEOREM Ownership == Spec => []OwnerCloses
  BY Invariance, PTL DEF IInv
=============================================================================
