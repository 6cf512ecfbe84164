------------------------------ MODULE UiServer ------------------------------
(***************************************************************************)
(* The local explorer's HTTP server (ui/server.cpp).  One thread accepts,  *)
(* reads and routes requests and answers the cheap ones itself.  A graph,  *)
(* search or evidence request is admitted against a cap and gets a         *)
(* connection thread, which runs the provider on a worker thread of its    *)
(* own and watches, while the provider runs, for the client going away and *)
(* for the server shutting down; it then leaves the worker behind instead  *)
(* of waiting for it.  A worker gives its admission back when its provider *)
(* returns, which a provider that ignores cancellation may never do.       *)
(***************************************************************************)
EXTENDS Naturals, FiniteSets

CONSTANTS
    Clients,    \* connections made to the server, one request each
    Asks(_),    \* what a client may ask for
    Verbose,    \* clients that send more than their request
    Cap,        \* max_concurrent_requests
    Failures    \* bound on threads that cannot be created

ASSUME CapAssumption == Cap \in Nat \ {0}   \* std::max(1, ...)
ASSUME FailuresAssumption == Failures \in Nat

VARIABLES
    here,           \* clients that are connected and still there
    unread,         \* clients that sent bytes the server does not read
    request,        \* what each connected client asks for
    sock,           \* the server's end of each connection
    answer,         \* the status sent on it
    loop,           \* where the accept loop is
    current,        \* the connection it is handling
    conn,           \* where each connection thread is
    worker,         \* where each worker thread is
    active_work,    \* admissions in use
    shutting_down,  \* the flag the connection threads watch
    unspawned       \* threads that could not be created (bound)

clients == <<here, unread, request>>
vars == <<clients, sock, answer, loop, current, conn, worker,
          active_work, shutting_down, unspawned>>

None == "none"
Requests == {"page", "provider", "shutdown", "bad"}
ASSUME AsksAssumption == \A c \in Clients : Asks(c) \subseteq Requests

\* serve_live was left by an exception, and the process with it.
Ended == loop \in {"failed", "terminated"}

-----------------------------------------------------------------------------
(* Clients. *)

\* Some clients send more than their request; nothing reads the rest.
Connect(c) ==
    /\ sock[c] = None
    /\ loop # "returned" /\ ~Ended
    /\ sock' = [sock EXCEPT ![c] = "queued"]
    /\ here' = here \cup {c}
    /\ \E r \in Asks(c) : request' = [request EXCEPT ![c] = r]
    /\ unread' = unread \cup ({c} \cap Verbose)
    /\ UNCHANGED <<answer, loop, current, conn, worker, active_work,
                   shutting_down, unspawned>>

\* An orderly close.
Disconnect(c) ==
    /\ c \in here /\ sock[c] # "closed"
    /\ here' = here \ {c}
    /\ UNCHANGED <<unread, request, sock, answer, loop, current, conn, worker,
                   active_work, shutting_down, unspawned>>

\* A reset, which discards what was not read.
Reset(c) ==
    /\ c \in here /\ sock[c] # "closed"
    /\ here' = here \ {c}
    /\ unread' = unread \ {c}
    /\ UNCHANGED <<request, sock, answer, loop, current, conn, worker,
                   active_work, shutting_down, unspawned>>

-----------------------------------------------------------------------------
(* The accept loop. *)

Reaped == [c \in Clients |-> IF conn[c] = "finished" THEN "joined" ELSE conn[c]]

\* Mutant: connection threads are joined whether or not they are finished.
reap_every_connection ==
    /\ loop = "top"
    /\ \A c \in Clients : conn[c] \in {None, "finished", "joined"}
    /\ loop' = "accepting"
    /\ conn' = Reaped
    /\ UNCHANGED <<clients, sock, answer, current, worker, active_work,
                   shutting_down, unspawned>>

\* Join and forget the connection threads that are finished, at the top of
\* every iteration.
reap_finished_connections ==
    /\ loop = "top"
    /\ loop' = "accepting"
    /\ conn' = Reaped
    /\ UNCHANGED <<clients, sock, answer, current, worker, active_work,
                   shutting_down, unspawned>>

Accept(c) ==
    /\ loop = "accepting"
    /\ sock[c] = "queued"
    /\ loop' = "reading"
    /\ current' = c
    /\ sock' = [sock EXCEPT ![c] = "open"]
    /\ UNCHANGED <<clients, answer, conn, worker, active_work,
                   shutting_down, unspawned>>

\* accept() was interrupted: the loop goes round.
AcceptInterrupted ==
    /\ loop = "accepting"
    /\ conn' = Reaped
    /\ UNCHANGED <<clients, sock, answer, loop, current, worker, active_work,
                   shutting_down, unspawned>>

\* Any other error of accept() leaves the loop, without telling the connection
\* threads that the server shuts down.
AcceptFails ==
    /\ loop = "accepting"
    /\ loop' = "draining"
    /\ UNCHANGED <<clients, sock, answer, current, conn, worker, active_work,
                   shutting_down, unspawned>>

\* An answer the accept loop sends itself; it then closes the connection.
\* send() blocks until the client has taken the answer or is gone.
Answer(status) ==
    /\ answer' = [answer EXCEPT ![current] = status]
    /\ sock' = [sock EXCEPT ![current] = "closed"]
    /\ current' = None
    /\ UNCHANGED <<clients, worker, unspawned>>

\* Not a request in time, or none for us: 400, 403 or 404.
Refuse ==
    /\ loop = "reading"
    /\ request[current] = "bad" \/ current \notin here
    /\ Answer("refused")
    /\ loop' = "top"
    /\ UNCHANGED <<conn, active_work, shutting_down>>

ServePage ==
    /\ loop = "reading"
    /\ request[current] = "page"
    /\ Answer("ok")
    /\ loop' = "top"
    /\ UNCHANGED <<conn, active_work, shutting_down>>

ServeShutdown ==
    /\ loop = "reading"
    /\ request[current] = "shutdown"
    /\ Answer("ok")
    /\ shutting_down' = TRUE
    /\ loop' = "draining"
    /\ UNCHANGED <<conn, active_work>>

\* Mutant: the admission that reaches the cap is not the last one.
try_admit_past_cap == active_work <= Cap

try_admit == active_work < Cap

\* A provider request: admitted and handed to a connection thread, or 503.
ServeProvider ==
    /\ loop = "reading"
    /\ request[current] = "provider"
    /\ loop' = "top"
    /\ IF try_admit
       THEN /\ active_work' = active_work + 1
            /\ conn' = [conn EXCEPT ![current] = "starting"]
            /\ current' = None
            /\ UNCHANGED <<clients, sock, answer, worker, unspawned>>
       ELSE /\ Answer("busy")
            /\ UNCHANGED <<active_work, conn>>
    /\ UNCHANGED shutting_down

\* The connection thread cannot be created: the exception leaves serve_live with
\* the admission taken and the connection open.  It destroys the connection
\* threads not yet joined, and a joinable one terminates the process; otherwise
\* the command reports the error and the process exits.
HandOverFails ==
    /\ loop = "reading"
    /\ request[current] = "provider"
    /\ try_admit
    /\ unspawned < Failures
    /\ unspawned' = unspawned + 1
    /\ active_work' = active_work + 1
    /\ loop' = IF \A c \in Clients : conn[c] \in {None, "joined"}
               THEN "failed" ELSE "terminated"
    /\ UNCHANGED <<clients, sock, answer, current, conn, worker, shutting_down>>

\* After the loop every connection thread is joined.
Drain ==
    /\ loop = "draining"
    /\ \A c \in Clients : conn[c] \in {None, "finished", "joined"}
    /\ loop' = "returned"
    /\ conn' = Reaped
    /\ UNCHANGED <<clients, sock, answer, current, worker, active_work,
                   shutting_down, unspawned>>

-----------------------------------------------------------------------------
(* Connection threads: run_provider_route. *)

Start(c) ==
    /\ conn[c] = "starting"
    /\ conn' = [conn EXCEPT ![c] = "polling"]
    /\ worker' = [worker EXCEPT ![c] = "running"]
    /\ UNCHANGED <<clients, sock, answer, loop, current, active_work,
                   shutting_down, unspawned>>

\* Mutant: the handler forgets the connection.
StartFailsOpen(c) ==
    /\ conn[c] = "starting"
    /\ unspawned < Failures
    /\ unspawned' = unspawned + 1
    /\ conn' = [conn EXCEPT ![c] = "finished"]
    /\ UNCHANGED <<clients, sock, answer, loop, current, worker,
                   active_work, shutting_down>>

\* The worker cannot be created: the handler closes the connection and
\* marks it finished, and the admission is never given back.
StartFails(c) ==
    /\ conn[c] = "starting"
    /\ unspawned < Failures
    /\ unspawned' = unspawned + 1
    /\ sock' = [sock EXCEPT ![c] = "closed"]
    /\ conn' = [conn EXCEPT ![c] = "finished"]
    /\ UNCHANGED <<clients, answer, loop, current, worker, active_work,
                   shutting_down>>

\* The polling loop: first whether the worker is done ...
PollDone(c) ==
    /\ conn[c] = "polling"
    /\ conn' = [conn EXCEPT ![c] = IF worker[c] = "running" THEN "watching" ELSE "joining"]
    /\ UNCHANGED <<clients, sock, answer, loop, current, worker,
                   active_work, shutting_down, unspawned>>

\* What poll() and a peek at the socket tell: a reset always, an orderly close
\* unless bytes that nobody read come before it.
peer_disconnected(c) == c \notin here /\ c \notin unread

\* Mutant: only the client going away is watched for.
WatchClientOnly(c) ==
    /\ conn[c] = "watching"
    /\ conn' = [conn EXCEPT ![c] = IF peer_disconnected(c) THEN "finished" ELSE "polling"]
    /\ sock' = [sock EXCEPT ![c] = IF peer_disconnected(c) THEN "closed" ELSE "open"]
    /\ UNCHANGED <<clients, answer, loop, current, worker, active_work,
                   shutting_down, unspawned>>

\* Mutant: only the shutdown is watched for.
WatchShutdownOnly(c) ==
    /\ conn[c] = "watching"
    /\ conn' = [conn EXCEPT ![c] = IF shutting_down THEN "finished" ELSE "polling"]
    /\ sock' = [sock EXCEPT ![c] = IF shutting_down THEN "closed" ELSE "open"]
    /\ UNCHANGED <<clients, answer, loop, current, worker, active_work,
                   shutting_down, unspawned>>

\* Mutant: an abandoned call gives its admission back at once.
WatchReleases(c) ==
    /\ conn[c] = "watching"
    /\ IF peer_disconnected(c) \/ shutting_down
       THEN /\ conn' = [conn EXCEPT ![c] = "finished"]
            /\ sock' = [sock EXCEPT ![c] = "closed"]
            /\ active_work' = IF active_work > 0 THEN active_work - 1 ELSE 0
       ELSE /\ conn' = [conn EXCEPT ![c] = "polling"]
            /\ UNCHANGED <<sock, active_work>>
    /\ UNCHANGED <<clients, answer, loop, current, worker, shutting_down,
                   unspawned>>

\* ... then whether anyone still wants the answer; if not, the worker is
\* told to stop and is detached.  Otherwise the thread sleeps and polls again.
Watch(c) ==
    /\ conn[c] = "watching"
    /\ IF peer_disconnected(c) \/ shutting_down
       THEN /\ conn' = [conn EXCEPT ![c] = "finished"]
            /\ sock' = [sock EXCEPT ![c] = "closed"]
       ELSE /\ conn' = [conn EXCEPT ![c] = "polling"]
            /\ UNCHANGED sock
    /\ UNCHANGED <<clients, answer, loop, current, worker, active_work,
                   shutting_down, unspawned>>

\* A worker that is done is joined, and its result sent: 200 with what the
\* provider returned, or 400 if it returned nothing.
Send(c) ==
    /\ conn[c] = "joining"
    /\ worker[c] = "exited"
    /\ answer' = [answer EXCEPT ![c] = "result"]
    /\ sock' = [sock EXCEPT ![c] = "closed"]
    /\ conn' = [conn EXCEPT ![c] = "finished"]
    /\ UNCHANGED <<clients, loop, current, worker, active_work,
                   shutting_down, unspawned>>

-----------------------------------------------------------------------------
(* Worker threads. *)

\* The provider returns, with or without an answer, and `done` is stored.
ProviderReturns(c) ==
    /\ ~Ended
    /\ worker[c] = "running"
    /\ worker' = [worker EXCEPT ![c] = "done"]
    /\ UNCHANGED <<clients, sock, answer, loop, current, conn,
                   active_work, shutting_down, unspawned>>

Release(c) ==
    /\ ~Ended
    /\ worker[c] = "done"
    /\ worker' = [worker EXCEPT ![c] = "exited"]
    /\ active_work' = active_work - 1
    /\ UNCHANGED <<clients, sock, answer, loop, current, conn,
                   shutting_down, unspawned>>

-----------------------------------------------------------------------------
Init ==
    /\ here = {} /\ unread = {}
    /\ request = [c \in Clients |-> None]
    /\ sock = [c \in Clients |-> None]
    /\ answer = [c \in Clients |-> None]
    /\ loop = "top"
    /\ current = None
    /\ conn = [c \in Clients |-> None]
    /\ worker = [c \in Clients |-> None]
    /\ active_work = 0
    /\ shutting_down = FALSE
    /\ unspawned = 0

LoopStep ==
    \/ reap_finished_connections
    \/ \E c \in Clients : Accept(c)
    \/ Refuse
    \/ ServePage
    \/ ServeShutdown
    \/ ServeProvider
    \/ Drain

LoopFails == AcceptInterrupted \/ AcceptFails \/ HandOverFails

ConnStep(c) ==
    /\ ~Ended
    /\ Start(c) \/ StartFails(c) \/ PollDone(c) \/ Watch(c) \/ Send(c)

Next ==
    \/ \E c \in Clients : Connect(c)
    \/ \E c \in Clients : Disconnect(c) \/ Reset(c)
    \/ LoopStep
    \/ LoopFails
    \/ \E c \in Clients : ConnStep(c)
    \/ \E c \in Clients : ProviderReturns(c)
    \/ \E c \in Clients : Release(c)

\* The server's threads are scheduled, and a client takes its answer or goes
\* away.  Nothing is assumed of the providers.
Fairness ==
    /\ WF_vars(LoopStep)
    /\ \A c \in Clients : WF_vars(ConnStep(c)) /\ WF_vars(Release(c))

Spec == Init /\ [][Next]_vars /\ Fairness

-----------------------------------------------------------------------------
(* Properties. *)

TypeOK ==
    /\ here \subseteq Clients /\ unread \subseteq Clients
    /\ request \in [Clients -> Requests \cup {None}]
    /\ sock \in [Clients -> {None, "queued", "open", "closed"}]
    /\ answer \in [Clients -> {None, "ok", "refused", "busy", "result"}]
    /\ loop \in {"top", "accepting", "reading", "draining", "returned",
                "failed", "terminated"}
    /\ current \in Clients \cup {None}
    /\ conn \in [Clients -> {None, "starting", "polling", "watching", "joining",
                             "finished", "joined"}]
    /\ worker \in [Clients -> {None, "running", "done", "exited"}]
    /\ active_work \in 0..Cap
    /\ shutting_down \in BOOLEAN
    /\ unspawned \in 0..Failures

\* Requests that hold an admission: handed over and not started, or with a
\* provider that has not returned it, whether or not anyone waits for it.
Holders == {c \in Clients : conn[c] = "starting" \/ worker[c] \in {"running", "done"}}

\* The admissions in use are exactly the unfinished provider calls, the
\* abandoned ones included, plus one for every thread that could not be created
\* once a request was admitted: no interleaving of abandonment, completion and
\* refusal gives one back twice or loses one (try_admit against the worker's
\* fetch_sub).
AdmissionsAccounted == active_work = Cardinality(Holders) + unspawned

\* Each connection is closed by exactly the thread that owns it: while a
\* connection thread runs, its socket is open and unanswered, and once it is
\* finished the socket is closed.
OwnerCloses ==
    \A c \in Clients :
        /\ conn[c] \in {"starting", "polling", "watching", "joining"}
              => sock[c] = "open" /\ answer[c] = None
        /\ conn[c] \in {"finished", "joined"} => sock[c] = "closed"

\* A shutdown request stops the server even if no provider ever returns.
ShutdownReturns == shutting_down ~> loop = "returned"

\* No provider holds up the accept loop: a client that has connected is accepted,
\* unless the server shuts down or fails first, although others wait for providers
\* that never return (the cheap routes answer at once, the others only hand over,
\* and reap_finished_connections joins only threads that are finished).
NotHeldUp ==
    \A c \in Clients :
        sock[c] = "queued" ~> sock[c] # "queued" \/ loop \in {"draining", "returned"} \/ Ended

\* The connection of a client that has gone away is closed, whatever its
\* provider does, unless the client's last bytes were never read: they hide an
\* orderly close from peer_disconnected.
GoneIsClosed ==
    \A c \in Clients :
        (sock[c] = "open" /\ c \notin here /\ c \notin unread) ~> sock[c] = "closed" \/ Ended
=============================================================================
