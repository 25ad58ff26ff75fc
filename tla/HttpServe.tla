------------------------------ MODULE HttpServe ------------------------------
(***************************************************************************)
(* The HTTP server (src/vulkan/windows/c++/serve/vaist_http_server.cpp): a *)
(* caller that starts, stops, joins and destroys it, the listener thread,  *)
(* and a detached thread per connection.                                   *)
(*                                                                         *)
(* What is read and sent is left out, but for what read_request can make   *)
(* of it.  A request is                                                    *)
(*   "plain"       whole, its answer needs no generation (OPTIONS, models, *)
(*                 health, 404 and 400)                                    *)
(*   "generate"    whole, its answer does                                  *)
(*   "part"        not whole yet                                           *)
(*   "bare"        whole, without a header line: it never parses           *)
(*   "unnumbered"  with a Content-Length that is no number or one too big: *)
(*                 reading it throws                                       *)
(* Sockets and Winsock are external.                                       *)
(***************************************************************************)
EXTENDS Integers, FiniteSets

CONSTANTS
  Clients,      \* clients that connect once each
  MaxStarts,    \* bound on the calls of start()
  CallerJoins,  \* whether the caller joins before it destroys, as vaist_serve does
  Requests,     \* what the clients send
  HttpFaults    \* what may fail: WSAStartup ("startup"), the calls that make
                \* the listening socket ("socket"), "accept", a client ("reset")

AllRequests == {"part", "bare", "unnumbered", "plain", "generate"}

ASSUME HttpAssumption ==
  /\ IsFiniteSet(Clients) /\ MaxStarts \in Nat /\ CallerJoins \in BOOLEAN
  /\ Requests \subseteq AllRequests
  /\ HttpFaults \subseteq {"startup", "socket", "accept", "reset"}

VARIABLES
  caller,    \* "idle", "serving", "closing", "stopped", "joining", "joined",
             \* "destroyCloses", "destroying", "gone", "terminated"
  running,   \* running_
  listenFd,  \* listen_sock_ is a listening socket
  listener,  \* listener thread: "none", "check", "accept", "spawn", "exited"
  conn,      \* per client: "away", "backlog", "accepted", then its thread:
             \* "reading", "routing", "generating", "answering", "closed"
  request,   \* what the client has sent: "none" or one of AllRequests
  peer,      \* the client's end: "open", "shut", or "reset"
  refcount,  \* wsa_refcount_
  winsock,   \* WSAStartup calls not yet undone
  starts     \* calls of start()

httpVars == <<caller, running, listenFd, listener, conn, request, peer, refcount, winsock, starts>>
callerVars == <<caller, running, listenFd, refcount, winsock, starts>>
webVars == <<conn, request, peer>>

HttpInit ==
  /\ caller = "idle" /\ running = FALSE /\ listenFd = FALSE /\ listener = "none"
  /\ conn = [c \in Clients |-> "away"] /\ request = [c \in Clients |-> "none"]
  /\ peer = [c \in Clients |-> "open"]
  /\ refcount = 0 /\ winsock = 0 /\ starts = 0

-----------------------------------------------------------------------------
(* The caller.                                                             *)

\* The process is there.
Alive == caller # "terminated"

\* init_winsock starts the library when no server has it.
StartsWinsock(count) == count <= 0
\* cleanup_winsock.  WSACleanup without a WSAStartup has no effect.
StopsWinsock(count) == count <= 1

InitWinsock(w) == IF StartsWinsock(refcount) THEN w + 1 ELSE w
CleanupWinsock(count, w) == IF StopsWinsock(count) /\ w > 0 THEN w - 1 ELSE w

\* A connection that nobody accepted goes with the listening socket.
Dropped == [c \in Clients |-> IF conn[c] = "backlog" THEN "closed" ELSE conn[c]]

\* start().
Start ==
  /\ caller \in {"idle", "joined"} /\ starts < MaxStarts
  /\ InitWinsock(winsock) > 0
  /\ caller' = "serving" /\ running' = TRUE /\ listenFd' = TRUE /\ listener' = "check"
  /\ refcount' = refcount + 1 /\ winsock' = InitWinsock(winsock)
  /\ starts' = starts + 1
  /\ UNCHANGED webVars

\* WSAStartup fails: the server has been counted and stays so, and the next
\* start takes the library for started.
StartupFails ==
  /\ "startup" \in HttpFaults /\ StartsWinsock(refcount)
  /\ caller \in {"idle", "joined"} /\ starts < MaxStarts
  /\ refcount' = refcount + 1 /\ starts' = starts + 1
  /\ UNCHANGED <<caller, running, listenFd, listener, winsock, webVars>>

\* No socket, as for want of the library, or it cannot be bound or listen:
\* Winsock is given back.
StartFails ==
  /\ "socket" \in HttpFaults \/ InitWinsock(winsock) = 0
  /\ caller \in {"idle", "joined"} /\ starts < MaxStarts
  /\ winsock' = CleanupWinsock(refcount + 1, InitWinsock(winsock))
  /\ starts' = starts + 1
  /\ UNCHANGED <<caller, running, listenFd, listener, refcount, webVars>>

\* Mutant: stop() leaves running_ set.
StillRunning == running
\* What stop() makes of running_.
NotRunning == FALSE

\* stop() clears running_ ...
Stop ==
  /\ caller = "serving" /\ caller' = "closing" /\ running' = NotRunning
  /\ UNCHANGED <<listenFd, listener, refcount, winsock, starts, webVars>>

\* ... and so does the destructor of a server that runs; both then close the socket.
DestroyRunning ==
  /\ caller = "serving" /\ caller' = "destroyCloses" /\ running' = NotRunning
  /\ UNCHANGED <<listenFd, listener, refcount, winsock, starts, webVars>>

CloseListenFd ==
  /\ caller \in {"closing", "destroyCloses"}
  /\ caller' = IF caller = "closing" THEN "stopped" ELSE "destroying"
  /\ listenFd' = FALSE /\ conn' = Dropped
  /\ UNCHANGED <<running, listener, request, peer, refcount, winsock, starts>>

\* Mutant: join() never waits.
NeverWaits == TRUE
\* join() returns when the listener thread has.
ListenerGone == listener = "exited"

CallJoin ==
  /\ caller = "stopped" /\ caller' = "joining"
  /\ UNCHANGED <<running, listenFd, listener, refcount, winsock, starts, webVars>>
JoinReturns ==
  /\ caller = "joining" /\ ListenerGone
  /\ caller' = "joined"
  /\ UNCHANGED <<running, listenFd, listener, refcount, winsock, starts, webVars>>

\* The rest of the destructor.  A thread that was not joined when its std::thread
\* goes terminates the process.
Destroy ==
  /\ \/ caller \in {"idle", "joined"}
     \/ caller = "stopped" /\ ~CallerJoins
     \/ caller = "destroying" /\ ListenerGone
  /\ caller' = IF caller = "stopped" THEN "terminated" ELSE "gone"
  /\ winsock' = CleanupWinsock(refcount, winsock) /\ refcount' = refcount - 1
  /\ UNCHANGED <<running, listenFd, listener, starts, webVars>>

-----------------------------------------------------------------------------
(* The listener thread.                                                    *)

ListenerChecks ==
  /\ Alive /\ listener = "check"
  /\ listener' = IF running THEN "accept" ELSE "exited"
  /\ UNCHANGED <<callerVars, webVars>>

Accept(c) ==
  /\ Alive /\ listener = "accept" /\ listenFd /\ conn[c] = "backlog"
  /\ conn' = [conn EXCEPT ![c] = "accepted"] /\ listener' = "spawn"
  /\ UNCHANGED <<callerVars, request, peer>>

\* accept() returns INVALID_SOCKET: the socket was closed, or an error.
AcceptFails ==
  /\ Alive /\ listener = "accept"
  /\ ~listenFd \/ "accept" \in HttpFaults
  /\ listener' = IF running THEN "check" ELSE "exited"
  /\ UNCHANGED <<callerVars, webVars>>

\* The thread of the connection starts, detached.
Spawn(c) ==
  /\ Alive /\ listener = "spawn" /\ conn[c] = "accepted"
  /\ conn' = [conn EXCEPT ![c] = "reading"] /\ listener' = "check"
  /\ UNCHANGED <<callerVars, request, peer>>

-----------------------------------------------------------------------------
(* A connection's thread: handle_connection.                               *)

Moves(c, to) ==
  /\ Alive
  /\ conn' = [conn EXCEPT ![c] = to]
  /\ UNCHANGED <<callerVars, listener, request, peer>>

Whole(c) == request[c] \in {"plain", "generate"}

\* Mutant: half a request and an end of file are waited on.
OnlyWhole(c) == Whole(c)
\* read_request returns true: the request is whole, or the client has ended it
\* early, and what is there is routed.
RequestRead(c) == Whole(c) \/ (peer[c] = "shut" /\ request[c] \in {"part", "bare"})

ReadRequest(c) == conn[c] = "reading" /\ RequestRead(c) /\ Moves(c, "routing")

\* read_request returns false: nothing came, or an error.  A receive time-out
\* is not one: it goes on waiting, as it does on a whole request it cannot parse.
ReadFails(c) ==
  /\ conn[c] = "reading"
  /\ peer[c] = "reset" \/ (peer[c] = "shut" /\ request[c] = "none")
  /\ Moves(c, "closed")

\* std::stoull, or the body of a length that wrapped, throws out of the detached
\* thread: std::terminate.
ReadThrows(c) ==
  /\ Alive /\ conn[c] = "reading" /\ request[c] = "unnumbered"
  /\ caller' = "terminated"
  /\ UNCHANGED <<running, listenFd, listener, refcount, winsock, starts, webVars>>

\* OPTIONS and route().  The whole answer of a generation is there before any
\* token of it is sent; whether sending succeeds is not looked at.  A body cut
\* short may still be a request.
Route(c) ==
  /\ conn[c] = "routing"
  /\ \/ request[c] \in {"generate", "part"} /\ Moves(c, "generating")
     \/ request[c] # "generate" /\ Moves(c, "answering")
Generate(c) == conn[c] = "generating" /\ Moves(c, "answering")
AnswerAndClose(c) == conn[c] = "answering" /\ Moves(c, "closed")

-----------------------------------------------------------------------------
(* The clients.                                                            *)

Connect(c) ==
  /\ Alive /\ listenFd /\ conn[c] = "away"
  /\ conn' = [conn EXCEPT ![c] = "backlog"]
  /\ UNCHANGED <<callerVars, listener, request, peer>>

Connected(c) == Alive /\ conn[c] # "away" /\ peer[c] = "open"

Send(c, r) ==
  /\ Connected(c)
  /\ r \in Requests
  /\ request[c] = "none" \/ (request[c] = "part" /\ r # "part")
  /\ request' = [request EXCEPT ![c] = r]
  /\ UNCHANGED <<callerVars, listener, conn, peer>>

Leave(c, how) ==
  /\ Connected(c) /\ (how = "reset" => "reset" \in HttpFaults)
  /\ peer' = [peer EXCEPT ![c] = how]
  /\ UNCHANGED <<callerVars, listener, conn, request>>

ConnectionStep(c) ==
  \/ ReadRequest(c) \/ ReadFails(c) \/ ReadThrows(c)
  \/ Route(c) \/ Generate(c) \/ AnswerAndClose(c)

HttpNext ==
  \/ Start \/ StartupFails \/ StartFails \/ Stop \/ DestroyRunning \/ CloseListenFd
  \/ CallJoin \/ JoinReturns \/ Destroy
  \/ ListenerChecks \/ AcceptFails
  \/ \E c \in Clients :
       \/ Accept(c) \/ Spawn(c)
       \/ ConnectionStep(c)
       \/ Connect(c) \/ Leave(c, "shut") \/ Leave(c, "reset")
       \/ \E r \in AllRequests : Send(c, r)

\* A thread that can run does; a call the caller is in goes on.  Whether clients
\* send or leave, whether the caller stops, and whether accept() finds the one
\* client or the other, is up to them.
HttpFairness ==
  /\ WF_httpVars(ListenerChecks) /\ WF_httpVars(AcceptFails /\ ~listenFd)
  /\ WF_httpVars(CloseListenFd) /\ WF_httpVars(JoinReturns)
  /\ WF_httpVars(caller = "destroying" /\ Destroy)
  /\ \A c \in Clients :
       /\ WF_httpVars(Spawn(c))
       /\ WF_httpVars(ConnectionStep(c))

HttpSpec == HttpInit /\ [][HttpNext]_httpVars /\ HttpFairness

-----------------------------------------------------------------------------
(* Properties.                                                             *)

\* The variables have their types.
HttpTypeOK ==
  /\ caller \in {"idle", "serving", "closing", "stopped", "joining", "joined",
                "destroyCloses", "destroying", "gone", "terminated"}
  /\ running \in BOOLEAN /\ listenFd \in BOOLEAN
  /\ listener \in {"none", "check", "accept", "spawn", "exited"}
  /\ conn \in [Clients -> {"away", "backlog", "accepted", "reading", "routing", "generating",
                           "answering", "closed"}]
  /\ request \in [Clients -> AllRequests \cup {"none"}]
  /\ peer \in [Clients -> {"open", "shut", "reset"}]
  /\ refcount \in -1..MaxStarts /\ winsock \in 0..MaxStarts /\ starts \in 0..MaxStarts

\* While the listener is at work Winsock is there, and whoever finds it counted
\* finds it started: failed starts and restarts do not lose it.
WinsockWhileServing ==
  /\ listener \in {"check", "accept", "spawn"} => winsock > 0
  /\ refcount > 0 => winsock > 0

\* Once join() has returned, or the destructor, no connection thread starts: the
\* threads that are left can only end.
ThreadStartsLate ==
  \E c \in Clients : /\ caller \in {"joined", "gone"}
                     /\ conn[c] # "reading" /\ conn'[c] = "reading"
NoThreadAfterJoin == [][~ThreadStartsLate]_httpVars

\* "Closes the listening socket, causing accept() to fail and the listener thread
\* to exit" (vaist_http_server.hpp): however stop() falls between the listener's
\* check and its accept(), join() and the destructor come back, unless a request
\* ends the process under them.
JoinComesBack ==
  caller \in {"joining", "destroyCloses"} ~> caller \in {"joined", "gone", "terminated"}

\* A connection whose thread runs, and whose client has gone away or has sent a
\* request that can be read, is closed at last, also when the server stops under
\* it.  The two requests that are an exception: a bare one waits for its client
\* to go, an unnumbered one ends the process.
ConnectionEnds ==
  \A c \in Clients :
    conn[c] = "reading" /\ (Whole(c) \/ peer[c] # "open")
      ~> conn[c] = "closed" \/ caller = "terminated"

\* The lifecycle vaist_http_server.hpp shows, start(), stop() and the end of the
\* server's scope, ends in good order.
LifecycleEnds == caller # "terminated"
=============================================================================
