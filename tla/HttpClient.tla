----------------------------- MODULE HttpClient -----------------------------
(***************************************************************************)
(* The HTTP client, core/net/HttpClient.cpp: one object, one connection,   *)
(* kept between requests, through which the main thread and the save       *)
(* thread send requests one after the other.  Each waits for its answer on *)
(* its own stack, yielding to the other thread (MacYield) whenever the     *)
(* network is slow; what is between two yields is one step here.           *)
(*                                                                         *)
(* The server may deal with a request or not, answer it whole, in part or  *)
(* not at all, and close the connection at any time; the client may not    *)
(* notice.  A response is its head and its body.  Bytes, host names, the   *)
(* DNS cache and keys are left out, a certificate that does not verify is  *)
(* a failed handshake, and redirects stay on the host.                     *)
(***************************************************************************)
EXTENDS Integers, Sequences

CONSTANTS Requests,     \* the requests ever made
          Patches,      \* those whose response body is not wanted
          Threads,      \* who makes them
          None, Ping,   \* no request; WarmUp's own
          MaxHops,      \* redirects followed of a request (5 in the code)
          Reentrant     \* a request may be made while another waits

ASSUME HttpAssumption == /\ Patches \subseteq Requests
                         /\ {None, Ping} \cap Requests = {} /\ None # Ping
                         /\ MaxHops \in Nat
                         /\ Reentrant \in BOOLEAN

VARIABLES connState,    \* _connState
          hasSession,   \* _hasSavedSession
          handshakeOk,  \* _lastHandshakeOk
          ticketDirty,  \* _ticketDirty
          served,       \* _connServedRequest
          idle,         \* how long since _lastUseTicks: 0, 1 (> 5 s), 2 (> 90 s)
          request,      \* _request and _onComplete
          discardBody,  \* _response.discardBody
          response,     \* the rest of _response, and the parser
          hops,         \* _redirectDepth
          pc,           \* where each thread is in HttpsRequest or WarmUp
          retried, wasIdle,    \* their locals
          established,  \* what TCPStatus says of the connection
          peer,         \* the server's end of it is open
          pending,      \* what the server has received on it and not dealt with
          inbox,        \* what it has sent and the client has not read
          asked,        \* history: the requests made
          dealt,        \* history: how often the server dealt with each
          answered,     \* history: the answers each got
          sends         \* history: when sent, whether over a connection that
                        \*   was there before

tlsVars == <<hasSession, handshakeOk, ticketDirty>>
useVars == <<served, idle>>
callVars == <<request, discardBody, response, hops>>
threadVars == <<pc, retried, wasIdle>>
netVars == <<established, peer, pending, inbox>>
history == <<asked, dealt, answered, sends>>
vars == <<connState, tlsVars, useVars, callVars, threadVars, netVars, history>>

NoResponse == [of |-> None, moved |-> FALSE, close |-> FALSE, skip |-> FALSE,
               complete |-> FALSE, broken |-> FALSE]

Resting == \A t \in Threads : pc[t] = "idle"
Busy(t, where) == pc[t] = where
Moves(t, to) == pc' = [pc EXCEPT ![t] = to]

(***************************************************************************)
(* The ends of a request.                                                  *)
(***************************************************************************)
(* The session is saved after a handshake, unless the body was skipped.    *)
SaveSession(R) ==
    LET save == ~R.skip /\ handshakeOk /\ ticketDirty
    IN  /\ hasSession' = (save \/ (hasSession /\ handshakeOk))
        /\ ticketDirty' = (ticketDirty /\ ~save)
        /\ UNCHANGED handshakeOk

(* The client keeps a connection that is not dead. *)
Settle(state) ==
    /\ connState' = state
    /\ served' = (served \/ state # "Dead")
    /\ idle' = IF state # "Dead" THEN 0 ELSE idle

(* What nobody reads any more, once thread t has its answer, is forgotten. *)
Left(t, x, none) == IF \A u \in Threads \ {t} : pc[u] = "idle" THEN none ELSE x

Ends(t, R) ==
    /\ Moves(t, "idle")
    /\ retried' = [retried EXCEPT ![t] = FALSE]
    /\ wasIdle' = [wasIdle EXCEPT ![t] = FALSE]
    /\ request' = Left(t, request, None)
    /\ response' = Left(t, R, NoResponse)
    /\ hops' = Left(t, hops, 0)

Deliver(t, R, ok) ==
    /\ Ends(t, R)
    /\ discardBody' = FALSE
    /\ answered' = [answered EXCEPT ![request] = Append(@, [ok |-> ok, of |-> R.of])]

(* Redirects without end. *)
FollowsAll(R, ok) == ok /\ R.moved

Follows(R, ok) == ok /\ R.moved /\ hops < MaxHops

(* SslClose with DoRedirect: a GET to the new place, which forgets nothing *)
(* but the response, or else the answer.                                   *)
SslClose(t, R, ok, state) ==
    /\ SaveSession(R)
    /\ Settle(state)
    /\ \/ /\ Follows(R, ok)
          /\ hops' = hops + 1
          /\ response' = NoResponse
          /\ Moves(t, "connect")
          /\ retried' = [retried EXCEPT ![t] = FALSE]
          /\ UNCHANGED <<request, discardBody, wasIdle, answered>>
       \/ /\ ~Follows(R, ok)
          /\ Deliver(t, R, ok)
    /\ UNCHANGED <<asked, dealt, sends>>

(* WarmUp keeps the session, and the connection when its ping was served.  *)
PingEnds(t, R, state) ==
    /\ Settle(state)
    /\ hasSession' = TRUE /\ ticketDirty' = FALSE
    /\ Ends(t, R)
    /\ UNCHANGED <<handshakeOk, discardBody, history>>

(* HttpsRequest_stale: the request is sent again on a new connection. *)
StartAgain(t) ==
    /\ connState' = "Dead"
    /\ response' = NoResponse
    /\ retried' = [retried EXCEPT ![t] = TRUE]
    /\ Moves(t, "connect")
    /\ UNCHANGED <<useVars, request, discardBody, hops, wasIdle, history>>

(* A retry also of requests that had a connection of their own. *)
RetryAny(t, R) ==
    \/ request = Ping /\ PingEnds(t, R, "Dead")
    \/ request # Ping /\ ~retried[t] /\ StartAgain(t) /\ UNCHANGED tlsVars
    \/ request # Ping /\ retried[t] /\ SslClose(t, R, FALSE, "Dead")

(* A connection closed by the peer, taken for the end of the response. *)
ClosedIsSuccess(t, R) ==
    \/ request = Ping /\ PingEnds(t, R, "Dead")
    \/ request # Ping /\ SslClose(t, R, TRUE, "Dead")

(* SslRequest or SslResponse failed, or the peer closed without a word: a  *)
(* request on a kept connection is sent again, once.                       *)
GiveUpOrRetry(t, R) ==
    \/ request = Ping /\ PingEnds(t, R, "Dead")
    \/ request # Ping /\ wasIdle[t] /\ ~retried[t] /\ StartAgain(t) /\ UNCHANGED tlsVars
    \/ request # Ping /\ ~(wasIdle[t] /\ ~retried[t]) /\ SslClose(t, R, FALSE, "Dead")

(***************************************************************************)
(* Making a request: Get, Post, Patch, PatchWithBody, through Request.     *)
(***************************************************************************)
Ask(t, r) ==
    /\ Busy(t, "idle") /\ (Resting \/ Reentrant)
    /\ r \notin asked
    /\ asked' = asked \cup {r}
    /\ request' = r
    /\ discardBody' = (discardBody \/ r \in Patches)
    /\ response' = NoResponse
    /\ hops' = 0
    /\ retried' = [retried EXCEPT ![t] = FALSE]
    /\ Moves(t, "connect")
    /\ UNCHANGED <<connState, tlsVars, useVars, wasIdle, netVars, dealt, answered, sends>>

(* At launch, after a failure, and before a ticket gets too old. *)
WarmUp(t) ==
    /\ Resting
    /\ request' = Ping
    /\ discardBody' = FALSE
    /\ response' = NoResponse
    /\ Moves(t, "connect")
    /\ UNCHANGED <<connState, tlsVars, useVars, hops, retried, wasIdle, netVars, history>>

(***************************************************************************)
(* SslConnect.  A connection past its plausible life is not tried.         *)
(***************************************************************************)
UsedUp == idle > (IF served THEN 1 ELSE 0)
Reusable == connState = "Idle" /\ ~UsedUp /\ established

Reuse(t) ==
    /\ Busy(t, "connect") /\ Reusable
    /\ \/ request = Ping /\ Ends(t, response)
       \/ /\ request # Ping
          /\ wasIdle' = [wasIdle EXCEPT ![t] = TRUE]
          /\ Moves(t, "write")
          /\ UNCHANGED <<request, response, hops, retried>>
    /\ UNCHANGED <<connState, tlsVars, useVars, discardBody, netVars, history>>

(* TcpConnect or TcpReconnect; a session that is too old is dropped. *)
Connects(t) ==
    /\ Busy(t, "connect") /\ ~Reusable
    /\ connState' = "Connecting"
    /\ served' = FALSE
    /\ hasSession' \in {FALSE, hasSession}
    /\ wasIdle' = [wasIdle EXCEPT ![t] = FALSE]
    /\ established' = TRUE /\ peer' = TRUE
    /\ pending' = <<>> /\ inbox' = <<>>
    /\ Moves(t, "handshake")
    /\ UNCHANGED <<handshakeOk, ticketDirty, idle, callVars, retried, history>>

ConnectFails(t) ==
    /\ Busy(t, "connect") /\ ~Reusable
    /\ connState' = IF connState = "Uninitialized" /\ request # Ping THEN connState ELSE "Dead"
    /\ established' = FALSE /\ peer' = FALSE
    /\ inbox' = <<>>
    /\ \/ request = Ping /\ Ends(t, response) /\ UNCHANGED <<discardBody, answered>>
       \/ request # Ping /\ Deliver(t, response, FALSE)
    /\ UNCHANGED <<tlsVars, useVars, pending, asked, dealt, sends>>

(***************************************************************************)
(* SslHandshake.                                                           *)
(***************************************************************************)
Handshakes(t) ==
    /\ Busy(t, "handshake")
    /\ connState' = "Idle"
    /\ idle' = 0
    /\ handshakeOk' = TRUE /\ ticketDirty' = TRUE
    /\ Moves(t, "write")
    /\ UNCHANGED <<hasSession, served, callVars, retried, wasIdle, netVars, history>>

(* Refused at once, with a session offered: it is dropped, and the         *)
(* handshake done in full.                                                 *)
Rejected(t) ==
    /\ Busy(t, "handshake") /\ hasSession
    /\ handshakeOk' = FALSE /\ hasSession' = FALSE
    /\ \/ /\ request = Ping
          /\ connState' = "Dead" /\ Ends(t, response)
          /\ UNCHANGED <<useVars, discardBody, history>>
       \/ /\ request # Ping /\ ~retried[t]
          /\ StartAgain(t)
       \/ /\ request # Ping /\ retried[t]
          /\ connState' = "Dead"
          /\ Deliver(t, response, FALSE)
          /\ UNCHANGED <<useVars, asked, dealt, sends>>
    /\ UNCHANGED <<ticketDirty, netVars>>

(* A failure that tells nobody. *)
FailsSilently(t) ==
    /\ Busy(t, "handshake")
    /\ connState' = "Dead"
    /\ handshakeOk' = FALSE
    /\ Ends(t, response)
    /\ UNCHANGED <<hasSession, ticketDirty, useVars, discardBody, netVars, history>>

HandshakeFails(t) ==
    /\ Busy(t, "handshake")
    /\ connState' = "Dead"
    /\ handshakeOk' = FALSE
    /\ \/ request = Ping /\ Ends(t, response) /\ UNCHANGED <<hasSession, discardBody, answered>>
       \/ request # Ping /\ hasSession' = FALSE /\ Deliver(t, response, FALSE)
    /\ UNCHANGED <<ticketDirty, useVars, netVars, asked, dealt, sends>>

(***************************************************************************)
(* SslRequest and SslResponse.                                             *)
(***************************************************************************)
Writes(t) ==
    /\ Busy(t, "write")
    /\ pending' = IF peer THEN Append(pending, [of |-> request, hop |-> hops]) ELSE pending
    /\ sends' = IF request = Ping \/ hops > 0 THEN sends
                ELSE [sends EXCEPT ![request] = Append(@, wasIdle[t])]
    /\ Moves(t, "read")
    /\ UNCHANGED <<connState, tlsVars, useVars, callVars, retried, wasIdle, established, peer,
                   inbox, asked, dealt, answered>>

WriteFails(t) == Busy(t, "write") /\ GiveUpOrRetry(t, response) /\ UNCHANGED netVars

(* http_parser_execute: without a head the rest means nothing; a body not  *)
(* wanted is left unread.                                                  *)
Parsed(R, c) ==
    CASE c.part = "head" /\ R.of = None /\ ~R.broken ->
             [of |-> c.of, moved |-> c.moved, close |-> c.close, skip |-> discardBody,
              complete |-> discardBody, broken |-> FALSE]
      [] c.part = "body" /\ R.of # None -> [R EXCEPT !.complete = TRUE]
      [] OTHER -> [R EXCEPT !.broken = TRUE]

(* A connection kept although a body lies unread in it. *)
KeptDirty(R) == IF R.close THEN "Dead" ELSE "Idle"

KeptAfter(R) == IF R.skip \/ R.close THEN "Dead" ELSE "Idle"

ReadEnds(t, R) ==
    \/ ~R.complete /\ response' = R
         /\ UNCHANGED <<connState, tlsVars, useVars, request, discardBody, hops, threadVars, history>>
    \/ R.complete /\ request = Ping /\ PingEnds(t, R, KeptAfter(R))
    \/ R.complete /\ request # Ping /\ SslClose(t, R, TRUE, KeptAfter(R))

Reads(t) ==
    /\ Busy(t, "read") /\ inbox # <<>>
    /\ inbox' = Tail(inbox)
    /\ ReadEnds(t, Parsed(response, Head(inbox)))
    /\ UNCHANGED <<established, peer, pending>>

(* The peer closed, an error, or nothing for too long. *)
ReadFails(t) == Busy(t, "read") /\ GiveUpOrRetry(t, response) /\ UNCHANGED netVars

ForceReconnect ==
    /\ Resting /\ connState # "Uninitialized"
    /\ connState' = "Dead"
    /\ established' = FALSE /\ peer' = FALSE /\ inbox' = <<>>
    /\ UNCHANGED <<tlsVars, useVars, callVars, threadVars, pending, history>>

TimePasses ==
    /\ Resting /\ connState = "Idle" /\ idle < 2
    /\ idle' = idle + 1
    /\ UNCHANGED <<connState, tlsVars, served, callVars, threadVars, netVars, history>>

(***************************************************************************)
(* The server and the network.  What the server has of a connection that   *)
(* is replaced, it deals with before that or never.                        *)
(***************************************************************************)
Chunk(q, part, moved, close) == [of |-> q.of, part |-> part, moved |-> moved, close |-> close]

(* It deals with a request and sends the first n parts of a response. *)
Serve(n, moved, close) ==
    /\ pending # <<>>
    /\ n > 0 => peer
    /\ LET q == Head(pending)
       IN  /\ dealt' = IF q.of = Ping \/ q.hop > 0 THEN dealt ELSE [dealt EXCEPT ![q.of] = @ + 1]
           /\ inbox' = inbox \o SubSeq(<<Chunk(q, "head", moved, close),
                                         Chunk(q, "body", moved, close)>>, 1, n)
    /\ pending' = Tail(pending)
    /\ peer' = (n = 2 /\ ~close)
    /\ UNCHANGED <<connState, tlsVars, useVars, callVars, threadVars, established, asked,
                   answered, sends>>

PeerCloses ==
    /\ peer
    /\ peer' = FALSE
    /\ UNCHANGED <<connState, tlsVars, useVars, callVars, threadVars, established, pending,
                   inbox, history>>

FinArrives ==
    /\ established /\ ~peer
    /\ established' = FALSE
    /\ UNCHANGED <<connState, tlsVars, useVars, callVars, threadVars, peer, pending, inbox,
                   history>>

Init ==
    /\ connState = "Uninitialized"
    /\ hasSession \in BOOLEAN /\ handshakeOk = FALSE
    /\ ticketDirty = FALSE
    /\ served = FALSE /\ idle = 0
    /\ request = None /\ discardBody = FALSE /\ response = NoResponse /\ hops = 0
    /\ pc = [t \in Threads |-> "idle"]
    /\ retried = [t \in Threads |-> FALSE] /\ wasIdle = [t \in Threads |-> FALSE]
    /\ established = FALSE /\ peer = FALSE /\ pending = <<>> /\ inbox = <<>>
    /\ asked = {}
    /\ dealt = [r \in Requests |-> 0]
    /\ answered = [r \in Requests |-> <<>>]
    /\ sends = [r \in Requests |-> <<>>]

Step(t) == \/ Reuse(t) \/ Connects(t) \/ ConnectFails(t)
           \/ Handshakes(t) \/ Rejected(t) \/ HandshakeFails(t)
           \/ Writes(t) \/ WriteFails(t)
           \/ Reads(t) \/ ReadFails(t)

Next == \/ \E t \in Threads : \/ \E r \in Requests : Ask(t, r)
                              \/ WarmUp(t)
                              \/ Step(t)
        \/ ForceReconnect \/ TimePasses
        \/ \E n \in 0 .. 2, moved, close \in BOOLEAN : Serve(n, moved, close)
        \/ PeerCloses \/ FinArrives

Spec == Init /\ [][Next]_vars

(* Every wait of the client ends, if not with an answer then with its own  *)
(* time-out (30 s to open, kRecvIdleTicks to read), and threads get a turn.*)
FairSpec == Spec /\ \A t \in Threads : WF_vars(Step(t))

(***************************************************************************)
(* Properties.                                                             *)
(***************************************************************************)
(* The types. *)
TypeOK ==
    /\ connState \in {"Uninitialized", "Idle", "Connecting", "Dead"}
    /\ {hasSession, handshakeOk, ticketDirty, served, discardBody, established,
        peer} \subseteq BOOLEAN
    /\ idle \in 0 .. 2
    /\ request \in Requests \cup {None, Ping}
    /\ response.of \in Requests \cup {None, Ping}
    /\ hops \in 0 .. MaxHops
    /\ pc \in [Threads -> {"idle", "connect", "handshake", "write", "read"}]
    /\ {retried, wasIdle} \subseteq [Threads -> BOOLEAN]
    /\ ~Resting => request # None
    /\ asked \subseteq Requests
    /\ dealt \in [Requests -> Nat]

Verdict(r, a) == IF ~a.ok THEN "failed" ELSE IF a.of = r THEN "ok" ELSE "wrong"

Service == INSTANCE RequestService
               WITH answers <- [r \in Requests |->
                                   [i \in 1 .. Len(answered[r]) |-> Verdict(r, answered[r][i])]]

(* The client implements the service: each request is answered once, and   *)
(* with success only by the response to it, whatever happens to the        *)
(* connections and their retries.                                          *)
ImplementsService == Service!Spec

(* A kept connection has nothing unread in it: the next response read from *)
(* it is the next request's.                                               *)
StreamClean == Resting /\ connState = "Idle" => inbox = <<>> /\ pending = <<>>

(* Only a request that went over a connection kept from before is sent     *)
(* again, and once: what a new connection took is never repeated.          *)
SentAgainOnlyWhenReused ==
    \A r \in Requests : Len(sends[r]) <= 2 /\ (Len(sends[r]) = 2 => sends[r][1])

(* Every request is answered in the end, whatever the server does. *)
EveryRequestAnswered == \A r \in Requests : (r \in asked) ~> (answered[r] # <<>>)

(* "Safe because SslResponse is never re-entered: the cooperative save     *)
(* thread is always drained" (HttpClient.cpp, SslResponse).                *)
NotReentered == \A t, u \in Threads : Busy(t, "read") /\ Busy(u, "read") => t = u
=============================================================================
