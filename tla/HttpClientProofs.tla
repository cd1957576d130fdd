-------------------------- MODULE HttpClientProofs --------------------------
(***************************************************************************)
(* The HTTP client keeps its promises whatever the server and the network  *)
(* do, for any requests, threads and bound on redirects, as long as no     *)
(* request is made while another waits (~Reentrant).                       *)
(***************************************************************************)
EXTENDS HttpClient, SequenceTheorems, TLAPS

Names == Requests \cup {None, Ping}

Response == [of : Names, moved : BOOLEAN, close : BOOLEAN, skip : BOOLEAN,
             complete : BOOLEAN, broken : BOOLEAN]

(* The types, with those of the records and the history. *)
Typed == /\ TypeOK
         /\ response \in Response
         /\ answered \in [Requests -> Seq([ok : BOOLEAN, of : Names])]
         /\ sends \in [Requests -> Seq(BOOLEAN)]

(* Requests are made one after the other. *)
Alone == /\ ~Reentrant
         /\ \A t, u \in Threads : pc[t] # "idle" /\ pc[u] # "idle" => t = u

(* The request in progress was made and has no answer; what was redirected *)
(* was dealt with.                                                         *)
Own == ~Resting /\ request \in Requests =>
           /\ request \in asked /\ answered[request] = <<>>
           /\ hops > 0 => dealt[request] > 0

Unasked == \A r \in Requests \ asked : answered[r] = <<>> /\ sends[r] = <<>>

(* Before it is written a request was sent at most once, over a kept       *)
(* connection.                                                             *)
Sending ==
    \A t \in Threads : request \in Requests /\ hops = 0 =>
        /\ pc[t] \in {"connect", "handshake", "write"} =>
               \/ sends[request] = <<>>
               \/ retried[t] /\ sends[request] = <<TRUE>>
        /\ pc[t] = "read" /\ ~retried[t] => sends[request] = <<wasIdle[t]>>

(* The server has one request at most, and deals with none more often than *)
(* it was sent.                                                            *)
Query(r, hop) == <<[of |-> r, hop |-> hop]>>

Dealing ==
    /\ \/ pending = <<>>
       \/ \E r \in Requests \cup {Ping}, hop \in 0 .. MaxHops : pending = Query(r, hop)
    /\ \A r \in Requests : /\ dealt[r] <= Len(sends[r])
                           /\ pending = Query(r, 0) => dealt[r] < Len(sends[r])

Clean == inbox = <<>> /\ pending = <<>>

(* The server has dealt with the request in progress. *)
Heard == pending = <<>> /\ (request \in Requests => dealt[request] > 0)

HeadOf(m, c) == [of |-> request, part |-> "head", moved |-> m, close |-> c]
BodyOf(m, c) == [of |-> request, part |-> "body", moved |-> m, close |-> c]

Begun == response.of = request /\ ~response.complete /\ ~response.broken

(* What a thread that reads can find: the request not dealt with, nothing  *)
(* any more, or what is left of the response to it.                        *)
Reading ==
    \/ inbox = <<>> /\ pending \in {<<>>, Query(request, hops)} /\ response = NoResponse
    \/ inbox = <<>> /\ Heard /\ Begun
    \/ \E m, c \in BOOLEAN :
          /\ inbox \in {<<HeadOf(m, c)>>, <<HeadOf(m, c), BodyOf(m, c)>>}
          /\ Heard /\ response = NoResponse
    \/ \E m, c \in BOOLEAN : inbox = <<BodyOf(m, c)>> /\ Heard /\ Begun /\ ~response.skip

Wire ==
    /\ \A t \in Threads :
          /\ pc[t] \in {"connect", "handshake", "write"} => response = NoResponse
          /\ pc[t] \in {"handshake", "write"} => Clean
          /\ pc[t] = "read" => Reading
    /\ connState = "Idle" /\ (\A t \in Threads : pc[t] # "read") => Clean

ClientInv == Typed /\ Alone /\ Own /\ Unasked /\ Sending /\ Dealing /\ Wire
             /\ SentAgainOnlyWhenReused

-----------------------------------------------------------------------------
(* Short sequences.                                                        *)

LEMMA Lengths ==
    ASSUME NEW a, NEW b
    PROVE  /\ Len(<<>>) = 0 /\ Len(<<a>>) = 1 /\ Len(<<a, b>>) = 2
           /\ <<a>>[1] = a /\ <<a, b>>[1] = a /\ <<a, b>>[2] = b
           /\ <<a>> # <<>> /\ <<a, b>> # <<>>
OBVIOUS

LEMMA Heads ==
    ASSUME NEW a, NEW b
    PROVE  /\ Head(<<a>>) = a /\ Tail(<<a>>) = <<>>
           /\ Head(<<a, b>>) = a /\ Tail(<<a, b>>) = <<b>>
           /\ Append(<<>>, a) = <<a>>
<1>1. Head(<<a>>) = a /\ Tail(<<a>>) = <<>>
  OBVIOUS
<1>2. Head(<<a, b>>) = a
  OBVIOUS
<1>3. Tail(<<a, b>>) = <<b>>
  OBVIOUS
<1>4. Append(<<>>, a) = <<a>>
  OBVIOUS
<1> QED
  BY <1>1, <1>2, <1>3, <1>4

(* What Serve sends into an empty inbox. *)
LEMMA SentParts ==
    ASSUME NEW a, NEW b, NEW n \in 0 .. 2
    PROVE  <<>> \o SubSeq(<<a, b>>, 1, n) =
               IF n = 0 THEN <<>> ELSE IF n = 1 THEN <<a>> ELSE <<a, b>>
<1> DEFINE S == {a, b}
           s == SubSeq(<<a, b>>, 1, n)
<1>1. <<a, b>> \in Seq(S) /\ <<a>> \in Seq(S) /\ Len(<<a, b>>) = 2 /\ Len(<<a>>) = 1
  OBVIOUS
<1>2. s \in Seq(S) /\ Len(s) = n /\ \A i \in 1 .. n : s[i] = <<a, b>>[i]
  BY <1>1
<1>3. <<a>>[1] = a /\ <<a, b>>[1] = a /\ <<a, b>>[2] = b
  OBVIOUS
<1>4. <<>> \o s = s
  BY <1>2, ConcatEmptySeq
<1> HIDE DEF S, s
<1>5. CASE n = 0
  BY <1>2, <1>4, <1>5, EmptySeq DEF s
<1>6. CASE n = 1
  <2>1. Len(s) = Len(<<a>>) /\ \A i \in 1 .. Len(s) : s[i] = <<a>>[i]
    BY <1>1, <1>2, <1>3, <1>6
  <2>2. s = <<a>>
    BY <1>1, <1>2, <2>1, SeqEqual
  <2> QED
    BY <1>4, <1>6, <2>2 DEF s
<1>7. CASE n = 2
  <2>1. s = <<a, b>>
    BY <1>1, <1>2, <1>7, SeqEqual
  <2> QED
    BY <1>4, <1>7, <2>1 DEF s
<1> QED
  BY <1>5, <1>6, <1>7

-----------------------------------------------------------------------------
(* Steps of the service.                                                   *)

ServiceStep == [Service!Next]_(Service!serviceVars)

LEMMA Quiet ==
    ASSUME UNCHANGED <<asked, dealt, answered>>
    PROVE  ServiceStep
BY DEF ServiceStep, Service!serviceVars

LEMMA Answers ==
    ASSUME Typed, request \in Requests, request \in asked, answered[request] = <<>>,
           NEW x \in [ok : BOOLEAN, of : Names],
           answered' = [answered EXCEPT ![request] = Append(@, x)],
           UNCHANGED <<asked, dealt>>,
           x.ok => x.of = request /\ dealt[request] > 0
    PROVE  ServiceStep
<1> DEFINE told(f, r) == [i \in 1 .. Len(f[r]) |-> Verdict(r, f[r][i])]
           v == Verdict(request, x)
<1>1. answered'[request] = <<x>>
  BY Heads DEF Typed
<1>2. \A r \in Requests \ {request} : answered'[r] = answered[r]
  BY DEF Typed
<1>3. 1 .. Len(<<x>>) = {1} /\ <<x>>[1] = x
  OBVIOUS
<1>4. told(answered', request) = <<v>>
  <2>1. told(answered', request) = [i \in {1} |-> v]
    BY <1>1, <1>3
  <2> HIDE DEF v
  <2>2. [i \in {1} |-> v] = <<v>>
    OBVIOUS
  <2> QED
    BY <2>1, <2>2
<1>5. told(answered, request) = <<>>
  <2>1. 1 .. Len(<<>>) = {}
    OBVIOUS
  <2> QED
    BY <2>1
<1>6. v \in {"ok", "failed"} /\ (v = "ok" => dealt[request] > 0)
  BY DEF Verdict
<1> HIDE DEF v
<1>7. \A r \in Requests : told(answered', r) =
          IF r = request THEN <<v>> ELSE told(answered, r)
  <2>1. ASSUME NEW r \in Requests, r # request PROVE told(answered', r) = told(answered, r)
    BY <1>2, <2>1
  <2> HIDE DEF told
  <2> QED
    BY <1>4, <2>1
<1> HIDE DEF told
<1>8. [r \in Requests |-> told(answered', r)] =
          [[r \in Requests |-> told(answered, r)] EXCEPT ![request] = <<v>>]
  BY <1>7
<1>9. PICK r \in Requests, w \in {"ok", "failed"} : r = request /\ w = v
  BY <1>6
<1>10. Service!Answer(r, w)
  BY <1>5, <1>6, <1>8, <1>9 DEF Service!Answer, told
<1> QED
  BY <1>10 DEF ServiceStep, Service!Next

-----------------------------------------------------------------------------
(* Types.                                                                  *)

LEMMA NoResponseTyped == NoResponse \in Response /\ NoResponse.of \in Requests \cup {None, Ping}
BY DEF NoResponse, Response, Names

LEMMA EndsTyped ==
    ASSUME Typed, Alone, NEW t \in Threads, NEW R \in Response, pc[t] # "idle", Ends(t, R)
    PROVE  /\ \A u \in Threads : pc'[u] = "idle"
           /\ request' = None /\ response' = NoResponse /\ hops' = 0
           /\ NoResponse \in Response
           /\ pc' \in [Threads -> {"idle", "connect", "handshake", "write", "read"}]
           /\ {retried', wasIdle'} \subseteq [Threads -> BOOLEAN]
<1>1. \A u \in Threads \ {t} : pc[u] = "idle"
  BY DEF Alone
<1>2. pc' = [pc EXCEPT ![t] = "idle"]
  BY DEF Ends, Moves
<1>3. request' = None /\ response' = NoResponse /\ hops' = 0
  BY <1>1 DEF Ends, Left
<1>4. NoResponse \in Response
  BY DEF NoResponse, Response, Names
<1>5. {retried', wasIdle'} \subseteq [Threads -> BOOLEAN]
  BY DEF Ends, Typed, TypeOK
<1> QED
  BY <1>1, <1>2, <1>3, <1>4, <1>5 DEF Typed, TypeOK

LEMMA DeliverTyped ==
    ASSUME Typed, Alone, Own, NEW t \in Threads, NEW R \in Response, NEW ok \in BOOLEAN,
           pc[t] # "idle", request \in Requests, Deliver(t, R, ok)
    PROVE  /\ answered' \in [Requests -> Seq([ok : BOOLEAN, of : Names])]
           /\ discardBody' \in BOOLEAN
<1>1. [ok |-> ok, of |-> R.of] \in [ok : BOOLEAN, of : Names]
  BY DEF Response
<1>2. answered[request] = <<>>
  BY DEF Own, Resting
<1>3. Append(answered[request], [ok |-> ok, of |-> R.of]) \in Seq([ok : BOOLEAN, of : Names])
  BY <1>1, <1>2, Heads
<1> QED
  BY <1>3 DEF Deliver, Typed, TypeOK

LEMMA SslCloseTyped ==
    ASSUME Typed, Alone, Own, NEW t \in Threads, NEW R \in Response, NEW ok \in BOOLEAN,
           NEW state \in {"Idle", "Dead"},
           pc[t] # "idle", request \in Requests, SslClose(t, R, ok, state),
           established' \in BOOLEAN, peer' \in BOOLEAN
    PROVE  Typed'
<1>1. /\ {hasSession', handshakeOk', ticketDirty', served'} \subseteq BOOLEAN
      /\ connState' = state /\ idle' \in 0 .. 2
  BY DEF SslClose, SaveSession, Settle, Typed, TypeOK, Response
<1>2. asked' = asked /\ dealt' = dealt /\ sends' = sends
  BY DEF SslClose
<1>3. CASE Follows(R, ok)
  <2>1. /\ hops' = hops + 1 /\ response' = NoResponse
        /\ pc' = [pc EXCEPT ![t] = "connect"] /\ retried' = [retried EXCEPT ![t] = FALSE]
        /\ UNCHANGED <<request, discardBody, wasIdle, answered>>
        /\ hops < MaxHops
    BY <1>3 DEF SslClose, Follows, Moves
  <2>2. hops' \in 0 .. MaxHops
    BY <2>1, HttpAssumption DEF Typed, TypeOK
  <2>3. request' # None
    BY <2>1, HttpAssumption
  <2> QED
    BY <1>1, <1>2, <2>1, <2>2, <2>3, NoResponseTyped DEF Typed, TypeOK
<1>4. CASE ~Follows(R, ok)
  <2>1. Deliver(t, R, ok) /\ Ends(t, R)
    BY <1>4 DEF SslClose, Deliver
  <2>2. /\ answered' \in [Requests -> Seq([ok : BOOLEAN, of : Names])]
        /\ discardBody' \in BOOLEAN
    BY <2>1, DeliverTyped
  <2>3. hops' \in 0 .. MaxHops
    BY <2>1, EndsTyped, HttpAssumption
  <2> QED
    BY <1>1, <1>2, <2>1, <2>2, <2>3, EndsTyped, NoResponseTyped DEF Typed, TypeOK, Resting
<1> QED
  BY <1>3, <1>4

LEMMA PingEndsTyped ==
    ASSUME Typed, Alone, NEW t \in Threads, NEW R \in Response, NEW state \in {"Idle", "Dead"},
           pc[t] # "idle", PingEnds(t, R, state),
           established' \in BOOLEAN, peer' \in BOOLEAN
    PROVE  Typed'
<1>1. /\ {hasSession', handshakeOk', ticketDirty', discardBody'} \subseteq BOOLEAN
      /\ Ends(t, R)
  BY DEF PingEnds, Typed, TypeOK
<1>2. served' \in BOOLEAN /\ connState' = state /\ idle' \in 0 .. 2
  BY DEF PingEnds, Settle, Typed, TypeOK
<1>3. UNCHANGED <<asked, dealt, answered, sends>>
  BY DEF PingEnds, history
<1>4. hops' \in 0 .. MaxHops
  BY <1>1, EndsTyped, HttpAssumption
<1> QED
  BY <1>1, <1>2, <1>3, <1>4, EndsTyped, NoResponseTyped DEF Typed, TypeOK, Resting

LEMMA StartAgainTyped ==
    ASSUME Typed, NEW t \in Threads, pc[t] # "idle", StartAgain(t),
           hasSession' \in BOOLEAN, handshakeOk' \in BOOLEAN, ticketDirty' \in BOOLEAN,
           established' \in BOOLEAN, peer' \in BOOLEAN
    PROVE  Typed'
<1>1. /\ connState' = "Dead" /\ response' = NoResponse
      /\ retried' = [retried EXCEPT ![t] = TRUE] /\ pc' = [pc EXCEPT ![t] = "connect"]
      /\ UNCHANGED <<served, idle, request, discardBody, hops, wasIdle>>
      /\ UNCHANGED <<asked, dealt, answered, sends>>
  BY DEF StartAgain, Moves, useVars, history
<1>2. request # None
  BY DEF Typed, TypeOK, Resting
<1> QED
  BY <1>1, <1>2, NoResponseTyped DEF Typed, TypeOK

LEMMA GiveUpTyped ==
    ASSUME Typed, Alone, Own, NEW t \in Threads, pc[t] # "idle",
           GiveUpOrRetry(t, response), UNCHANGED netVars
    PROVE  Typed'
<1>1. established' \in BOOLEAN /\ peer' \in BOOLEAN
  BY DEF Typed, TypeOK, netVars
<1>2. PICK R \in Response : R = response
  BY DEF Typed
<1>3. request \in Requests \cup {Ping}
  BY DEF Typed, TypeOK, Resting
<1>4. CASE PingEnds(t, response, "Dead")
  BY <1>1, <1>2, <1>4, PingEndsTyped
<1>5. CASE StartAgain(t) /\ UNCHANGED tlsVars
  BY <1>1, <1>5, StartAgainTyped DEF tlsVars, Typed, TypeOK
<1>6. CASE request # Ping /\ SslClose(t, response, FALSE, "Dead")
  <2>1. SslClose(t, R, FALSE, "Dead")
    BY <1>2, <1>6
  <2> QED
    BY <1>1, <1>3, <1>6, <2>1, SslCloseTyped
<1> QED
  BY <1>4, <1>5, <1>6 DEF GiveUpOrRetry

-----------------------------------------------------------------------------
(* The ends of a request.                                                  *)

LEMMA SameSends ==
    ASSUME Unasked, Dealing, SentAgainOnlyWhenReused,
           UNCHANGED <<asked, dealt, sends, pending>>,
           \A r \in Requests \ asked : answered'[r] = answered[r]
    PROVE  Unasked' /\ Dealing' /\ SentAgainOnlyWhenReused'
BY DEF Unasked, Dealing, Query, SentAgainOnlyWhenReused

LEMMA EndsInv ==
    ASSUME ClientInv, Typed', NEW t \in Threads, NEW R \in Response, pc[t] # "idle", Ends(t, R),
           UNCHANGED <<asked, dealt, sends, pending>>,
           \A r \in Requests \ asked : answered'[r] = answered[r],
           connState' = "Idle" => Clean'
    PROVE  ClientInv'
<1>1. /\ \A u \in Threads : pc'[u] = "idle"
      /\ request' = None /\ response' = NoResponse
  BY EndsTyped DEF ClientInv
<1>2. Alone'
  BY <1>1 DEF ClientInv, Alone
<1>3. Own'
  BY <1>1 DEF Own, Resting
<1>4. Sending'
  BY <1>1 DEF Sending
<1>5. Wire'
  BY <1>1 DEF Wire
<1> QED
  BY <1>2, <1>3, <1>4, <1>5, SameSends DEF ClientInv

LEMMA PingEndsInv ==
    ASSUME ClientInv, NEW t \in Threads, NEW R \in Response, NEW state \in {"Idle", "Dead"},
           pc[t] # "idle", PingEnds(t, R, state), UNCHANGED pending,
           established' \in BOOLEAN, peer' \in BOOLEAN,
           state = "Idle" => Clean'
    PROVE  ClientInv' /\ ServiceStep
<1>1. Typed'
  BY PingEndsTyped DEF ClientInv
<1>2. /\ Ends(t, R) /\ connState' = state
      /\ UNCHANGED <<asked, dealt, answered, sends>>
  BY DEF PingEnds, Settle, history
<1> QED
  BY <1>1, <1>2, EndsInv, Quiet

LEMMA SslCloseInv ==
    ASSUME ClientInv, NEW t \in Threads, NEW R \in Response, NEW ok \in BOOLEAN,
           NEW state \in {"Idle", "Dead"},
           pc[t] # "idle", request \in Requests, SslClose(t, R, ok, state), UNCHANGED pending,
           established' \in BOOLEAN, peer' \in BOOLEAN,
           ok => R.of = request /\ dealt[request] > 0,
           state = "Idle" => Clean'
    PROVE  ClientInv' /\ ServiceStep
<1>1. Typed'
  BY SslCloseTyped DEF ClientInv
<1>2. connState' = state /\ UNCHANGED <<asked, dealt, sends>>
  BY DEF SslClose, Settle
<1>3. request \in asked /\ answered[request] = <<>>
  BY DEF ClientInv, Own, Resting
<1>4. CASE ~Follows(R, ok)
  <2> DEFINE x == [ok |-> ok, of |-> R.of]
  <2>1. Ends(t, R) /\ answered' = [answered EXCEPT ![request] = Append(@, x)]
    BY <1>4 DEF SslClose, Deliver
  <2>2. \A r \in Requests \ asked : answered'[r] = answered[r]
    BY <1>3, <2>1 DEF ClientInv, Typed
  <2>3. x \in [ok : BOOLEAN, of : Names] /\ (x.ok => x.of = request /\ dealt[request] > 0)
    BY DEF Response
  <2> HIDE DEF x
  <2> QED
    BY <1>1, <1>2, <1>3, <2>1, <2>2, <2>3, EndsInv, Answers DEF ClientInv
<1>5. CASE Follows(R, ok)
  <2>1. /\ hops' = hops + 1 /\ response' = NoResponse
        /\ pc' = [pc EXCEPT ![t] = "connect"]
        /\ UNCHANGED <<request, answered>> /\ dealt[request] > 0
    BY <1>5 DEF SslClose, Follows, Moves
  <2>2. \A u \in Threads : pc'[u] = IF u = t THEN "connect" ELSE "idle"
    BY <2>1 DEF ClientInv, Alone, Typed, TypeOK
  <2>3. Alone'
    BY <2>2 DEF ClientInv, Alone
  <2>4. Own'
    BY <1>2, <1>3, <2>1 DEF Own
  <2>5. Sending'
    <3>1. hops' # 0
      BY <2>1 DEF ClientInv, Typed, TypeOK
    <3> QED
      BY <3>1 DEF Sending
  <2>6. Wire'
    BY <1>2, <2>1, <2>2 DEF Wire
  <2> QED
    BY <1>1, <1>2, <2>1, <2>3, <2>4, <2>5, <2>6, SameSends, Quiet DEF ClientInv
<1> QED
  BY <1>4, <1>5

LEMMA StartAgainInv ==
    ASSUME ClientInv, Typed', NEW t \in Threads, StartAgain(t), ~retried[t],
           pc[t] \in {"handshake", "write"} \/ (pc[t] = "read" /\ wasIdle[t]),
           UNCHANGED pending
    PROVE  ClientInv' /\ ServiceStep
<1>1. /\ connState' = "Dead" /\ response' = NoResponse
      /\ retried' = [retried EXCEPT ![t] = TRUE] /\ pc' = [pc EXCEPT ![t] = "connect"]
      /\ UNCHANGED <<request, hops, asked, dealt, answered, sends>>
  BY DEF StartAgain, Moves, history
<1>2. \A u \in Threads : pc'[u] = IF u = t THEN "connect" ELSE "idle"
  BY <1>1 DEF ClientInv, Alone, Typed, TypeOK
<1>3. Alone'
  BY <1>2 DEF ClientInv, Alone
<1>4. Own'
  BY <1>1 DEF ClientInv, Own, Resting
<1>5. Sending'
  <2>1. retried'[t]
    BY <1>1 DEF ClientInv, Typed, TypeOK
  <2>2. ASSUME request \in Requests, hops = 0
        PROVE  sends[request] \in {<<>>, <<TRUE>>}
    BY <2>2 DEF ClientInv, Sending
  <2>3. \A u \in Threads : pc'[u] # "read" /\ (pc'[u] # "idle" => u = t)
    BY <1>2
  <2>4. request' = request /\ hops' = hops /\ sends' = sends
    BY <1>1
  <2>5. ASSUME NEW u \in Threads, request' \in Requests, hops' = 0,
               pc'[u] \in {"connect", "handshake", "write"}
        PROVE  sends'[request'] = <<>> \/ (retried'[u] /\ sends'[request'] = <<TRUE>>)
    <3>1. u = t
      BY <2>3, <2>5
    <3> QED
      BY <2>1, <2>2, <2>4, <2>5, <3>1
  <2> QED
    BY <2>3, <2>5 DEF Sending
<1>6. Wire'
  BY <1>1, <1>2 DEF Wire
<1> QED
  BY <1>1, <1>3, <1>4, <1>5, <1>6, SameSends, Quiet DEF ClientInv

LEMMA GiveUpInv ==
    ASSUME ClientInv, NEW t \in Threads, pc[t] \in {"write", "read"},
           GiveUpOrRetry(t, response), UNCHANGED netVars
    PROVE  ClientInv' /\ ServiceStep
<1>1. Typed'
  BY GiveUpTyped DEF ClientInv
<1>2. PICK R \in Response : R = response
  BY DEF ClientInv, Typed
<1>3. established' \in BOOLEAN /\ peer' \in BOOLEAN /\ UNCHANGED pending
  BY DEF ClientInv, Typed, TypeOK, netVars
<1>4. request \in Requests \cup {Ping}
  BY DEF ClientInv, Typed, TypeOK, Resting
<1>5. CASE PingEnds(t, response, "Dead")
  <2>1. PingEnds(t, R, "Dead")
    BY <1>2, <1>5
  <2> QED
    BY <1>3, <2>1, PingEndsInv
<1>6. CASE wasIdle[t] /\ ~retried[t] /\ StartAgain(t)
  BY <1>1, <1>3, <1>6, StartAgainInv
<1>7. CASE request # Ping /\ SslClose(t, response, FALSE, "Dead")
  <2>1. SslClose(t, R, FALSE, "Dead")
    BY <1>2, <1>7
  <2> QED
    BY <1>3, <1>4, <1>7, <2>1, SslCloseInv
<1> QED
  BY <1>5, <1>6, <1>7 DEF GiveUpOrRetry

-----------------------------------------------------------------------------
(* Making a request.                                                       *)

(* Where the threads are when one of them moves. *)
LEMMA OneMoves ==
    ASSUME Typed, Alone, NEW t \in Threads, pc[t] # "idle" \/ Resting,
           NEW to \in {"connect", "handshake", "write", "read"}, Moves(t, to)
    PROVE  /\ \A u \in Threads : pc'[u] = IF u = t THEN to ELSE "idle"
           /\ pc' \in [Threads -> {"idle", "connect", "handshake", "write", "read"}]
           /\ Alone'
<1>1. \A u \in Threads \ {t} : pc[u] = "idle"
  BY DEF Alone, Resting
<1>2. pc' = [pc EXCEPT ![t] = to]
  BY DEF Moves
<1>3. \A u \in Threads : pc'[u] = IF u = t THEN to ELSE "idle"
  BY <1>1, <1>2 DEF Typed, TypeOK
<1> QED
  BY <1>2, <1>3 DEF Typed, TypeOK, Alone

LEMMA AskInv ==
    ASSUME ClientInv, NEW t \in Threads, NEW r \in Requests, Ask(t, r)
    PROVE  ClientInv' /\ ServiceStep
<1>1. Resting /\ Moves(t, "connect")
  BY DEF Ask, ClientInv, Alone
<1>2. /\ \A u \in Threads : pc[u] = "idle"
      /\ \A u \in Threads : pc'[u] = IF u = t THEN "connect" ELSE "idle"
      /\ pc' \in [Threads -> {"idle", "connect", "handshake", "write", "read"}]
      /\ Alone'
  BY <1>1, OneMoves DEF ClientInv, Resting
<1>3. /\ r \notin asked /\ asked' = asked \cup {r}
      /\ request' = r /\ response' = NoResponse /\ hops' = 0
      /\ UNCHANGED <<connState, wasIdle, established, peer, pending, inbox>>
      /\ UNCHANGED <<dealt, answered, sends>>
  BY DEF Ask, netVars
<1>4. Typed'
  <2>1. /\ {hasSession', handshakeOk', ticketDirty', served'} \subseteq BOOLEAN
        /\ idle' \in 0 .. 2
    BY DEF Ask, tlsVars, useVars, ClientInv, Typed, TypeOK
  <2>2. discardBody' \in BOOLEAN
    BY DEF Ask
  <2>3. retried' \in [Threads -> BOOLEAN]
    BY DEF Ask, ClientInv, Typed, TypeOK
  <2>4. hops' \in 0 .. MaxHops /\ request' \in Requests \cup {None, Ping} /\ request' # None
    BY <1>3, HttpAssumption
  <2> QED
    BY <1>2, <1>3, <2>1, <2>2, <2>3, <2>4, NoResponseTyped DEF ClientInv, Typed, TypeOK
<1>5. answered[r] = <<>> /\ sends[r] = <<>>
  BY <1>3 DEF ClientInv, Unasked
<1>6. Own'
  BY <1>3, <1>5 DEF Own
<1>7. Unasked'
  BY <1>3 DEF ClientInv, Unasked
<1>8. Sending'
  BY <1>2, <1>3, <1>5 DEF Sending
<1>9. Dealing' /\ SentAgainOnlyWhenReused'
  BY <1>3 DEF ClientInv, Dealing, Query, SentAgainOnlyWhenReused
<1>10. Wire'
  BY <1>2, <1>3 DEF ClientInv, Wire, Clean
<1>11. ServiceStep
  <2>1. Service!Ask(r)
    BY <1>3 DEF Service!Ask
  <2> QED
    BY <2>1 DEF ServiceStep, Service!Next
<1> QED
  BY <1>2, <1>4, <1>6, <1>7, <1>8, <1>9, <1>10, <1>11 DEF ClientInv

LEMMA WarmUpInv ==
    ASSUME ClientInv, NEW t \in Threads, WarmUp(t)
    PROVE  ClientInv' /\ ServiceStep
<1>1. Resting /\ Moves(t, "connect")
  BY DEF WarmUp
<1>2. /\ \A u \in Threads : pc[u] = "idle"
      /\ \A u \in Threads : pc'[u] = IF u = t THEN "connect" ELSE "idle"
      /\ pc' \in [Threads -> {"idle", "connect", "handshake", "write", "read"}]
      /\ Alone'
  BY <1>1, OneMoves DEF ClientInv, Resting
<1>3. /\ request' = Ping /\ response' = NoResponse /\ discardBody' = FALSE
      /\ UNCHANGED <<connState, hops, retried, wasIdle>>
      /\ UNCHANGED <<hasSession, handshakeOk, ticketDirty, served, idle>>
      /\ UNCHANGED <<established, peer, pending, inbox>>
      /\ UNCHANGED <<asked, dealt, answered, sends>>
  BY DEF WarmUp, tlsVars, useVars, netVars, history
<1>4. Typed'
  BY <1>2, <1>3, NoResponseTyped, HttpAssumption DEF ClientInv, Typed, TypeOK
<1>5. Own' /\ Sending'
  BY <1>3, HttpAssumption DEF Own, Sending
<1>6. Wire'
  BY <1>2, <1>3 DEF ClientInv, Wire, Clean
<1> QED
  BY <1>2, <1>3, <1>4, <1>5, <1>6, SameSends, Quiet DEF ClientInv

-----------------------------------------------------------------------------
(* Connecting and handshaking.                                             *)

(* Steps between two waits that neither send, answer nor deal. *)
LEMMA Onward ==
    ASSUME ClientInv, Typed', NEW t \in Threads, pc[t] \in {"connect", "handshake"},
           NEW to \in {"handshake", "write"}, Moves(t, to),
           UNCHANGED <<request, response, hops, retried>>,
           UNCHANGED <<asked, dealt, answered, sends>>,
           Clean'
    PROVE  ClientInv' /\ ServiceStep
<1>1. (\A u \in Threads : pc'[u] = IF u = t THEN to ELSE "idle") /\ Alone'
  BY OneMoves DEF ClientInv
<1>2. Own'
  BY DEF ClientInv, Own, Resting
<1>3. Unasked' /\ SentAgainOnlyWhenReused'
  BY DEF ClientInv, Unasked, SentAgainOnlyWhenReused
<1>4. Sending'
  <2>1. ASSUME request \in Requests, hops = 0
        PROVE  sends[request] = <<>> \/ (retried[t] /\ sends[request] = <<TRUE>>)
    BY <2>1 DEF ClientInv, Sending
  <2>2. \A u \in Threads : pc'[u] # "read" /\ (pc'[u] # "idle" => u = t)
    BY <1>1
  <2> QED
    BY <2>1, <2>2 DEF Sending
<1>5. Dealing'
  BY DEF ClientInv, Dealing, Clean, Query
<1>6. Wire'
  <2>1. response = NoResponse
    BY DEF ClientInv, Wire
  <2> QED
    BY <1>1, <2>1 DEF Wire
<1> QED
  BY <1>1, <1>2, <1>3, <1>4, <1>5, <1>6, Quiet DEF ClientInv

LEMMA ReuseInv ==
    ASSUME ClientInv, NEW t \in Threads, Reuse(t)
    PROVE  ClientInv' /\ ServiceStep
<1>1. /\ pc[t] = "connect" /\ connState = "Idle"
      /\ UNCHANGED <<connState, hasSession, handshakeOk, ticketDirty, served, idle, discardBody>>
      /\ UNCHANGED <<established, peer, pending, inbox>>
      /\ UNCHANGED <<asked, dealt, answered, sends>>
  BY DEF Reuse, Busy, Reusable, tlsVars, useVars, netVars, history
<1>2. Clean
  BY <1>1 DEF ClientInv, Wire, Alone
<1>3. CASE Ends(t, response)
  <2>1. PICK R \in Response : R = response
    BY DEF ClientInv, Typed
  <2>2. Ends(t, R)
    BY <1>3, <2>1
  <2>3. hops' \in 0 .. MaxHops
    BY <1>1, <2>2, EndsTyped, HttpAssumption DEF ClientInv
  <2>4. Typed'
    BY <1>1, <2>2, <2>3, EndsTyped, NoResponseTyped DEF ClientInv, Typed, TypeOK, Resting
  <2> QED
    BY <1>1, <1>2, <2>2, <2>4, EndsInv, Quiet DEF Clean
<1>4. CASE /\ wasIdle' = [wasIdle EXCEPT ![t] = TRUE] /\ Moves(t, "write")
           /\ UNCHANGED <<request, response, hops, retried>>
  <2>1. pc' \in [Threads -> {"idle", "connect", "handshake", "write", "read"}]
    BY <1>1, <1>4, OneMoves DEF ClientInv
  <2>2. Typed'
    BY <1>1, <1>4, <2>1 DEF ClientInv, Typed, TypeOK, Resting
  <2> QED
    BY <1>1, <1>2, <1>4, <2>2, Onward DEF Clean
<1> QED
  BY <1>3, <1>4 DEF Reuse

LEMMA ConnectsInv ==
    ASSUME ClientInv, NEW t \in Threads, Connects(t)
    PROVE  ClientInv' /\ ServiceStep
<1>1. /\ pc[t] = "connect" /\ connState' = "Connecting"
      /\ served' = FALSE /\ hasSession' \in {FALSE, hasSession}
      /\ wasIdle' = [wasIdle EXCEPT ![t] = FALSE]
      /\ established' = TRUE /\ peer' = TRUE /\ Moves(t, "handshake")
      /\ UNCHANGED <<handshakeOk, ticketDirty, idle, request, discardBody, response, hops>>
      /\ UNCHANGED retried /\ UNCHANGED <<asked, dealt, answered, sends>>
  BY DEF Connects, Busy, callVars, history
<1>2. Clean'
  BY DEF Connects, Clean
<1>3. pc' \in [Threads -> {"idle", "connect", "handshake", "write", "read"}]
  BY <1>1, OneMoves DEF ClientInv
<1>4. Typed'
  BY <1>1, <1>3 DEF ClientInv, Typed, TypeOK, Resting
<1> QED
  BY <1>1, <1>2, <1>4, Onward

LEMMA HandshakesInv ==
    ASSUME ClientInv, NEW t \in Threads, Handshakes(t)
    PROVE  ClientInv' /\ ServiceStep
<1>1. /\ pc[t] = "handshake" /\ connState' = "Idle" /\ idle' = 0
      /\ handshakeOk' = TRUE /\ ticketDirty' = TRUE /\ Moves(t, "write")
      /\ UNCHANGED <<hasSession, served, request, discardBody, response, hops>>
      /\ UNCHANGED <<retried, wasIdle, established, peer, pending, inbox>>
      /\ UNCHANGED <<asked, dealt, answered, sends>>
  BY DEF Handshakes, Busy, callVars, netVars, history
<1>2. Clean'
  BY <1>1 DEF ClientInv, Wire, Clean
<1>3. pc' \in [Threads -> {"idle", "connect", "handshake", "write", "read"}]
  BY <1>1, OneMoves DEF ClientInv
<1>4. Typed'
  <2>1. request # None
    BY <1>1 DEF ClientInv, Typed, TypeOK, Resting
  <2>2. /\ {hasSession', handshakeOk', ticketDirty', served', discardBody', established',
            peer'} \subseteq BOOLEAN
        /\ {retried', wasIdle'} \subseteq [Threads -> BOOLEAN]
    BY <1>1 DEF ClientInv, Typed, TypeOK
  <2>3. idle' \in 0 .. 2 /\ connState' \in {"Uninitialized", "Idle", "Connecting", "Dead"}
    BY <1>1
  <2>4. response' \in Response /\ response'.of \in Requests \cup {None, Ping}
    BY <1>1 DEF ClientInv, Typed, TypeOK
  <2> QED
    BY <1>1, <1>3, <2>1, <2>2, <2>3, <2>4 DEF ClientInv, Typed, TypeOK
<1> QED
  BY <1>1, <1>2, <1>4, Onward

(* The request ends in a failure: WarmUp's own, which nobody waits for, or *)
(* one that is answered.                                                   *)
LEMMA FailureInv ==
    ASSUME ClientInv, NEW t \in Threads, pc[t] # "idle",
           \/ request = Ping /\ Ends(t, response) /\ UNCHANGED <<discardBody, answered>>
           \/ request # Ping /\ Deliver(t, response, FALSE),
           connState' \in {"Uninitialized", "Dead"}, idle' = idle,
           {hasSession', handshakeOk', ticketDirty', served', established', peer'}
               \subseteq BOOLEAN,
           UNCHANGED <<asked, dealt, sends, pending>>
    PROVE  ClientInv' /\ ServiceStep
<1>1. PICK R \in Response : R = response
  BY DEF ClientInv, Typed
<1>2. request \in Requests \cup {Ping}
  BY DEF ClientInv, Typed, TypeOK, Resting
<1>3. Ends(t, R)
  BY <1>1 DEF Deliver
<1>4. hops' \in 0 .. MaxHops
  BY <1>3, EndsTyped, HttpAssumption DEF ClientInv
<1>5. ASSUME answered' \in [Requests -> Seq([ok : BOOLEAN, of : Names])], discardBody' \in BOOLEAN
      PROVE  Typed'
  BY <1>3, <1>4, <1>5, EndsTyped, NoResponseTyped DEF ClientInv, Typed, TypeOK, Resting
<1>6. CASE request = Ping
  <2>1. UNCHANGED <<discardBody, answered>>
    BY <1>6
  <2>2. Typed'
    BY <1>5, <2>1 DEF ClientInv, Typed, TypeOK
  <2> QED
    BY <1>3, <2>1, <2>2, EndsInv, Quiet
<1>7. CASE request # Ping
  <2> DEFINE x == [ok |-> FALSE, of |-> R.of]
  <2>1. Deliver(t, R, FALSE) /\ answered' = [answered EXCEPT ![request] = Append(@, x)]
    BY <1>1, <1>7 DEF Deliver
  <2>2. Typed'
    BY <1>2, <1>5, <1>7, <2>1, DeliverTyped DEF ClientInv
  <2>3. request \in asked /\ answered[request] = <<>>
    BY <1>2, <1>7 DEF ClientInv, Own, Resting
  <2>4. \A r \in Requests \ asked : answered'[r] = answered[r]
    BY <2>1, <2>3 DEF ClientInv, Typed
  <2>5. x \in [ok : BOOLEAN, of : Names] /\ ~x.ok
    BY DEF Response
  <2>6. ClientInv'
    BY <1>3, <2>2, <2>4, EndsInv
  <2> HIDE DEF x
  <2>7. ServiceStep
    BY <1>2, <1>7, <2>1, <2>3, <2>5, Answers DEF ClientInv
  <2> QED
    BY <2>6, <2>7
<1> QED
  BY <1>6, <1>7

LEMMA ConnectFailsInv ==
    ASSUME ClientInv, NEW t \in Threads, ConnectFails(t)
    PROVE  ClientInv' /\ ServiceStep
<1>1. /\ connState' \in {"Uninitialized", "Dead"}
      /\ established' = FALSE /\ peer' = FALSE /\ idle' = idle
      /\ UNCHANGED <<hasSession, handshakeOk, ticketDirty, served>>
      /\ UNCHANGED <<asked, dealt, sends, pending>>
      /\ pc[t] # "idle"
  BY DEF ConnectFails, Busy, tlsVars, useVars
<1>2. \/ request = Ping /\ Ends(t, response) /\ UNCHANGED <<discardBody, answered>>
      \/ request # Ping /\ Deliver(t, response, FALSE)
  BY DEF ConnectFails
<1>3. {hasSession', handshakeOk', ticketDirty', served', established', peer'} \subseteq BOOLEAN
  BY <1>1 DEF ClientInv, Typed, TypeOK
<1> QED
  BY <1>1, <1>2, <1>3, FailureInv

LEMMA RejectedInv ==
    ASSUME ClientInv, NEW t \in Threads, Rejected(t)
    PROVE  ClientInv' /\ ServiceStep
<1>1. /\ pc[t] = "handshake" /\ handshakeOk' = FALSE /\ hasSession' = FALSE
      /\ UNCHANGED <<ticketDirty, established, peer, pending, inbox>>
  BY DEF Rejected, Busy, netVars
<1>2. {hasSession', handshakeOk', ticketDirty', established', peer'} \subseteq BOOLEAN
  BY <1>1 DEF ClientInv, Typed, TypeOK
<1>3. CASE ~retried[t] /\ StartAgain(t)
  <2>1. Typed'
    BY <1>1, <1>2, <1>3, StartAgainTyped DEF ClientInv
  <2> QED
    BY <1>1, <1>3, <2>1, StartAgainInv
<1>4. CASE request = Ping /\ connState' = "Dead" /\ Ends(t, response)
           /\ UNCHANGED <<useVars, discardBody, history>>
  <2>1. UNCHANGED <<served, idle, asked, dealt, answered, sends>>
    BY <1>4 DEF useVars, history
  <2>2. served' \in BOOLEAN
    BY <2>1 DEF ClientInv, Typed, TypeOK
  <2> QED
    BY <1>1, <1>2, <1>4, <2>1, <2>2, FailureInv
<1>5. CASE request # Ping /\ connState' = "Dead" /\ Deliver(t, response, FALSE)
           /\ UNCHANGED <<useVars, asked, dealt, sends>>
  <2>1. UNCHANGED <<served, idle>>
    BY <1>5 DEF useVars
  <2>2. served' \in BOOLEAN
    BY <2>1 DEF ClientInv, Typed, TypeOK
  <2> QED
    BY <1>1, <1>2, <1>5, <2>1, <2>2, FailureInv
<1> QED
  BY <1>3, <1>4, <1>5 DEF Rejected

LEMMA HandshakeFailsInv ==
    ASSUME ClientInv, NEW t \in Threads, HandshakeFails(t)
    PROVE  ClientInv' /\ ServiceStep
<1>1. /\ pc[t] # "idle" /\ connState' = "Dead" /\ handshakeOk' = FALSE
      /\ hasSession' \in {FALSE, hasSession}
      /\ UNCHANGED <<ticketDirty, served, idle, established, peer, pending, asked, dealt, sends>>
  BY DEF HandshakeFails, Busy, useVars, netVars
<1>2. \/ request = Ping /\ Ends(t, response) /\ UNCHANGED <<discardBody, answered>>
      \/ request # Ping /\ Deliver(t, response, FALSE)
  BY DEF HandshakeFails
<1>3. {hasSession', handshakeOk', ticketDirty', served', established', peer'} \subseteq BOOLEAN
  BY <1>1 DEF ClientInv, Typed, TypeOK
<1> QED
  BY <1>1, <1>2, <1>3, FailureInv

-----------------------------------------------------------------------------
(* Writing and reading.                                                    *)

LEMMA WritesInv ==
    ASSUME ClientInv, NEW t \in Threads, Writes(t)
    PROVE  ClientInv' /\ ServiceStep
<1> DEFINE again == [sends EXCEPT ![request] = Append(@, wasIdle[t])]
<1>1. /\ pc[t] = "write" /\ Moves(t, "read")
      /\ UNCHANGED <<connState, hasSession, handshakeOk, ticketDirty, served, idle>>
      /\ UNCHANGED <<request, discardBody, response, hops, retried, wasIdle>>
      /\ UNCHANGED <<established, peer, inbox, asked, dealt, answered>>
      /\ sends' = IF request = Ping \/ hops > 0 THEN sends ELSE again
  BY DEF Writes, Busy, tlsVars, useVars, callVars
<1>2. /\ \A u \in Threads : pc'[u] = IF u = t THEN "read" ELSE "idle"
      /\ pc' \in [Threads -> {"idle", "connect", "handshake", "write", "read"}]
      /\ Alone'
  BY <1>1, OneMoves DEF ClientInv
<1>3. inbox = <<>> /\ pending = <<>> /\ response = NoResponse
  BY <1>1 DEF ClientInv, Wire, Clean
<1>4. pending' \in {<<>>, Query(request, hops)}
  BY <1>3, Heads DEF Writes, Query
<1>5. /\ request \in Requests \cup {Ping} /\ request # None /\ hops \in 0 .. MaxHops
      /\ wasIdle[t] \in BOOLEAN
  BY <1>1, HttpAssumption DEF ClientInv, Typed, TypeOK, Resting
<1>6. ASSUME request \in Requests, hops = 0
      PROVE  /\ \/ sends[request] = <<>> /\ again[request] = <<wasIdle[t]>>
                \/ retried[t] /\ sends[request] = <<TRUE>>
                   /\ Len(again[request]) = 2 /\ again[request][1] = TRUE
             /\ Len(again[request]) = Len(sends[request]) + 1
             /\ again[request] \in Seq(BOOLEAN)
  <2>1. PICK q \in Seq(BOOLEAN), w \in BOOLEAN : q = sends[request] /\ w = wasIdle[t]
    BY <1>5, <1>6 DEF ClientInv, Typed
  <2>2. again[request] = Append(q, w)
    BY <1>6, <2>1 DEF ClientInv, Typed
  <2>5. /\ Append(q, w) \in Seq(BOOLEAN)
        /\ Len(Append(q, w)) = Len(q) + 1
        /\ \A k \in 1 .. Len(q) : Append(q, w)[k] = q[k]
    BY AppendProperties
  <2>3. CASE sends[request] = <<>>
    BY <2>1, <2>2, <2>3, <2>5, Heads
  <2>4. CASE retried[t] /\ sends[request] = <<TRUE>>
    <3>1. Len(<<TRUE>>) = 1 /\ <<TRUE>>[1] = TRUE
      OBVIOUS
    <3>2. Len(Append(q, w)) = 2 /\ Append(q, w)[1] = TRUE
      BY <2>1, <2>4, <2>5, <3>1
    <3> QED
      BY <2>1, <2>2, <2>4, <2>5, <3>2
  <2> QED
    BY <1>1, <1>6, <2>1, <2>2, <2>3, <2>4, <2>5 DEF ClientInv, Sending
<1>7. \A r \in Requests : r # request \/ hops # 0 => sends'[r] = sends[r]
  BY <1>1, <1>5 DEF ClientInv, Typed
<1>8. request \in Requests /\ hops = 0 => sends' = again
  BY <1>1, HttpAssumption
<1>9. sends' \in [Requests -> Seq(BOOLEAN)]
  <2>1. CASE request \in Requests /\ hops = 0
    BY <1>6, <1>8, <2>1 DEF ClientInv, Typed
  <2>2. CASE ~(request \in Requests /\ hops = 0)
    BY <1>1, <1>5, <2>2 DEF ClientInv, Typed
  <2> QED
    BY <2>1, <2>2
<1> HIDE DEF again
<1>10. Typed'
  BY <1>1, <1>2, <1>5, <1>9 DEF ClientInv, Typed, TypeOK
<1>11. Own'
  BY <1>1 DEF ClientInv, Own, Resting
<1>12. Unasked'
  <2>1. request \in Requests => request \in asked
    BY <1>1 DEF ClientInv, Own, Resting
  <2> QED
    BY <1>1, <1>7, <2>1 DEF ClientInv, Unasked
<1>13. Sending'
  <2>1. ASSUME request \in Requests, hops = 0, ~retried[t]
        PROVE  sends'[request] = <<wasIdle[t]>>
    BY <1>6, <1>8, <2>1
  <2>2. \A u \in Threads : pc'[u] \notin {"connect", "handshake", "write"}
                           /\ (pc'[u] = "read" => u = t)
    BY <1>2
  <2> QED
    BY <1>1, <2>1, <2>2 DEF Sending
<1>14. SentAgainOnlyWhenReused'
  <2>1. ASSUME NEW r \in Requests
        PROVE  Len(sends'[r]) <= 2 /\ (Len(sends'[r]) = 2 => sends'[r][1])
    <3>1. CASE r = request /\ hops = 0
      <4>1. Len(<<wasIdle[t]>>) = 1
        OBVIOUS
      <4>2. /\ Len(again[request]) <= 2
            /\ Len(again[request]) = 2 => again[request][1] = TRUE
        <5>1. CASE again[request] = <<wasIdle[t]>>
          BY <4>1, <5>1
        <5>2. CASE Len(again[request]) = 2 /\ again[request][1] = TRUE
          BY <5>2
        <5> QED
          BY <1>6, <3>1, <5>1, <5>2
      <4>3. sends'[r] = again[request]
        BY <1>8, <3>1
      <4> QED
        BY <4>2, <4>3
    <3>2. CASE ~(r = request /\ hops = 0)
      BY <1>7, <3>2 DEF ClientInv, SentAgainOnlyWhenReused
    <3> QED
      BY <3>1, <3>2
  <2> QED
    BY <2>1 DEF SentAgainOnlyWhenReused
<1>15. Dealing'
  <2>1. \/ pending' = <<>>
        \/ \E r \in Requests \cup {Ping}, hop \in 0 .. MaxHops : pending' = Query(r, hop)
    BY <1>4, <1>5
  <2>2. ASSUME NEW r \in Requests
        PROVE  /\ dealt'[r] <= Len(sends'[r])
               /\ pending' = Query(r, 0) => dealt'[r] < Len(sends'[r])
    <3>1. /\ dealt[r] \in Nat /\ Len(sends[r]) \in Nat /\ dealt'[r] = dealt[r]
          /\ dealt[r] <= Len(sends[r])
      <4>1. dealt[r] \in Nat /\ Len(sends[r]) \in Nat /\ dealt'[r] = dealt[r]
        BY <1>1 DEF ClientInv, Typed, TypeOK
      <4>2. dealt[r] <= Len(sends[r])
        BY DEF ClientInv, Dealing
      <4> QED
        BY <4>1, <4>2
    <3>2. CASE r = request /\ hops = 0
      <4>1. Len(sends'[r]) = Len(sends[r]) + 1
        BY <1>6, <1>8, <3>2
      <4> QED
        BY <3>1, <4>1
    <3>3. CASE ~(r = request /\ hops = 0)
      <4>1. pending' # Query(r, 0)
        BY <1>4, <3>3, Lengths DEF Query
      <4> QED
        BY <1>7, <3>1, <3>3, <4>1
    <3> QED
      BY <3>2, <3>3
  <2> QED
    BY <2>1, <2>2 DEF Dealing
<1>16. Wire'
  <2>1. Reading'
    BY <1>1, <1>3, <1>4 DEF Reading, Query
  <2> QED
    BY <1>2, <2>1 DEF Wire
<1> QED
  BY <1>1, <1>2, <1>10, <1>11, <1>12, <1>13, <1>14, <1>15, <1>16, Quiet DEF ClientInv

(* A part of the response was read, and more is to come. *)
LEMMA ReadsOn ==
    ASSUME ClientInv, NEW t \in Threads, pc[t] = "read", NEW R \in Response, response' = R,
           UNCHANGED <<connState, tlsVars, useVars, request, discardBody, hops, threadVars>>,
           UNCHANGED <<history, established, peer, pending>>,
           Reading'
    PROVE  ClientInv' /\ ServiceStep
<1>1. /\ UNCHANGED <<connState, hasSession, handshakeOk, ticketDirty, served, idle>>
      /\ UNCHANGED <<request, discardBody, hops, pc, retried, wasIdle>>
      /\ UNCHANGED <<established, peer, pending, asked, dealt, answered, sends>>
  BY DEF tlsVars, useVars, threadVars, history
<1>2. Typed'
  <2>1. R.of \in Requests \cup {None, Ping}
    BY DEF Response, Names
  <2> QED
    BY <1>1, <2>1 DEF ClientInv, Typed, TypeOK, Resting
<1>3. Alone' /\ Own' /\ Sending'
  BY <1>1 DEF ClientInv, Alone, Own, Resting, Sending
<1>4. Wire'
  <2>1. \A u \in Threads : pc'[u] = IF u = t THEN "read" ELSE "idle"
    BY <1>1 DEF ClientInv, Alone
  <2> QED
    BY <2>1 DEF Wire
<1> QED
  BY <1>1, <1>2, <1>3, <1>4, SameSends, Quiet DEF ClientInv

(* The response is whole. *)
LEMMA ReadsWhole ==
    ASSUME ClientInv, NEW t \in Threads, pc[t] = "read", NEW R \in Response,
           ReadEnds(t, R), UNCHANGED <<established, peer, pending>>,
           R.complete, R.of = request, Heard,
           ~R.skip => Clean'
    PROVE  ClientInv' /\ ServiceStep
<1>1. established' \in BOOLEAN /\ peer' \in BOOLEAN
  BY DEF ClientInv, Typed, TypeOK
<1>2. request \in Requests \cup {Ping}
  BY DEF ClientInv, Typed, TypeOK, Resting
<1>3. PICK state \in {"Idle", "Dead"} : state = KeptAfter(R)
  BY DEF KeptAfter
<1>4. state = "Idle" => Clean'
  BY <1>3 DEF KeptAfter
<1>5. CASE request = Ping /\ PingEnds(t, R, KeptAfter(R))
  <2>1. PingEnds(t, R, state)
    BY <1>3, <1>5
  <2> QED
    BY <1>1, <1>4, <2>1, PingEndsInv
<1>6. CASE request # Ping /\ SslClose(t, R, TRUE, KeptAfter(R))
  <2>1. SslClose(t, R, TRUE, state)
    BY <1>3, <1>6
  <2>2. request \in Requests /\ dealt[request] > 0
    BY <1>2, <1>6 DEF Heard
  <2> QED
    BY <1>1, <1>4, <2>1, <2>2, SslCloseInv
<1> QED
  BY <1>5, <1>6 DEF ReadEnds

LEMMA ReadsInv ==
    ASSUME ClientInv, NEW t \in Threads, Reads(t)
    PROVE  ClientInv' /\ ServiceStep
<1>1. /\ pc[t] = "read" /\ inbox # <<>> /\ inbox' = Tail(inbox)
      /\ ReadEnds(t, Parsed(response, Head(inbox)))
      /\ UNCHANGED <<established, peer, pending>>
  BY DEF Reads, Busy
<1>2. Reading /\ request \in Requests \cup {Ping} /\ discardBody \in BOOLEAN
  BY <1>1 DEF ClientInv, Wire, Typed, TypeOK, Resting
<1>3. ASSUME NEW m \in BOOLEAN, NEW c \in BOOLEAN, response = NoResponse, Heard,
             inbox \in {<<HeadOf(m, c)>>, <<HeadOf(m, c), BodyOf(m, c)>>}
      PROVE  ClientInv' /\ ServiceStep
  <2> DEFINE R == [of |-> request, moved |-> m, close |-> c, skip |-> discardBody,
                   complete |-> discardBody, broken |-> FALSE]
           h == [of |-> request, part |-> "head", moved |-> m, close |-> c]
  <2>1. Head(inbox) = h /\ inbox' \in {<<>>, <<BodyOf(m, c)>>}
    <3>1. CASE inbox = <<HeadOf(m, c)>>
      BY <1>1, <3>1, Heads DEF HeadOf
    <3>2. CASE inbox = <<HeadOf(m, c), BodyOf(m, c)>>
      BY <1>1, <3>2, Heads DEF HeadOf
    <3> QED
      BY <1>3, <3>1, <3>2
  <2>2. Parsed(response, h) = R
    <3>1. h.part = "head" /\ response.of = None /\ response.broken = FALSE
      BY <1>3 DEF NoResponse
    <3> QED
      BY <3>1 DEF Parsed
  <2>3. R \in Response /\ R.of = request /\ R.complete = discardBody /\ R.skip = discardBody
        /\ R.broken = FALSE
    BY <1>2 DEF Response, Names
  <2> HIDE DEF R
  <2>4. PICK Q \in Response : Q = R
    BY <2>3
  <2>5. ReadEnds(t, Q)
    BY <1>1, <2>1, <2>2, <2>4
  <2>6. CASE discardBody
    BY <1>1, <1>3, <2>3, <2>4, <2>5, <2>6, ReadsWhole
  <2>7. CASE ~discardBody
    <3>1. /\ response' = Q
          /\ UNCHANGED <<connState, tlsVars, useVars, request, discardBody, hops, threadVars>>
          /\ UNCHANGED history
      BY <2>3, <2>4, <2>5, <2>7 DEF ReadEnds
    <3>2. Heard'
      BY <1>1, <1>3, <3>1 DEF Heard, history
    <3>3. Begun' /\ ~response'.skip
      BY <2>3, <2>4, <2>7, <3>1 DEF Begun
    <3>4. Reading'
      BY <2>1, <3>1, <3>2, <3>3 DEF Reading, BodyOf
    <3> QED
      BY <1>1, <3>1, <3>4, ReadsOn
  <2> QED
    BY <2>6, <2>7
<1>4. ASSUME NEW m \in BOOLEAN, NEW c \in BOOLEAN, Heard, Begun, ~response.skip,
             inbox = <<BodyOf(m, c)>>
      PROVE  ClientInv' /\ ServiceStep
  <2> DEFINE R == [response EXCEPT !.complete = TRUE]
  <2>1. Head(inbox) = BodyOf(m, c) /\ inbox' = <<>>
    BY <1>1, <1>4, Heads
  <2>2. response.of # None
    BY <1>2, <1>4, HttpAssumption DEF Begun
  <2>3. Parsed(response, Head(inbox)) = R
    BY <2>1, <2>2 DEF Parsed, BodyOf
  <2>4. R \in Response /\ R.of = request /\ R.complete /\ ~R.skip
    BY <1>4 DEF ClientInv, Typed, Response, Begun
  <2> HIDE DEF R
  <2>5. PICK Q \in Response : Q = R
    BY <2>4
  <2>6. ReadEnds(t, Q)
    BY <1>1, <2>3, <2>5
  <2>7. Clean'
    BY <1>1, <1>4, <2>1 DEF Clean, Heard
  <2> QED
    BY <1>1, <1>4, <2>4, <2>5, <2>6, <2>7, ReadsWhole
<1> QED
  BY <1>1, <1>2, <1>3, <1>4 DEF Reading

LEMMA FailsInv ==
    ASSUME ClientInv, NEW t \in Threads, WriteFails(t) \/ ReadFails(t)
    PROVE  ClientInv' /\ ServiceStep
BY GiveUpInv DEF WriteFails, ReadFails, Busy

-----------------------------------------------------------------------------
(* The server, the network and the clock.                                  *)

LEMMA ServeInv ==
    ASSUME ClientInv, NEW n \in 0 .. 2, NEW moved \in BOOLEAN, NEW close \in BOOLEAN,
           Serve(n, moved, close)
    PROVE  ClientInv' /\ ServiceStep
<1>1. PICK r \in Requests \cup {Ping}, hop \in 0 .. MaxHops : pending = Query(r, hop)
  BY DEF ClientInv, Dealing, Serve
<1> DEFINE q == [of |-> r, hop |-> hop]
           parts == <<Chunk(q, "head", moved, close), Chunk(q, "body", moved, close)>>
<1>2. Head(pending) = q /\ pending' = <<>>
  BY <1>1, Heads DEF Serve, Query
<1>3. /\ inbox' = inbox \o SubSeq(parts, 1, n)
      /\ dealt' = IF r = Ping \/ hop > 0 THEN dealt ELSE [dealt EXCEPT ![r] = @ + 1]
      /\ peer' = (n = 2 /\ ~close)
      /\ UNCHANGED <<connState, tlsVars, useVars, callVars, threadVars, established, asked,
                     answered, sends>>
  <2>1. q.of = r /\ q.hop = hop
    OBVIOUS
  <2> HIDE DEF q
  <2> QED
    BY <1>2, <2>1 DEF Serve
<1>4. /\ UNCHANGED <<connState, hasSession, handshakeOk, ticketDirty, served, idle>>
      /\ UNCHANGED <<request, discardBody, response, hops, pc, retried, wasIdle>>
      /\ UNCHANGED <<established, asked, answered, sends>>
  BY <1>3 DEF tlsVars, useVars, callVars, threadVars
<1>5. /\ hop \in Nat /\ dealt \in [Requests -> Nat]
      /\ \A s \in Requests : Len(sends[s]) \in Nat
  BY HttpAssumption DEF ClientInv, Typed, TypeOK
<1>6. dealt' \in [Requests -> Nat] /\ \A s \in Requests : dealt'[s] >= dealt[s]
  BY <1>3, <1>5
<1>7. r # Ping /\ hop = 0 => dealt[r] < Len(sends[r]) /\ dealt' = [dealt EXCEPT ![r] = @ + 1]
  BY <1>1, <1>3 DEF ClientInv, Dealing
<1>8. Typed'
  <2>1. {hasSession', handshakeOk', ticketDirty', served', discardBody', established', peer'}
            \subseteq BOOLEAN
    BY <1>3, <1>4 DEF ClientInv, Typed, TypeOK
  <2> QED
    BY <1>4, <1>6, <2>1 DEF ClientInv, Typed, TypeOK, Resting
<1>9. Alone' /\ Unasked' /\ Sending' /\ SentAgainOnlyWhenReused'
  BY <1>4 DEF ClientInv, Alone, Unasked, Sending, SentAgainOnlyWhenReused
<1>10. Own'
  <2>1. ASSUME request \in Requests, dealt[request] > 0 PROVE dealt'[request] > 0
    BY <1>5, <1>6, <2>1
  <2> QED
    BY <1>4, <2>1 DEF ClientInv, Own, Resting
<1>11. Dealing'
  <2>1. ASSUME NEW s \in Requests PROVE dealt'[s] <= Len(sends'[s])
    <3>1. dealt[s] <= Len(sends[s])
      BY DEF ClientInv, Dealing
    <3>2. CASE s = r /\ hop = 0
      <4>1. r # Ping
        BY <3>2, HttpAssumption
      <4> QED
        BY <1>4, <1>5, <1>7, <3>2, <4>1
    <3>3. CASE ~(s = r /\ hop = 0)
      <4>1. dealt'[s] = dealt[s]
        BY <1>3, <1>5, <3>3
      <4> QED
        BY <1>4, <3>1, <4>1
    <3> QED
      BY <3>2, <3>3
  <2>2. \A s \in Requests : pending' # Query(s, 0)
    BY <1>2 DEF Query
  <2> QED
    BY <1>2, <2>1, <2>2 DEF Dealing
<1>12. Wire'
  <2>1. pending # <<>>
    BY <1>1 DEF Query
  <2>2. \A u \in Threads : pc[u] \notin {"handshake", "write"}
    BY <2>1 DEF ClientInv, Wire, Clean
  <2>3. ASSUME NEW u \in Threads, pc[u] = "read" PROVE Reading'
    <3>1. Reading
      BY <2>3 DEF ClientInv, Wire
    <3>2. inbox = <<>> /\ pending = Query(request, hops) /\ response = NoResponse
      BY <2>1, <3>1 DEF Reading, Heard
    <3>3. r = request /\ hop = hops
      BY <1>1, <3>2, Lengths DEF Query
    <3>4. /\ Chunk(q, "head", moved, close) = HeadOf(moved, close)'
          /\ Chunk(q, "body", moved, close) = BodyOf(moved, close)'
      BY <1>4, <3>3 DEF Chunk, HeadOf, BodyOf
    <3>5. inbox' = IF n = 0 THEN <<>>
                   ELSE IF n = 1 THEN <<HeadOf(moved, close)'>>
                   ELSE <<HeadOf(moved, close)', BodyOf(moved, close)'>>
      BY <1>3, <3>2, <3>4, SentParts
    <3>6. Heard'
      <4>1. ASSUME request \in Requests PROVE dealt'[request] > 0
        <5>1. CASE hops = 0
          BY <1>5, <1>7, <3>3, <4>1, <5>1, HttpAssumption
        <5>2. CASE hops # 0
          <6>1. dealt[request] > 0
            BY <1>5, <2>3, <3>3, <4>1, <5>2 DEF ClientInv, Own, Resting
          <6> QED
            BY <1>5, <1>6, <4>1, <6>1
        <5> QED
          BY <5>1, <5>2
      <4> QED
        BY <1>2, <1>4, <4>1 DEF Heard
    <3> QED
      BY <1>2, <1>4, <3>2, <3>5, <3>6 DEF Reading
  <2>4. connState = "Idle" => \E u \in Threads : pc[u] = "read"
    BY <2>1 DEF ClientInv, Wire, Clean
  <2> QED
    BY <1>4, <2>2, <2>3, <2>4 DEF ClientInv, Wire
<1>13. ServiceStep
  <2>1. CASE r = Ping \/ hop > 0
    BY <1>3, <1>4, <2>1, Quiet
  <2>2. CASE r # Ping /\ hop = 0
    <3>1. dealt[r] < Len(sends[r]) /\ Len(sends[r]) <= 2 /\ r \in Requests
      BY <1>7, <2>2 DEF ClientInv, SentAgainOnlyWhenReused
    <3>2. dealt[r] < 2
      BY <1>5, <3>1
    <3>3. r \in asked
      <4>1. sends[r] # <<>>
        BY <1>5, <3>1, Lengths
      <4> QED
        BY <3>1, <4>1 DEF ClientInv, Unasked
    <3>4. Service!Deal(r)
      BY <1>4, <1>7, <2>2, <3>2, <3>3 DEF Service!Deal
    <3> QED
      BY <3>1, <3>4 DEF ServiceStep, Service!Next
  <2> QED
    BY <1>5, <2>1, <2>2
<1> QED
  BY <1>8, <1>9, <1>10, <1>11, <1>12, <1>13 DEF ClientInv

LEMMA AroundInv ==
    ASSUME ClientInv, ForceReconnect \/ TimePasses \/ PeerCloses \/ FinArrives \/ UNCHANGED vars
    PROVE  ClientInv' /\ ServiceStep
<1>1. /\ UNCHANGED <<hasSession, handshakeOk, ticketDirty, served>>
      /\ UNCHANGED <<request, discardBody, response, hops, pc, retried, wasIdle>>
      /\ UNCHANGED <<asked, dealt, answered, sends, pending>>
  BY DEF ForceReconnect, TimePasses, PeerCloses, FinArrives, vars, tlsVars, useVars, callVars,
         threadVars, netVars, history
<1>2. /\ connState' \in {connState, "Dead"} /\ idle' \in {idle, idle + 1} /\ idle' \in 0 .. 2
      /\ established' \in {FALSE, established} /\ peer' \in {FALSE, peer}
      /\ inbox' = inbox \/ (Resting /\ connState' = "Dead")
  <2>1. idle \in 0 .. 2
    BY DEF ClientInv, Typed, TypeOK
  <2>2. CASE ForceReconnect
    BY <2>1, <2>2 DEF ForceReconnect, useVars
  <2>3. CASE TimePasses
    BY <2>1, <2>3 DEF TimePasses, netVars
  <2>4. CASE PeerCloses \/ FinArrives
    BY <2>1, <2>4 DEF PeerCloses, FinArrives, useVars
  <2>5. CASE UNCHANGED vars
    BY <2>1, <2>5 DEF vars, useVars, netVars
  <2> QED
    BY <2>2, <2>3, <2>4, <2>5
<1>3. Typed'
  BY <1>1, <1>2 DEF ClientInv, Typed, TypeOK, Resting
<1>4. Alone' /\ Own' /\ Sending'
  BY <1>1 DEF ClientInv, Alone, Own, Resting, Sending
<1>5. Wire'
  <2>1. CASE inbox' = inbox
    <3>1. Reading => Reading'
      BY <1>1, <2>1 DEF Reading, Heard, Begun, HeadOf, BodyOf
    <3>2. Clean => Clean'
      BY <1>1, <2>1 DEF Clean
    <3> QED
      BY <1>1, <1>2, <3>1, <3>2 DEF ClientInv, Wire
  <2>2. CASE Resting /\ connState' = "Dead"
    BY <1>1, <2>2 DEF Wire, Resting
  <2> QED
    BY <1>2, <2>1, <2>2
<1> QED
  BY <1>1, <1>3, <1>4, <1>5, SameSends, Quiet DEF ClientInv

-----------------------------------------------------------------------------
(* Every step.                                                             *)

LEMMA InitInv == ASSUME Init, ~Reentrant PROVE ClientInv
<1>1. Typed
  <2>1. [r \in Requests |-> <<>>] \in [Requests -> Seq([ok : BOOLEAN, of : Names])]
    OBVIOUS
  <2>2. [r \in Requests |-> <<>>] \in [Requests -> Seq(BOOLEAN)]
    OBVIOUS
  <2>3. {hasSession, handshakeOk, ticketDirty, served, discardBody, established, peer}
            \subseteq BOOLEAN
    BY DEF Init
  <2> QED
    BY <2>1, <2>2, <2>3, NoResponseTyped, HttpAssumption DEF Init, Typed, TypeOK, Resting
<1>2. Alone /\ Own /\ Unasked /\ Sending
  BY DEF Init, Alone, Own, Resting, Unasked, Sending
<1>3. Dealing /\ SentAgainOnlyWhenReused
  BY Lengths DEF Init, Dealing, Query, SentAgainOnlyWhenReused
<1>4. Wire
  BY DEF Init, Wire, Clean
<1> QED
  BY <1>1, <1>2, <1>3, <1>4 DEF ClientInv

LEMMA NextInv == ASSUME ClientInv, [Next]_vars PROVE ClientInv' /\ ServiceStep
<1>1. ASSUME NEW t \in Threads, NEW r \in Requests, Ask(t, r) PROVE ClientInv' /\ ServiceStep
  BY <1>1, AskInv
<1>2. ASSUME NEW t \in Threads, WarmUp(t) PROVE ClientInv' /\ ServiceStep
  BY <1>2, WarmUpInv
<1>3. ASSUME NEW t \in Threads, Step(t) PROVE ClientInv' /\ ServiceStep
  BY <1>3, ReuseInv, ConnectsInv, ConnectFailsInv, HandshakesInv, RejectedInv,
     HandshakeFailsInv, WritesInv, ReadsInv, FailsInv DEF Step
<1>4. ASSUME NEW n \in 0 .. 2, NEW moved \in BOOLEAN, NEW close \in BOOLEAN,
             Serve(n, moved, close)
      PROVE  ClientInv' /\ ServiceStep
  BY <1>4, ServeInv
<1>5. CASE ForceReconnect \/ TimePasses \/ PeerCloses \/ FinArrives \/ UNCHANGED vars
  BY <1>5, AroundInv
<1> QED
  BY <1>1, <1>2, <1>3, <1>4, <1>5 DEF Next

(* With one request at a time, for any requests, threads and redirects,    *)
(* the client keeps its invariant.                                         *)
THEOREM ClientInvariant == ASSUME ~Reentrant PROVE Spec => []ClientInv
<1>1. Init => ClientInv
  BY InitInv
<1>2. ClientInv /\ [Next]_vars => ClientInv'
  BY NextInv
<1> QED
  BY <1>1, <1>2, PTL DEF Spec

(* The types of HttpClient's fields, and hops within the bound on          *)
(* redirects.                                                              *)
THEOREM ClientTyped == ASSUME ~Reentrant PROVE Spec => []TypeOK
<1>1. ClientInv => TypeOK
  BY DEF ClientInv, Typed
<1> QED
  BY <1>1, ClientInvariant, PTL

(* A connection SslResponse keeps has nothing unread in it, so a response  *)
(* never begins with what another request left.                            *)
THEOREM KeptClean == ASSUME ~Reentrant PROVE Spec => []StreamClean
<1>1. ClientInv => StreamClean
  BY DEF ClientInv, Wire, Clean, StreamClean, Resting
<1> QED
  BY <1>1, ClientInvariant, PTL

(* HttpsRequest sends a request at most twice, and only when it first went *)
(* over a connection kept from before.                                     *)
THEOREM SentOnce == ASSUME ~Reentrant PROVE Spec => []SentAgainOnlyWhenReused
<1>1. ClientInv => SentAgainOnlyWhenReused
  BY DEF ClientInv
<1> QED
  BY <1>1, ClientInvariant, PTL

(* Whatever the server does and however connections fail, each request is  *)
(* answered at most once, and with success only after the server dealt     *)
(* with it and by its own response.                                        *)
THEOREM ClientImplementsService == ASSUME ~Reentrant PROVE Spec => ImplementsService
<1>1. Init => Service!Init
  <2>1. ASSUME Init
        PROVE  [r \in Requests |-> [i \in 1 .. Len(answered[r]) |-> Verdict(r, answered[r][i])]]
                   = [r \in Requests |-> <<>>]
    <3>1. 1 .. Len(<<>>) = {}
      OBVIOUS
    <3>2. \A r \in Requests : answered[r] = <<>>
      BY <2>1 DEF Init
    <3>3. ASSUME NEW r \in Requests
          PROVE  [i \in 1 .. Len(answered[r]) |-> Verdict(r, answered[r][i])] = <<>>
      <4> DEFINE S == 1 .. Len(answered[r])
      <4>1. S = {}
        BY <3>1, <3>2
      <4> HIDE DEF S
      <4>2. [i \in S |-> Verdict(r, answered[r][i])] = <<>>
        BY <4>1
      <4> QED
        BY <4>2 DEF S
    <3> QED
      BY <3>3
  <2> QED
    BY <2>1 DEF Init, Service!Init
<1>2. ClientInv /\ [Next]_vars => [Service!Next]_(Service!serviceVars)
  BY NextInv DEF ServiceStep
<1> QED
  BY <1>1, <1>2, ClientInvariant, PTL DEF Spec, ImplementsService, Service!Spec
=============================================================================
