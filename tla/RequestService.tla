--------------------------- MODULE RequestService ---------------------------
(***************************************************************************)
(* What the HTTP client promises its callers (core/net/HttpClient.h): a    *)
(* request is answered once, and with success only when the server dealt   *)
(* with it and the answer is the one to that request.  A failure says      *)
(* nothing: the server may have dealt with the request or may still do so, *)
(* and it may deal with a request twice.  HttpClient implements this over  *)
(* connections that are kept, lost and made again.                         *)
(***************************************************************************)
EXTENDS Naturals, Sequences

CONSTANT Requests

VARIABLES asked,      \* the requests made
          dealt,      \* how often the server dealt with each
          answers     \* what each caller was told: nothing, "ok" or "failed"

serviceVars == <<asked, dealt, answers>>

Init == /\ asked = {}
        /\ dealt = [r \in Requests |-> 0]
        /\ answers = [r \in Requests |-> <<>>]

Ask(r) == /\ r \notin asked
          /\ asked' = asked \cup {r}
          /\ UNCHANGED <<dealt, answers>>

Deal(r) == /\ r \in asked
           /\ dealt[r] < 2
           /\ dealt' = [dealt EXCEPT ![r] = @ + 1]
           /\ UNCHANGED <<asked, answers>>

Answer(r, a) == /\ r \in asked
                /\ answers[r] = <<>>
                /\ a = "ok" => dealt[r] > 0
                /\ answers' = [answers EXCEPT ![r] = <<a>>]
                /\ UNCHANGED <<asked, dealt>>

Next == \E r \in Requests : \/ Ask(r)
                            \/ Deal(r)
                            \/ \E a \in {"ok", "failed"} : Answer(r, a)

Spec == Init /\ [][Next]_serviceVars
=============================================================================
