------------------------------ MODULE HttpNodes ------------------------------
(***************************************************************************)
(* The http in, http response and http request nodes and the response      *)
(* registry between the first two (network_nodes/http_*.rs,                *)
(* http_registry.rs).  http in registers a oneshot sender under the id of  *)
(* the message it sends, waits for it, for its timeout or for the end of   *)
(* the flow, and answers its socket; http response takes the sender that   *)
(* the id in the message names.  The message may be copied on its way.     *)
(* http request handles one message at a time.                             *)
(***************************************************************************)
EXTENDS Integers, Sequences, FiniteSets

CONSTANTS
    HttpRequests,   \* bound on requests to http in
    HttpCopies,     \* bound on copies of a request's message in the flow
    HttpCalls       \* bound on messages to http request

VARIABLES
    htReqs,     \* every request to http in: its step and what its socket was answered
    htTable,    \* handlers: the ids that have a sender
    htMsgs,     \* the messages in the flow, by id, with the copies left to arrive
    htTold,     \* for every id, how often http response was told its answer was sent
    htRunning,
    htCall      \* http request: the call under way, and what became of the others

httpVars == <<htReqs, htTable, htMsgs, htTold, htRunning, htCall>>

HttpInit ==
    /\ htReqs = <<>> /\ htTable = {} /\ htMsgs = <<>> /\ htTold = <<>>
    /\ htRunning = TRUE
    /\ htCall = [at |-> "idle", fed |-> 0, out |-> 0, silent |-> 0, form |-> "none"]

---------------------------------------------------------------------------
(* http in and http response.                                              *)

SetReq(r, at, answer) == htReqs' = [htReqs EXCEPT ![r] = [at |-> at, answer |-> answer]]

\* handle_http_request up to the registration: a request line of less than three
\* parts, another path or another method is answered at once.
RequestComes ==
    /\ htRunning /\ Len(htReqs) < HttpRequests
    /\ \/ /\ htReqs' = Append(htReqs, [at |-> "registered", answer |-> "none"])
          /\ htTable' = htTable \union {Len(htReqs) + 1}
       \/ \E refusal \in {"400", "404"} :
             /\ htReqs' = Append(htReqs, [at |-> "ended", answer |-> refusal])
             /\ UNCHANGED htTable
    /\ htMsgs' = Append(htMsgs, 0)
    /\ htTold' = Append(htTold, 0)
    /\ UNCHANGED <<htRunning, htCall>>

\* fan_out_one: the first wires have the message while a further one may still wait or
\* refuse it; when one does, the handler is left behind.
RequestSent(r, copies) ==
    /\ htReqs[r].at = "registered"
    /\ SetReq(r, "sending", "none")
    /\ htMsgs' = [htMsgs EXCEPT ![r] = copies]
    /\ UNCHANGED <<htTable, htTold, htRunning, htCall>>
RequestWaits(r) ==
    /\ htReqs[r].at = "sending"
    /\ SetReq(r, "waiting", "none")
    /\ UNCHANGED <<htTable, htMsgs, htTold, htRunning, htCall>>
RequestNotSent(r) ==
    /\ htReqs[r].at \in {"registered", "sending"}
    /\ SetReq(r, "ended", "500")
    /\ UNCHANGED <<htTable, htMsgs, htTold, htRunning, htCall>>

\* send_response: the sender is removed and used, which leaves the answer in the
\* channel.  It fails when the receiver is gone, or when there is no sender.
HasReceiver(r) == htReqs[r].at \in {"registered", "sending", "waiting"}
HttpOut(r) ==
    /\ htMsgs[r] > 0
    /\ htMsgs' = [htMsgs EXCEPT ![r] = @ - 1]
    /\ htTable' = htTable \ {r}
    /\ htTold' = IF r \in htTable /\ HasReceiver(r) THEN [htTold EXCEPT ![r] = @ + 1] ELSE htTold
    /\ UNCHANGED <<htReqs, htRunning, htCall>>

\* A message that never reaches a http response, or without its res property.
MessageDropped(r) ==
    /\ htMsgs[r] > 0
    /\ htMsgs' = [htMsgs EXCEPT ![r] = @ - 1]
    /\ UNCHANGED <<htReqs, htTable, htTold, htRunning, htCall>>

\* The select takes any branch that is ready: the answer that lies in the channel, its
\* timeout, or the cancelled token, which returns without cleanup.
RequestAnswered(r) ==
    /\ htReqs[r].at = "waiting" /\ htTold[r] > 0
    /\ SetReq(r, "cleanup", "response")
    /\ UNCHANGED <<htTable, htMsgs, htTold, htRunning, htCall>>
RequestTimeout(r) ==
    /\ htReqs[r].at = "waiting"
    /\ SetReq(r, "cleanup", "504")
    /\ UNCHANGED <<htTable, htMsgs, htTold, htRunning, htCall>>
RequestStopped(r) ==
    /\ htReqs[r].at = "waiting" /\ ~htRunning
    /\ SetReq(r, "ended", "closed")
    /\ UNCHANGED <<htTable, htMsgs, htTold, htRunning, htCall>>

\* Mutant: a request that timed out leaves its handler.
CleanupNone(r) == htTable

Cleanup(r) == htTable \ {r}

RequestEnds(r) ==
    /\ htReqs[r].at = "cleanup"
    /\ htTable' = Cleanup(r)
    /\ SetReq(r, "ended", htReqs[r].answer)
    /\ UNCHANGED <<htMsgs, htTold, htRunning, htCall>>

HttpStop ==
    /\ htRunning
    /\ htRunning' = FALSE
    /\ UNCHANGED <<htReqs, htTable, htMsgs, htTold, htCall>>

---------------------------------------------------------------------------
(* http request.                                                           *)

\* The url of the node or of the message; anything else, and a scheme that is not
\* http, is an error that is only logged.
UrlFor(cfg, msg) == IF cfg # "" THEN cfg ELSE msg
GoodUrl(url) == url \in {"http", "bare"}

\* prepare_request_data: whether a GET's payload goes into the query, the body or
\* nowhere; another method's payload is the body.
BodyFor(method, payTo, payload) ==
    CASE payload = "none" -> "none"
      [] method # "get" -> "body"
      [] payTo = "query" -> IF payload = "object" THEN "query" ELSE "error"
      [] payTo = "body" -> "body"
      [] OTHER -> "none"

\* send_response: the form of the answer under the return type.
ReturnForm(ret, status, body) ==
    CASE ret = "bin" -> "bytes"
      [] ret = "obj" /\ status = 204 -> "object"
      [] body = "binary" -> "bytes"
      [] ret = "obj" /\ body = "json" -> "value"
      [] OTHER -> "string"

CallBegins(cfgUrl, msgUrl, method, payTo, payload) ==
    /\ htRunning /\ htCall.at = "idle" /\ htCall.fed < HttpCalls
    /\ htCall' = IF GoodUrl(UrlFor(cfgUrl, msgUrl)) /\ BodyFor(method, payTo, payload) # "error"
                 THEN [htCall EXCEPT !.at = "sent", !.fed = @ + 1]
                 ELSE [htCall EXCEPT !.fed = @ + 1, !.silent = @ + 1]
    /\ UNCHANGED <<htReqs, htTable, htMsgs, htTold, htRunning>>

CallReturns(ret, status, body) ==
    /\ htCall.at = "sent"
    /\ htCall' = [htCall EXCEPT !.at = "idle", !.out = @ + 1, !.form = ReturnForm(ret, status, body)]
    /\ UNCHANGED <<htReqs, htTable, htMsgs, htTold, htRunning>>

\* A failed request: the message goes on with the error, unless senderr is set.
FetchFails(senderr) ==
    /\ htCall.at = "sent"
    /\ htCall' = IF senderr THEN [htCall EXCEPT !.at = "idle", !.silent = @ + 1]
                 ELSE [htCall EXCEPT !.at = "idle", !.out = @ + 1, !.form = "string"]
    /\ UNCHANGED <<htReqs, htTable, htMsgs, htTold, htRunning>>

CallStep ==
    \/ \E c \in {"", "http"}, m \in {"http", "bare", "other", "none"}, me \in {"get", "post"},
          q \in {"", "query", "body"}, p \in {"none", "object", "string"} : CallBegins(c, m, me, q, p)
    \/ \E r \in {"txt", "bin", "obj"}, s \in {200, 204}, b \in {"text", "json", "binary"} : CallReturns(r, s, b)
    \/ \E e \in BOOLEAN : FetchFails(e)

HttpNext ==
    \/ RequestComes \/ HttpStop \/ CallStep
    \/ \E r \in DOMAIN htReqs :
          \/ \E n \in 1..HttpCopies : RequestSent(r, n)
          \/ RequestWaits(r) \/ RequestNotSent(r) \/ HttpOut(r) \/ MessageDropped(r)
          \/ RequestAnswered(r) \/ RequestTimeout(r) \/ RequestStopped(r) \/ RequestEnds(r)

HttpSpec == HttpInit /\ [][HttpNext]_httpVars

---------------------------------------------------------------------------
(* Properties.                                                             *)

\* A socket gets an answer of the flow only when one http response was told that it was
\* sent, and no more than one is told so for one request, however copies of the message,
\* the timeout and the end of the flow interleave.  (Sent is not arrived: the select may
\* still take its timeout or the end of the flow.)  A request that has ended leaves no
\* handler, except one whose message could not be sent, or that the end of the flow cut
\* off; and http request has lost none of its messages without an error.
HttpAnswers ==
    /\ \A r \in DOMAIN htReqs :
          /\ htTold[r] <= 1
          /\ htReqs[r].answer = "response" => htTold[r] = 1
          /\ htReqs[r].at = "ended" /\ r \in htTable => htReqs[r].answer \in {"500", "closed"}
    /\ htCall.fed = htCall.out + htCall.silent + (IF htCall.at = "sent" THEN 1 ELSE 0)
=============================================================================
