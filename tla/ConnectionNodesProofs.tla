------------------------ MODULE ConnectionNodesProofs ------------------------
(***************************************************************************)
(* Proofs about the nodes that hold connections: http in, http response    *)
(* and http request (HttpNodes), tcp request, tcp in, tcp out and udp in   *)
(* (TcpNodes), the bacnet nodes (Bacnet), the database nodes (DbNodes) and *)
(* the modbus nodes (Modbus).  Each has its own inductive invariant and    *)
(* its own specification; nothing connects them.                           *)
(***************************************************************************)
EXTENDS HttpNodes, TcpNodes, Bacnet, DbNodes, Modbus, FiniteSetTheorems, SequenceTheorems, TLAPS

-----------------------------------------------------------------------------
(* HttpNodes.                                                               *)

HttpPlaces == {"registered", "sending", "waiting", "cleanup", "ended"}
HttpReplies == {"none", "400", "404", "500", "504", "closed", "response"}
HttpForms == {"none", "bytes", "object", "value", "string"}

(* One request: nothing is answered before the select is over; a http response that was
   told its answer was sent has taken the handler, and only then there is one. *)
AnswerInv(r) ==
  /\ htReqs[r].at \in {"registered", "sending", "waiting"} => htReqs[r].answer = "none"
  /\ htReqs[r].answer = "response" => htTold[r] = 1
  /\ htTold[r] = 0 \/ (htTold[r] = 1 /\ r \notin htTable)
  /\ (htReqs[r].at = "ended" /\ r \in htTable) => htReqs[r].answer \in {"500", "closed"}

CallTyped == htCall \in [at : {"idle", "sent"}, fed : Nat, out : Nat, silent : Nat, form : HttpForms]

HttpInv ==
  /\ htReqs \in Seq([at : HttpPlaces, answer : HttpReplies])
  /\ htTold \in Seq(Nat)
  /\ Len(htTold) = Len(htReqs)
  /\ htTable \subseteq 1 .. Len(htReqs)
  /\ \A r \in 1 .. Len(htReqs) : AnswerInv(r)
  /\ CallTyped
  /\ htCall.fed = htCall.out + htCall.silent + (IF htCall.at = "sent" THEN 1 ELSE 0)

(* The requests accepted so far and the answers told to them are indexed alike. *)
LEMMA HttpDomains ==
  ASSUME HttpInv
  PROVE  /\ Len(htReqs) \in Nat /\ DOMAIN htReqs = 1 .. Len(htReqs) /\ DOMAIN htTold = 1 .. Len(htReqs)
         /\ \A r \in 1 .. Len(htReqs) : htReqs[r] \in [at : HttpPlaces, answer : HttpReplies]
         /\ \A r \in 1 .. Len(htReqs) : htTold[r] \in Nat
BY LenProperties, ElementOfSeq DEF HttpInv

(* A step of one request: the others keep what they have, the handlers of
   the others too.                                                          *)
LEMMA RequestKeepsOthers ==
  ASSUME HttpInv, NEW r \in 1 .. Len(htReqs), NEW at \in HttpPlaces, NEW answer \in HttpReplies, NEW told \in Nat,
         SetReq(r, at, answer), htTold' = [htTold EXCEPT ![r] = told],
         htTable' \in {htTable, htTable \ {r}}, htCall' = htCall,
         at \in {"registered", "sending", "waiting"} => answer = "none",
         answer = "response" => told = 1,
         told = 0 \/ (told = 1 /\ r \notin htTable'),
         (at = "ended" /\ r \in htTable') => answer \in {"500", "closed"}
  PROVE  HttpInv'
<1> DEFINE rec == [at |-> at, answer |-> answer]
<1>1. rec \in [at : HttpPlaces, answer : HttpReplies] /\ rec.at = at /\ rec.answer = answer
  OBVIOUS
<1>2. htReqs' = [htReqs EXCEPT ![r] = rec]
  BY DEF SetReq
<1> HIDE DEF rec
<1>3. /\ htReqs' \in Seq([at : HttpPlaces, answer : HttpReplies]) /\ Len(htReqs') = Len(htReqs)
      /\ htReqs'[r] = rec /\ \A q \in 1 .. Len(htReqs) : q # r => htReqs'[q] = htReqs[q]
  BY <1>1, <1>2, HttpDomains, ExceptSeq DEF HttpInv
<1>4. /\ htTold' \in Seq(Nat) /\ Len(htTold') = Len(htTold)
      /\ htTold'[r] = told /\ \A q \in 1 .. Len(htReqs) : q # r => htTold'[q] = htTold[q]
  BY HttpDomains, ExceptSeq DEF HttpInv
<1>5. ASSUME NEW q \in 1 .. Len(htReqs) PROVE AnswerInv(q)'
  <2>1. CASE q = r
    BY <1>1, <1>3, <1>4, <2>1 DEF AnswerInv
  <2>2. CASE q # r
    <3>1. AnswerInv(q) /\ (q \in htTable' <=> q \in htTable)
      BY <2>2 DEF HttpInv
    <3>2. QED
      BY <1>3, <1>4, <2>2, <3>1 DEF AnswerInv
  <2>3. QED
    BY <2>1, <2>2
<1>6. htTable' \subseteq 1 .. Len(htReqs')
  BY <1>3 DEF HttpInv
<1>7. QED
  BY <1>3, <1>4, <1>5, <1>6 DEF HttpInv, CallTyped

(* handle_http_in accepts a request: its registry entry, if any, is the newest. *)
LEMMA RequestComesKeeps == ASSUME HttpInv, RequestComes PROVE HttpInv'
<1> DEFINE n == Len(htReqs) + 1
<1>1. PICK at \in HttpPlaces, answer \in HttpReplies :
        /\ htReqs' = Append(htReqs, [at |-> at, answer |-> answer])
        /\ htTable' \in {htTable, htTable \cup {n}}
        /\ at \in {"registered", "sending", "waiting"} => answer = "none"
        /\ answer # "response"
        /\ at = "ended" => htTable' = htTable
  <2>1. CASE htReqs' = Append(htReqs, [at |-> "registered", answer |-> "none"]) /\ htTable' = htTable \cup {n}
    BY <2>1 DEF HttpPlaces, HttpReplies
  <2>2. ASSUME NEW x \in {"400", "404"}, htReqs' = Append(htReqs, [at |-> "ended", answer |-> x]), htTable' = htTable
        PROVE  \E at \in HttpPlaces, answer \in HttpReplies :
                 /\ htReqs' = Append(htReqs, [at |-> at, answer |-> answer])
                 /\ htTable' \in {htTable, htTable \cup {n}}
                 /\ at \in {"registered", "sending", "waiting"} => answer = "none"
                 /\ answer # "response"
                 /\ at = "ended" => htTable' = htTable
    <3>1. x \in HttpReplies /\ "ended" \in HttpPlaces /\ x # "response"
      BY DEF HttpPlaces, HttpReplies
    <3>2. QED
      BY <2>2, <3>1
  <2>3. QED
    BY <2>1, <2>2 DEF RequestComes
<1>2. /\ Len(htReqs) \in Nat /\ Len(htTold) = Len(htReqs) /\ htTable \subseteq 1 .. Len(htReqs)
      /\ [at |-> at, answer |-> answer] \in [at : HttpPlaces, answer : HttpReplies]
  BY HttpDomains DEF HttpInv
<1>3. /\ htReqs' \in Seq([at : HttpPlaces, answer : HttpReplies]) /\ Len(htReqs') = n
      /\ htReqs'[n] = [at |-> at, answer |-> answer] /\ \A q \in 1 .. Len(htReqs) : htReqs'[q] = htReqs[q]
  BY <1>1, <1>2, AppendProperties DEF HttpInv
<1>4. /\ htTold' \in Seq(Nat) /\ Len(htTold') = n
      /\ htTold'[n] = 0 /\ \A q \in 1 .. Len(htReqs) : htTold'[q] = htTold[q]
  <2>1. htTold' = Append(htTold, 0) /\ htTold \in Seq(Nat)
    BY DEF RequestComes, HttpInv
  <2>2. QED
    BY <1>2, <2>1, AppendProperties
<1>5. ASSUME NEW q \in 1 .. n PROVE AnswerInv(q)'
  <2>1. CASE q = n
    <3>1. htReqs'[q].at = at /\ htReqs'[q].answer = answer /\ htTold'[q] = 0 /\ q \notin htTable
      BY <1>2, <1>3, <1>4, <2>1
    <3>2. QED
      BY <1>1, <3>1 DEF AnswerInv
  <2>2. CASE q # n
    <3>1. q \in 1 .. Len(htReqs) /\ (q \in htTable' <=> q \in htTable)
      BY <1>1, <1>2, <2>2
    <3>2. AnswerInv(q)
      BY <3>1 DEF HttpInv
    <3>3. QED
      BY <1>3, <1>4, <3>1, <3>2 DEF AnswerInv
  <2>3. QED
    BY <2>1, <2>2
<1>6. htTable' \subseteq 1 .. n /\ htCall' = htCall
  BY <1>1, <1>2 DEF RequestComes
<1>7. QED
  BY <1>3, <1>4, <1>5, <1>6 DEF HttpInv, CallTyped

(* The http request node starts, ends or fails a call: each message fed to it stays counted. *)
LEMMA CallMoves ==
  ASSUME HttpInv, NEW at \in {"idle", "sent"}, NEW fed \in Nat, NEW out \in Nat, NEW silent \in Nat,
         NEW form \in HttpForms, UNCHANGED <<htReqs, htTable, htTold>>,
         htCall' = [at |-> at, fed |-> fed, out |-> out, silent |-> silent, form |-> form],
         fed = out + silent + (IF at = "sent" THEN 1 ELSE 0)
  PROVE  HttpInv'
<1>1. CallTyped' /\ htCall'.fed = htCall'.out + htCall'.silent + (IF htCall'.at = "sent" THEN 1 ELSE 0)
  BY DEF CallTyped
<1>2. QED
  BY <1>1 DEF HttpInv, AnswerInv

(* The call http request has under way is in `sent`, the others are counted. *)
LEMMA CallKeeps == ASSUME HttpInv, CallStep PROVE HttpInv'
<1> DEFINE fed == htCall.fed
           out == htCall.out
           silent == htCall.silent
           form == htCall.form
<1>1. /\ htCall = [at |-> htCall.at, fed |-> fed, out |-> out, silent |-> silent, form |-> form]
      /\ htCall.at \in {"idle", "sent"} /\ fed \in Nat /\ out \in Nat /\ silent \in Nat /\ form \in HttpForms
      /\ fed = out + silent + (IF htCall.at = "sent" THEN 1 ELSE 0)
      /\ htCall.fed = fed /\ htCall.out = out /\ htCall.silent = silent /\ htCall.form = form
  BY DEF HttpInv, CallTyped
<1> HIDE DEF fed, out, silent, form
<1>2. "string" \in HttpForms /\ fed + 1 \in Nat /\ out + 1 \in Nat /\ silent + 1 \in Nat
  BY <1>1 DEF HttpForms
<1>3. ASSUME NEW c, NEW m, NEW me, NEW q, NEW p, CallBegins(c, m, me, q, p) PROVE HttpInv'
  <2>1. /\ UNCHANGED <<htReqs, htTable, htTold>> /\ htCall.at = "idle" /\ fed + 1 = out + silent + 1
        /\ fed + 1 = out + (silent + 1) + 0
    BY <1>1, <1>3 DEF CallBegins
  <2>2. CASE htCall' = [htCall EXCEPT !.at = "sent", !.fed = @ + 1]
    <3>1. htCall' = [at |-> "sent", fed |-> fed + 1, out |-> out, silent |-> silent, form |-> form]
      BY <1>1, <2>2
    <3>2. QED
      BY <1>1, <1>2, <2>1, <3>1, CallMoves
  <2>3. CASE htCall' = [htCall EXCEPT !.fed = @ + 1, !.silent = @ + 1]
    <3>1. htCall' = [at |-> "idle", fed |-> fed + 1, out |-> out, silent |-> silent + 1, form |-> form]
      BY <1>1, <2>1, <2>3
    <3>2. QED
      BY <1>1, <1>2, <2>1, <3>1, CallMoves
  <2>4. QED
    BY <1>3, <2>2, <2>3 DEF CallBegins
<1>4. ASSUME NEW r, NEW s, NEW b, CallReturns(r, s, b) PROVE HttpInv'
  <2>1. UNCHANGED <<htReqs, htTable, htTold>> /\ htCall.at = "sent" /\ fed = (out + 1) + silent + 0
    BY <1>1, <1>4 DEF CallReturns
  <2>2. htCall' = [htCall EXCEPT !.at = "idle", !.out = @ + 1, !.form = ReturnForm(r, s, b)]
    BY <1>4 DEF CallReturns
  <2>3. ReturnForm(r, s, b) \in HttpForms
    BY DEF ReturnForm, HttpForms
  <2>4. htCall' = [at |-> "idle", fed |-> fed, out |-> out + 1, silent |-> silent, form |-> ReturnForm(r, s, b)]
    BY <1>1, <2>2
  <2>5. QED
    BY <1>1, <1>2, <2>1, <2>3, <2>4, CallMoves
<1>5. ASSUME NEW e, FetchFails(e) PROVE HttpInv'
  <2>1. /\ UNCHANGED <<htReqs, htTable, htTold>> /\ htCall.at = "sent"
        /\ fed = (out + 1) + silent + 0 /\ fed = out + (silent + 1) + 0
    BY <1>1, <1>5 DEF FetchFails
  <2>2. CASE htCall' = [htCall EXCEPT !.at = "idle", !.silent = @ + 1]
    <3>1. htCall' = [at |-> "idle", fed |-> fed, out |-> out, silent |-> silent + 1, form |-> form]
      BY <1>1, <2>2
    <3>2. QED
      BY <1>1, <1>2, <2>1, <3>1, CallMoves
  <2>3. CASE htCall' = [htCall EXCEPT !.at = "idle", !.out = @ + 1, !.form = "string"]
    <3>1. htCall' = [at |-> "idle", fed |-> fed, out |-> out + 1, silent |-> silent, form |-> "string"]
      BY <1>1, <2>3
    <3>2. QED
      BY <1>1, <1>2, <2>1, <3>1, CallMoves
  <2>4. QED
    BY <1>5, <2>2, <2>3 DEF FetchFails
<1>6. QED
  BY <1>3, <1>4, <1>5 DEF CallStep

(* Every step of the http in, response and request nodes keeps the invariant. *)
LEMMA HttpStep == ASSUME HttpInv, [HttpNext]_httpVars PROVE HttpInv'
<1>1. ASSUME UNCHANGED <<htReqs, htTable, htTold, htCall>> PROVE HttpInv'
  BY <1>1 DEF HttpInv, AnswerInv, CallTyped
<1>2. ASSUME NEW r \in 1 .. Len(htReqs),
             \/ \E n \in 1 .. HttpCopies : RequestSent(r, n)
             \/ RequestWaits(r) \/ RequestNotSent(r) \/ RequestAnswered(r) \/ RequestTimeout(r)
             \/ RequestStopped(r) \/ RequestEnds(r) \/ HttpOut(r)
      PROVE  HttpInv'
  <2>1. /\ AnswerInv(r) /\ htReqs[r].at \in HttpPlaces /\ htReqs[r].answer \in HttpReplies
        /\ htTold[r] \in Nat
        /\ htTold = [htTold EXCEPT ![r] = htTold[r]]
    BY HttpDomains DEF HttpInv
  <2>2. /\ \A x \in {"registered", "sending", "waiting", "cleanup", "ended"} : x \in HttpPlaces
        /\ \A x \in {"none", "500", "504", "closed", "response"} : x \in HttpReplies
    BY DEF HttpPlaces, HttpReplies
  <2>3. ASSUME NEW at \in HttpPlaces, NEW answer \in HttpReplies, SetReq(r, at, answer), htTold' = htTold,
               htTable' \in {htTable, htTable \ {r}}, htCall' = htCall,
               at \in {"registered", "sending", "waiting"} => answer = "none",
               answer = "response" => htTold[r] = 1,
               (at = "ended" /\ r \in htTable') => answer \in {"500", "closed"}
        PROVE  HttpInv'
    <3>1. htTold[r] = 0 \/ (htTold[r] = 1 /\ r \notin htTable')
      BY <2>1, <2>3 DEF AnswerInv
    <3>2. htTold' = [htTold EXCEPT ![r] = htTold[r]]
      BY <2>1, <2>3
    <3>3. QED
      BY <2>1, <2>3, <3>1, <3>2, RequestKeepsOthers
  <2>4. CASE \E n \in 1 .. HttpCopies : RequestSent(r, n)
    <3>1. SetReq(r, "sending", "none") /\ UNCHANGED <<htTold, htTable, htCall>>
      BY <2>4 DEF RequestSent
    <3>2. QED
      BY <2>2, <2>3, <3>1
  <2>5. CASE RequestWaits(r)
    <3>1. SetReq(r, "waiting", "none") /\ UNCHANGED <<htTold, htTable, htCall>>
      BY <2>5 DEF RequestWaits
    <3>2. QED
      BY <2>2, <2>3, <3>1
  <2>6. CASE RequestNotSent(r)
    <3>1. SetReq(r, "ended", "500") /\ UNCHANGED <<htTold, htTable, htCall>>
      BY <2>6 DEF RequestNotSent
    <3>2. QED
      BY <2>2, <2>3, <3>1
  <2>7. CASE RequestTimeout(r)
    <3>1. SetReq(r, "cleanup", "504") /\ UNCHANGED <<htTold, htTable, htCall>>
      BY <2>7 DEF RequestTimeout
    <3>2. QED
      BY <2>2, <2>3, <3>1
  <2>8. CASE RequestStopped(r)
    <3>1. SetReq(r, "ended", "closed") /\ UNCHANGED <<htTold, htTable, htCall>>
      BY <2>8 DEF RequestStopped
    <3>2. QED
      BY <2>2, <2>3, <3>1
  <2>9. CASE RequestAnswered(r)
    <3>1. SetReq(r, "cleanup", "response") /\ UNCHANGED <<htTold, htTable, htCall>> /\ htTold[r] > 0
      BY <2>9 DEF RequestAnswered
    <3>2. htTold[r] = 1
      BY <2>1, <3>1 DEF AnswerInv
    <3>3. QED
      BY <2>2, <2>3, <3>1, <3>2
  <2>10. CASE RequestEnds(r)
    <3>1. SetReq(r, "ended", htReqs[r].answer) /\ UNCHANGED <<htTold, htCall>> /\ htTable' = htTable \ {r}
      BY <2>10 DEF RequestEnds, Cleanup
    <3>2. htReqs[r].answer = "response" => htTold[r] = 1
      BY <2>1 DEF AnswerInv
    <3>3. QED
      BY <2>1, <2>2, <2>3, <3>1, <3>2
  <2>11. CASE HttpOut(r)
    <3>1. /\ htReqs' = htReqs /\ htCall' = htCall /\ htTable' = htTable \ {r}
          /\ htTold' = IF r \in htTable /\ HasReceiver(r) THEN [htTold EXCEPT ![r] = htTold[r] + 1] ELSE htTold
      BY <2>11 DEF HttpOut
    <3>2. SetReq(r, htReqs[r].at, htReqs[r].answer)
      <4>1. htReqs[r] = [at |-> htReqs[r].at, answer |-> htReqs[r].answer]
        BY HttpDomains
      <4>2. htReqs = [htReqs EXCEPT ![r] = htReqs[r]]
        BY HttpDomains DEF HttpInv
      <4>3. QED
        BY <3>1, <4>1, <4>2 DEF SetReq
    <3>3. /\ htReqs[r].at \in {"registered", "sending", "waiting"} => htReqs[r].answer = "none"
          /\ htReqs[r].answer = "response" => htTold[r] = 1
      BY <2>1 DEF AnswerInv
    <3>4. r \notin htTable' /\ htTable' \in {htTable, htTable \ {r}}
      BY <3>1
    <3>5. CASE r \in htTable /\ HasReceiver(r)
      <4>1. htTold[r] = 0
        BY <2>1, <3>5 DEF AnswerInv
      <4>2. htTold' = [htTold EXCEPT ![r] = 1] /\ htReqs[r].answer # "response"
        BY <3>1, <3>3, <3>5, <4>1
      <4>3. QED
        BY <2>1, <3>1, <3>2, <3>3, <3>4, <4>2, RequestKeepsOthers
    <3>6. CASE ~(r \in htTable /\ HasReceiver(r))
      BY <2>1, <2>3, <3>1, <3>2, <3>3, <3>4, <3>6
    <3>7. QED
      BY <3>5, <3>6
  <2>12. QED
    BY <1>2, <2>4, <2>5, <2>6, <2>7, <2>8, <2>9, <2>10, <2>11
<1>3. ASSUME NEW r \in 1 .. Len(htReqs), MessageDropped(r) PROVE HttpInv'
  BY <1>1, <1>3 DEF MessageDropped
<1>4. CASE HttpStop \/ UNCHANGED httpVars
  BY <1>1, <1>4 DEF HttpStop, httpVars
<1>5. DOMAIN htReqs = 1 .. Len(htReqs)
  BY HttpDomains
<1>6. QED
  BY <1>2, <1>3, <1>4, <1>5, RequestComesKeeps, CallKeeps DEF HttpNext

(* For any number of requests: a socket gets the flow's answer only when one response
   node was told so, and an entry left in the registry after its handler ended is one
   whose request failed or was closed. *)
THEOREM HttpInvHolds == HttpSpec => []HttpInv
<1>1. HttpInit => HttpInv
  <2> SUFFICES ASSUME HttpInit PROVE HttpInv
    OBVIOUS
  <2>1. Len(htReqs) = 0 /\ Len(htTold) = 0 /\ htTable = {}
    BY DEF HttpInit
  <2>2. CallTyped /\ htCall.fed = htCall.out + htCall.silent + (IF htCall.at = "sent" THEN 1 ELSE 0)
    BY DEF HttpInit, CallTyped, HttpForms
  <2>3. htReqs \in Seq([at : HttpPlaces, answer : HttpReplies]) /\ htTold \in Seq(Nat)
    BY DEF HttpInit
  <2>4. QED
    BY <2>1, <2>2, <2>3 DEF HttpInv
<1>2. HttpInv /\ [HttpNext]_httpVars => HttpInv'
  BY HttpStep
<1>3. QED
  BY <1>1, <1>2, PTL DEF HttpSpec

(* However copies of a message, its timeout and the end of the flow interleave, the
   answer lying in the channel meanwhile: at most one http response is told that its
   answer was sent, a socket gets the flow's answer only then, and no handler is left
   behind but that of a request that failed or was cut off.                 *)
THEOREM HttpIsAnswered == HttpSpec => []HttpAnswers
<1>1. HttpInv => HttpAnswers
  <2> SUFFICES ASSUME HttpInv PROVE HttpAnswers
    OBVIOUS
  <2>1. DOMAIN htReqs = 1 .. Len(htReqs)
    BY HttpDomains
  <2>2. QED
    BY <2>1 DEF HttpInv, AnswerInv, HttpAnswers
<1>2. QED
  BY <1>1, HttpInvHolds, PTL
-----------------------------------------------------------------------------
(* TcpNodes: tcp request.                                                   *)

TcpOutcomes == {"arriving", "waiting", "dropped", "failed", "merged", "answered"}
TcpPlaces == {"idle", "busy", "ended", "broken"}
TcpWorker == [queue : Seq(Nat), batch : Seq(Nat), at : TcpPlaces]

(* The message is in the worker's channel or in what it works on.           *)
Holds(worker, m) == m \in Range(worker.queue) \cup Range(worker.batch)

(* It will still be read, or was behind a batch that failed on a connection that stays. *)
Kept(worker, m) ==
  worker.at # "ended" /\ (worker.at = "broken" => tcpPart = "sit") /\ Holds(worker, m)

(* What an idle worker would still work on is in its channel only: it may end
   when that is empty.                                                      *)
GetInv ==
  /\ getOutcome \in Seq(TcpOutcomes)
  /\ getWorkers \in Seq(TcpWorker)
  /\ getEntry \in 0 .. Len(getWorkers)
  /\ getEntry # 0 => getWorkers[getEntry].at \notin Gone
  /\ \A w \in 1 .. Len(getWorkers) : getWorkers[w].at = "idle" => getWorkers[w].batch = <<>>
  /\ \A m \in 1 .. Len(getOutcome) : getOutcome[m] = "waiting" =>
       \E w \in 1 .. Len(getWorkers) : Kept(getWorkers[w], m)

(* The workers and the outcomes of the tcp request node are indexed from 1.  *)
LEMMA GetDomains ==
  ASSUME GetInv
  PROVE  /\ Len(getWorkers) \in Nat /\ DOMAIN getWorkers = 1 .. Len(getWorkers)
         /\ Len(getOutcome) \in Nat /\ DOMAIN getOutcome = 1 .. Len(getOutcome)
         /\ \A w \in 1 .. Len(getWorkers) : getWorkers[w] \in TcpWorker
         /\ \A m \in 1 .. Len(getOutcome) : getOutcome[m] \in TcpOutcomes
BY LenProperties, ElementOfSeq DEF GetInv

(* A step of worker w that no message is lost in, or one gets its place with it. *)
LEMMA WorkerKeeps ==
  ASSUME GetInv, NEW w \in 1 .. Len(getWorkers), NEW rec \in TcpWorker,
         getWorkers' = [getWorkers EXCEPT ![w] = rec], tcpPart' = tcpPart,
         getEntry' \in {0, getEntry}, rec.at \in Gone => getEntry' # w,
         getOutcome' \in Seq(TcpOutcomes), Len(getOutcome') = Len(getOutcome),
         rec.at = "idle" => rec.batch = <<>>,
         \A m \in 1 .. Len(getOutcome) : getOutcome'[m] = "waiting" =>
           \/ getOutcome[m] = "waiting" /\ (Kept(getWorkers[w], m) => Kept(rec, m))
           \/ Kept(rec, m)
  PROVE  GetInv'
<1>1. /\ getWorkers' \in Seq(TcpWorker) /\ Len(getWorkers') = Len(getWorkers) /\ getWorkers'[w] = rec
      /\ \A v \in 1 .. Len(getWorkers) : v # w => getWorkers'[v] = getWorkers[v]
  BY GetDomains, ExceptSeq DEF GetInv
<1>2. \A v \in 1 .. Len(getWorkers') : getWorkers'[v].at = "idle" => getWorkers'[v].batch = <<>>
  BY <1>1 DEF GetInv
<1>3. ASSUME NEW m \in 1 .. Len(getOutcome), getOutcome'[m] = "waiting"
      PROVE  \E v \in 1 .. Len(getWorkers') : Kept(getWorkers'[v], m)
  <2>1. CASE Kept(rec, m)
    BY <1>1, <2>1
  <2>2. CASE ~Kept(rec, m)
    <3>1. PICK v \in 1 .. Len(getWorkers) : Kept(getWorkers[v], m)
      BY <1>3, <2>2 DEF GetInv
    <3>2. v # w
      BY <1>3, <2>2, <3>1
    <3>3. QED
      BY <1>1, <3>1, <3>2
  <2>3. QED
    BY <2>1, <2>2
<1>4. getEntry' \in 0 .. Len(getWorkers') /\ (getEntry' # 0 => getWorkers'[getEntry'].at \notin Gone)
  BY <1>1, GetDomains DEF GetInv
<1>5. \A m \in 1 .. Len(getOutcome') : getOutcome'[m] = "waiting" =>
        \E v \in 1 .. Len(getWorkers') : Kept(getWorkers[v], m)'
  BY <1>3 DEF Kept, Holds
<1>6. QED
  BY <1>1, <1>2, <1>4, <1>5 DEF GetInv, Gone

(* A worker record with some fields changed.                                *)
LEMMA WorkerFields ==
  ASSUME NEW worker \in TcpWorker, NEW at \in TcpPlaces
  PROVE  /\ worker.queue \in Seq(Nat) /\ worker.batch \in Seq(Nat) /\ worker.at \in TcpPlaces
         /\ [worker EXCEPT !.at = at] \in TcpWorker /\ [worker EXCEPT !.at = at].at = at
         /\ [worker EXCEPT !.at = at].queue = worker.queue /\ [worker EXCEPT !.at = at].batch = worker.batch
         /\ [queue |-> <<>>, batch |-> worker.queue, at |-> at] \in TcpWorker
<1>1. <<>> \in Seq(Nat)
  BY EmptySeq
<1>2. QED
  BY <1>1 DEF TcpWorker

(* A change to the queue of a worker leaves its batch and its place alone.   *)
LEMMA WorkerQueue ==
  ASSUME NEW worker \in TcpWorker, NEW q \in Seq(Nat)
  PROVE  /\ [worker EXCEPT !.queue = q] \in TcpWorker /\ [worker EXCEPT !.queue = q].queue = q
         /\ [worker EXCEPT !.queue = q].batch = worker.batch /\ [worker EXCEPT !.queue = q].at = worker.at
BY DEF TcpWorker

(* SetAll settles the messages of a batch and leaves the others.            *)
LEMMA Settles ==
  ASSUME GetInv, NEW batch, NEW o \in TcpOutcomes, o # "waiting"
  PROVE  /\ SetAll(batch, o) \in Seq(TcpOutcomes) /\ Len(SetAll(batch, o)) = Len(getOutcome)
         /\ DOMAIN SetAll(batch, o) = 1 .. Len(getOutcome)
         /\ \A m \in 1 .. Len(getOutcome) : SetAll(batch, o)[m] = "waiting" =>
              getOutcome[m] = "waiting" /\ m \notin Range(batch)
<1> DEFINE s == SetAll(batch, o)
<1>1. s \in [1 .. Len(getOutcome) -> TcpOutcomes] /\ Len(getOutcome) \in Nat
  BY GetDomains DEF SetAll
<1>2. s \in Seq(TcpOutcomes) /\ DOMAIN s = 1 .. Len(getOutcome)
  <2> HIDE DEF s
  <2>1. QED
    BY <1>1, SeqDef
<1>3. Len(s) = Len(getOutcome)
  <2> HIDE DEF s
  <2>1. DOMAIN s = 1 .. Len(s) /\ Len(s) \in Nat
    BY <1>2, LenProperties
  <2>2. QED
    BY <1>1, <1>2, <2>1
<1>4. \A m \in 1 .. Len(getOutcome) : s[m] = "waiting" => getOutcome[m] = "waiting" /\ m \notin Range(batch)
  BY GetDomains DEF SetAll, Range
<1>5. QED
  BY <1>2, <1>3, <1>4

(* A new worker is idle and holds nothing.                                  *)
LEMMA WorkerIsNew == NewWorker \in TcpWorker /\ NewWorker.at = "idle" /\ NewWorker.batch = <<>>
<1>1. <<>> \in Seq(Nat)
  BY EmptySeq
<1>2. QED
  BY <1>1 DEF NewWorker, TcpWorker, TcpPlaces

(* What the channel of a worker holds after a message was added to it.       *)
LEMMA Queued ==
  ASSUME NEW q \in Seq(Nat), NEW n \in Nat
  PROVE  Append(q, n) \in Seq(Nat) /\ Range(Append(q, n)) = Range(q) \cup {n}
<1> DEFINE r == Append(q, n)
<1>1. /\ r \in Seq(Nat) /\ Len(r) = Len(q) + 1 /\ Len(q) \in Nat
      /\ r[Len(q) + 1] = n /\ \A i \in 1 .. Len(q) : r[i] = q[i]
  BY AppendProperties, LenProperties
<1>2. DOMAIN r = 1 .. Len(r) /\ DOMAIN q = 1 .. Len(q)
  BY <1>1, LenProperties
<1> HIDE DEF r
<1>3. \A i \in 1 .. Len(r) : i \in 1 .. Len(q) \/ i = Len(q) + 1
  BY <1>1
<1>4. \A x : x \in Range(r) => x \in Range(q) \cup {n}
  BY <1>1, <1>2, <1>3 DEF Range
<1>5. \A i \in 1 .. Len(q) + 1 : i \in 1 .. Len(r)
  BY <1>1
<1>6. Len(q) + 1 \in 1 .. Len(r) /\ \A i \in 1 .. Len(q) : i \in 1 .. Len(r)
  BY <1>1
<1>7. n \in Range(r)
  BY <1>1, <1>2, <1>6 DEF Range
<1>8. \A x : x \in Range(q) => x \in Range(r)
  BY <1>1, <1>2, <1>6 DEF Range
<1>9. Range(r) = Range(q) \cup {n}
  BY <1>4, <1>7, <1>8
<1>10. QED
  BY <1>1, <1>9 DEF r

(* A message is handed to the worker in the table, or to a new one.          *)
LEMMA GetMessageKeeps == ASSUME GetInv, GetMessage PROVE GetInv'
<1> DEFINE n == Len(getOutcome) + 1
           ws == IF getEntry = 0 THEN Append(getWorkers, NewWorker) ELSE getWorkers
           w == IF getEntry = 0 THEN Len(ws) ELSE getEntry
<1>1. /\ tcpPart' = tcpPart /\ getEntry' = w
      /\ \/ /\ ws[w].at \notin Gone /\ getWorkers' = [ws EXCEPT ![w].queue = Append(@, n)]
            /\ getOutcome' = Append(getOutcome, "waiting")
         \/ getWorkers' = ws /\ getOutcome' = Append(getOutcome, "dropped")
  BY DEF GetMessage, GetPart, Accepts
<1>2. NewWorker \in TcpWorker /\ NewWorker.at = "idle" /\ NewWorker.batch = <<>>
  BY WorkerIsNew
<1>3. /\ ws \in Seq(TcpWorker) /\ w \in 1 .. Len(ws) /\ Len(ws) \in Nat /\ Len(getWorkers) <= Len(ws)
      /\ \A v \in 1 .. Len(getWorkers) : ws[v] = getWorkers[v]
      /\ \A v \in 1 .. Len(ws) : ws[v].at = "idle" => ws[v].batch = <<>>
      /\ ws[w].at \notin Gone
  <2>1. CASE getEntry = 0
    <3>1. /\ ws = Append(getWorkers, NewWorker) /\ w = Len(ws)
          /\ ws \in Seq(TcpWorker) /\ Len(ws) = Len(getWorkers) + 1 /\ ws[Len(getWorkers) + 1] = NewWorker
          /\ \A v \in 1 .. Len(getWorkers) : ws[v] = getWorkers[v]
      BY <1>2, <2>1, AppendProperties DEF GetInv
    <3>2. \A v \in 1 .. Len(getWorkers) + 1 : v \in 1 .. Len(getWorkers) \/ v = Len(getWorkers) + 1
      BY GetDomains
    <3> HIDE DEF ws, w
    <3>3. QED
      BY <1>2, <3>1, <3>2, GetDomains DEF GetInv, Gone
  <2>2. CASE getEntry # 0
    <3>1. ws = getWorkers /\ w = getEntry
      BY <2>2
    <3> HIDE DEF ws, w
    <3>2. QED
      BY <2>2, <3>1, GetDomains DEF GetInv
  <2>3. QED
    BY <2>1, <2>2
<1> HIDE DEF ws, w
<1>4. ASSUME NEW o \in TcpOutcomes, getOutcome' = Append(getOutcome, o)
      PROVE  /\ getOutcome' \in Seq(TcpOutcomes) /\ Len(getOutcome') = n /\ getOutcome'[n] = o
             /\ \A m \in 1 .. Len(getOutcome') : m \in 1 .. Len(getOutcome) \/ m = n
             /\ \A m \in 1 .. Len(getOutcome) : getOutcome'[m] = getOutcome[m]
  <2>1. getOutcome \in Seq(TcpOutcomes)
    BY DEF GetInv
  <2>2. /\ getOutcome' \in Seq(TcpOutcomes) /\ Len(getOutcome') = n /\ getOutcome'[n] = o
        /\ \A m \in 1 .. Len(getOutcome) : getOutcome'[m] = getOutcome[m]
    BY <1>4, <2>1, AppendProperties
  <2>3. QED
    BY <2>2, GetDomains
<1>5. "waiting" \in TcpOutcomes /\ "dropped" \in TcpOutcomes
  BY DEF TcpOutcomes
<1>6. CASE getWorkers' = ws /\ getOutcome' = Append(getOutcome, "dropped")
  <2>1. getEntry' \in 0 .. Len(getWorkers') /\ getWorkers'[getEntry'].at \notin Gone
    BY <1>1, <1>3, <1>6
  <2>2. ASSUME NEW m \in 1 .. Len(getOutcome'), getOutcome'[m] = "waiting"
        PROVE  \E v \in 1 .. Len(getWorkers') : Kept(getWorkers'[v], m)
    <3>1. m \in 1 .. Len(getOutcome) /\ getOutcome[m] = "waiting"
      BY <1>4, <1>5, <1>6, <2>2
    <3>2. PICK v \in 1 .. Len(getWorkers) : Kept(getWorkers[v], m)
      BY <2>2, <3>1 DEF GetInv
    <3>3. v \in 1 .. Len(getWorkers') /\ getWorkers'[v] = getWorkers[v]
      BY <1>3, <1>6, GetDomains
    <3>4. QED
      BY <3>2, <3>3
  <2>3. QED
    BY <1>1, <1>3, <1>4, <1>5, <1>6, <2>1, <2>2 DEF GetInv, Kept, Holds
<1>7. CASE /\ ws[w].at \notin Gone /\ getWorkers' = [ws EXCEPT ![w].queue = Append(@, n)]
           /\ getOutcome' = Append(getOutcome, "waiting")
  <2> DEFINE queue == Append(ws[w].queue, n)
             rec == [ws[w] EXCEPT !.queue = queue]
  <2>1. ws[w] \in TcpWorker /\ ws[w].queue \in Seq(Nat) /\ n \in Nat
    <3>1. ws[w] \in TcpWorker
      BY <1>3, ElementOfSeq
    <3>2. ws[w].queue \in Seq(Nat)
      BY <3>1 DEF TcpWorker
    <3>3. QED
      BY <3>1, <3>2, GetDomains
  <2>2. queue \in Seq(Nat) /\ Range(queue) = Range(ws[w].queue) \cup {n}
    BY <2>1, Queued
  <2>3. Range(queue) = Range(ws[w].queue) \cup {n}
    BY <2>2
  <2> HIDE DEF queue
  <2>4. rec \in TcpWorker /\ rec.queue = queue /\ rec.batch = ws[w].batch /\ rec.at = ws[w].at
    BY <2>1, <2>2, WorkerQueue
  <2>5. getWorkers' = [ws EXCEPT ![w] = rec]
    BY <1>7 DEF queue
  <2> HIDE DEF rec
  <2>6. /\ getWorkers' \in Seq(TcpWorker) /\ Len(getWorkers') = Len(ws) /\ getWorkers'[w] = rec
        /\ \A v \in 1 .. Len(ws) : v # w => getWorkers'[v] = ws[v]
    BY <1>3, <2>4, <2>5, ExceptSeq
  <2>7. \A v \in 1 .. Len(getWorkers') : getWorkers'[v].at = "idle" => getWorkers'[v].batch = <<>>
    BY <1>3, <2>4, <2>6
  <2>8. ASSUME NEW m \in 1 .. Len(getOutcome'), getOutcome'[m] = "waiting"
        PROVE  \E v \in 1 .. Len(getWorkers') : Kept(getWorkers'[v], m)
    <3>1. CASE m = n
      <4>1. Kept(getWorkers'[w], m)
        BY <1>7, <2>3, <2>4, <2>6, <3>1 DEF Kept, Holds, Gone
      <4>2. QED
        BY <1>3, <2>6, <4>1
    <3>2. CASE m \in 1 .. Len(getOutcome)
      <4>1. getOutcome[m] = "waiting"
        BY <1>4, <1>5, <1>7, <2>8, <3>2
      <4>2. PICK v \in 1 .. Len(getWorkers) : Kept(getWorkers[v], m)
        BY <2>8, <3>2, <4>1 DEF GetInv
      <4>3. v \in 1 .. Len(ws) /\ ws[v] = getWorkers[v]
        BY <1>3, GetDomains
      <4>4. Kept(getWorkers'[v], m)
        BY <2>3, <2>4, <2>6, <4>2, <4>3 DEF Kept, Holds, Gone
      <4>5. QED
        BY <2>6, <4>3, <4>4
    <3>3. QED
      BY <1>4, <1>5, <1>7, <3>1, <3>2
  <2>9. getEntry' \in 0 .. Len(getWorkers') /\ getWorkers'[getEntry'].at \notin Gone
    BY <1>1, <1>3, <2>4, <2>6
  <2>10. QED
    BY <1>1, <1>4, <1>5, <1>7, <2>6, <2>7, <2>8, <2>9 DEF GetInv, Kept, Holds
<1>8. QED
  BY <1>1, <1>6, <1>7

(* A worker takes, answers, fails or ends: what it held gets an outcome.     *)
LEMMA WorkerStepKeeps ==
  ASSUME GetInv, NEW w \in 1 .. Len(getWorkers),
         WorkerTake(w) \/ WorkerFails(w) \/ WorkerEnds(w)
           \/ \E a \in {"whole", "split", "empty"} : WorkerAnswers(w, a)
  PROVE  GetInv'
<1>1. /\ getWorkers[w] \in TcpWorker /\ tcpPart' = tcpPart /\ Len(getOutcome) \in Nat
      /\ \A at \in {"idle", "busy", "ended", "broken"} : at \in TcpPlaces
      /\ "failed" \in TcpOutcomes /\ "merged" \in TcpOutcomes /\ "answered" \in TcpOutcomes
  BY GetDomains DEF WorkerTake, WorkerFails, WorkerEnds, WorkerAnswers, GetPart, TcpOutcomes, TcpPlaces
<1>2. Range(<<>>) = {}
  BY DEF Range
<1>3. CASE WorkerTake(w)
  <2> DEFINE rec == [queue |-> <<>>, batch |-> getWorkers[w].queue, at |-> "busy"]
  <2>1. /\ getWorkers' = [getWorkers EXCEPT ![w] = rec] /\ getOutcome' = getOutcome /\ getEntry' = getEntry
        /\ getWorkers[w].at = "idle"
    BY <1>3 DEF WorkerTake
  <2>2. rec \in TcpWorker /\ rec.queue = <<>> /\ rec.batch = getWorkers[w].queue /\ rec.at = "busy"
    BY <1>1, WorkerFields
  <2>3. getWorkers[w].batch = <<>>
    BY <2>1 DEF GetInv
  <2> HIDE DEF rec
  <2>4. \A m : Kept(getWorkers[w], m) => Kept(rec, m)
    BY <1>2, <2>2, <2>3 DEF Kept, Holds
  <2>5. getOutcome' \in Seq(TcpOutcomes) /\ Len(getOutcome') = Len(getOutcome) /\ rec.at \notin Gone
    BY <2>1, <2>2 DEF GetInv, Gone
  <2>6. QED
    BY <1>1, <2>1, <2>2, <2>4, <2>5, WorkerKeeps
<1>4. CASE WorkerFails(w)
  <2> DEFINE rec == [getWorkers[w] EXCEPT !.batch = <<>>, !.at = AfterFailure(w)]
  <2>1. /\ getWorkers' = [getWorkers EXCEPT ![w] = rec] /\ getEntry' = 0
        /\ getOutcome' = SetAll(getWorkers[w].batch, "failed")
    BY <1>4 DEF WorkerFails
  <2>2. /\ AfterFailure(w) \in {"idle", "broken"} /\ (AfterFailure(w) = "broken" => tcpPart = "sit")
    BY DEF AfterFailure
  <2>3. rec \in TcpWorker /\ rec.queue = getWorkers[w].queue /\ rec.batch = <<>> /\ rec.at = AfterFailure(w)
    <3>1. <<>> \in Seq(Nat)
      BY EmptySeq
    <3>2. QED
      BY <1>1, <2>2, <3>1 DEF TcpWorker, TcpPlaces
  <2> HIDE DEF rec
  <2>4. /\ getOutcome' \in Seq(TcpOutcomes) /\ Len(getOutcome') = Len(getOutcome)
        /\ \A m \in 1 .. Len(getOutcome) : getOutcome'[m] = "waiting" =>
              getOutcome[m] = "waiting" /\ m \notin Range(getWorkers[w].batch)
    BY <1>1, <2>1, Settles
  <2>5. \A m \in 1 .. Len(getOutcome) : getOutcome'[m] = "waiting" =>
           getOutcome[m] = "waiting" /\ (Kept(getWorkers[w], m) => Kept(rec, m))
    BY <2>2, <2>3, <2>4 DEF Kept, Holds
  <2>6. getEntry' # w
    BY <2>1
  <2>7. QED
    BY <1>1, <2>1, <2>3, <2>4, <2>5, <2>6, WorkerKeeps
<1>5. CASE WorkerEnds(w)
  <2> DEFINE rec == [getWorkers[w] EXCEPT !.at = "ended"]
  <2>1. /\ getWorkers' = [getWorkers EXCEPT ![w] = rec] /\ getEntry' \in {0, getEntry} /\ getOutcome' = getOutcome
        /\ getWorkers[w].at = "idle" /\ getWorkers[w].queue = <<>> /\ getEntry' # w
    BY <1>5 DEF WorkerEnds
  <2>2. rec \in TcpWorker /\ rec.at = "ended"
    BY <1>1, WorkerFields
  <2> HIDE DEF rec
  <2>3. getWorkers[w].batch = <<>>
    BY <2>1 DEF GetInv
  <2>4. \A m : ~Kept(getWorkers[w], m)
    BY <1>2, <2>1, <2>3 DEF Kept, Holds
  <2>5. getOutcome' \in Seq(TcpOutcomes) /\ Len(getOutcome') = Len(getOutcome)
    BY <2>1 DEF GetInv
  <2>6. QED
    BY <1>1, <2>1, <2>2, <2>4, <2>5, WorkerKeeps
<1>6. ASSUME NEW a \in {"whole", "split", "empty"}, WorkerAnswers(w, a) PROVE GetInv'
  <2> DEFINE rec == [getWorkers[w] EXCEPT !.batch = <<>>, !.at = "idle"]
             b == getWorkers[w].batch
             k == IF a = "split" THEN 1 ELSE Len(b)
             settled == SetAll(b, "merged")
  <2>1. /\ getWorkers' = [getWorkers EXCEPT ![w] = rec] /\ getEntry' \in {0, getEntry}
        /\ getOutcome' = settled \/ getOutcome' = [settled EXCEPT ![b[k]] = "answered"]
    BY <1>6 DEF WorkerAnswers
  <2>2. rec \in TcpWorker /\ rec.queue = getWorkers[w].queue /\ rec.batch = <<>> /\ rec.at = "idle"
    <3>1. <<>> \in Seq(Nat)
      BY EmptySeq
    <3>2. QED
      BY <1>1, <3>1 DEF TcpWorker, TcpPlaces
  <2>3. /\ settled \in Seq(TcpOutcomes) /\ Len(settled) = Len(getOutcome) /\ DOMAIN settled = 1 .. Len(getOutcome)
        /\ \A m \in 1 .. Len(getOutcome) : settled[m] = "waiting" =>
              getOutcome[m] = "waiting" /\ m \notin Range(b)
    BY <1>1, Settles
  <2> HIDE DEF rec, settled, k
  <2>4. /\ getOutcome' \in Seq(TcpOutcomes) /\ Len(getOutcome') = Len(getOutcome)
        /\ \A m \in 1 .. Len(getOutcome) : getOutcome'[m] = "waiting" => settled[m] = "waiting"
    <3>1. CASE b[k] \in 1 .. Len(getOutcome) /\ getOutcome' # settled
      <4>1. /\ getOutcome' \in Seq(TcpOutcomes) /\ Len(getOutcome') = Len(settled)
            /\ \A m \in 1 .. Len(settled) : getOutcome'[m] = IF m = b[k] THEN "answered" ELSE settled[m]
        <5>1. getOutcome' = [settled EXCEPT ![b[k]] = "answered"]
          BY <2>1, <3>1
        <5>2. PICK j \in 1 .. Len(settled) : j = b[k]
          BY <2>3, <3>1
        <5>3. getOutcome' = [settled EXCEPT ![j] = "answered"]
          BY <5>1, <5>2, Zenon
        <5>4. QED
          BY <1>1, <2>3, <5>2, <5>3, ExceptSeq
      <4>2. QED
        BY <2>3, <4>1
    <3>2. CASE b[k] \notin 1 .. Len(getOutcome) \/ getOutcome' = settled
      <4>1. getOutcome' = settled
        BY <2>1, <2>3, <3>2
      <4>2. QED
        BY <2>3, <4>1
    <3>3. QED
      BY <3>1, <3>2
  <2>5. \A m \in 1 .. Len(getOutcome) : getOutcome'[m] = "waiting" =>
           getOutcome[m] = "waiting" /\ (Kept(getWorkers[w], m) => Kept(rec, m))
    BY <2>2, <2>3, <2>4 DEF Kept, Holds
  <2>6. rec.at \notin Gone
    BY <2>2 DEF Gone
  <2>7. QED
    BY <1>1, <2>1, <2>2, <2>4, <2>5, <2>6, WorkerKeeps
<1>7. QED
  BY <1>3, <1>4, <1>5, <1>6

(* A reset and a refused message touch no worker; a connection adds an idle one. *)
LEMMA RefusedKeeps == ASSUME GetInv, GetSitConnectFails \/ GetSitConnects \/ GetReset PROVE GetInv'
<1>1. CASE GetReset
  <2>1. tcpPart' = tcpPart /\ getEntry' = 0 /\ getWorkers' = getWorkers /\ getOutcome' = getOutcome
    BY <1>1 DEF GetReset, GetPart
  <2>2. QED
    BY <2>1, GetDomains DEF GetInv, Kept, Holds
<1>2. ASSUME NEW o \in {"failed", "arriving"}, getOutcome' = Append(getOutcome, o)
      PROVE  /\ getOutcome' \in Seq(TcpOutcomes)
             /\ \A m \in 1 .. Len(getOutcome') : getOutcome'[m] = "waiting" =>
                  m \in 1 .. Len(getOutcome) /\ getOutcome[m] = "waiting"
  <2>1. o \in TcpOutcomes /\ getOutcome \in Seq(TcpOutcomes)
    BY DEF TcpOutcomes, GetInv
  <2>2. QED
    BY <1>2, <2>1, AppendProperties, LenProperties
<1>3. CASE GetSitConnectFails
  <2>1. /\ tcpPart' = tcpPart /\ getEntry' = getEntry /\ getWorkers' = getWorkers
        /\ getOutcome' = Append(getOutcome, "failed")
    BY <1>3 DEF GetSitConnectFails, GetPart
  <2>2. QED
    BY <1>2, <2>1 DEF GetInv, Kept, Holds
<1>4. CASE GetSitConnects
  <2>1. /\ tcpPart' = tcpPart /\ getEntry' = Len(getWorkers) + 1 /\ getWorkers' = Append(getWorkers, NewWorker)
        /\ getOutcome' = Append(getOutcome, "arriving")
    BY <1>4 DEF GetSitConnects, GetPart
  <2>6. /\ getOutcome' \in Seq(TcpOutcomes)
        /\ \A m \in 1 .. Len(getOutcome') : getOutcome'[m] = "waiting" =>
             m \in 1 .. Len(getOutcome) /\ getOutcome[m] = "waiting"
    <3>1. "arriving" \in {"failed", "arriving"}
      OBVIOUS
    <3>2. QED
      BY <1>2, <2>1, <3>1, Zenon
  <2>2. /\ getWorkers' \in Seq(TcpWorker) /\ Len(getWorkers') = Len(getWorkers) + 1
        /\ getWorkers'[Len(getWorkers) + 1] = NewWorker
        /\ \A v \in 1 .. Len(getWorkers) : getWorkers'[v] = getWorkers[v]
    BY <2>1, WorkerIsNew, AppendProperties DEF GetInv
  <2>3. /\ getEntry' \in 0 .. Len(getWorkers') /\ getWorkers'[getEntry'].at \notin Gone
        /\ \A v \in 1 .. Len(getWorkers') : getWorkers'[v].at = "idle" => getWorkers'[v].batch = <<>>
    <3>1. \A v \in 1 .. Len(getWorkers') : v \in 1 .. Len(getWorkers) \/ v = Len(getWorkers) + 1
      BY <2>2, GetDomains
    <3>2. getEntry' \in 0 .. Len(getWorkers') /\ getWorkers'[getEntry'] = NewWorker
      BY <2>1, <2>2, GetDomains
    <3>3. getWorkers'[getEntry'].at \notin Gone
      BY <3>2, WorkerIsNew DEF Gone
    <3>4. ASSUME NEW v \in 1 .. Len(getWorkers'), getWorkers'[v].at = "idle" PROVE getWorkers'[v].batch = <<>>
      <4>1. CASE v = Len(getWorkers) + 1
        BY <2>2, <4>1, WorkerIsNew
      <4>2. CASE v \in 1 .. Len(getWorkers)
        BY <2>2, <3>4, <4>2 DEF GetInv
      <4>3. QED
        BY <3>1, <4>1, <4>2
    <3>5. QED
      BY <3>2, <3>3, <3>4
  <2>4. ASSUME NEW m \in 1 .. Len(getOutcome'), getOutcome'[m] = "waiting"
        PROVE  \E v \in 1 .. Len(getWorkers') : Kept(getWorkers[v], m)'
    <3>0. m \in 1 .. Len(getOutcome) /\ getOutcome[m] = "waiting"
      BY <2>4, <2>6
    <3>4. \E v \in 1 .. Len(getWorkers) : Kept(getWorkers[v], m)
      BY <3>0, Zenon DEF GetInv
    <3>1. PICK v \in 1 .. Len(getWorkers) : Kept(getWorkers[v], m)
      BY <3>4
    <3>2. v \in 1 .. Len(getWorkers') /\ getWorkers'[v] = getWorkers[v]
      BY <2>2, GetDomains
    <3>3. QED
      BY <2>1, <3>1, <3>2 DEF Kept, Holds
  <2>5. QED
    BY <2>1, <2>2, <2>3, <2>4, <2>6 DEF GetInv, Kept, Holds
<1>5. QED
  BY <1>1, <1>3, <1>4

(* A message that had to wait for its connection is handed to what the table holds. *)
LEMMA HandsKeeps == ASSUME GetInv, GetSitHands PROVE GetInv'
<1> DEFINE m == Len(getOutcome)
<1>1. tcpPart' = tcpPart /\ getEntry' = getEntry /\ ~NoneArriving
  BY DEF GetSitHands, GetPart
<1>2. m \in 1 .. Len(getOutcome) /\ m \in Nat
  BY <1>1, GetDomains DEF NoneArriving
<1>3. ASSUME NEW o \in TcpOutcomes, getOutcome' = [getOutcome EXCEPT ![m] = o]
      PROVE  /\ getOutcome' \in Seq(TcpOutcomes) /\ Len(getOutcome') = Len(getOutcome) /\ getOutcome'[m] = o
             /\ \A x \in 1 .. Len(getOutcome) : x # m => getOutcome'[x] = getOutcome[x]
  <2> HIDE DEF m
  <2>1. getOutcome \in Seq(TcpOutcomes)
    BY DEF GetInv
  <2>2. QED
    BY <1>2, <1>3, <2>1, ExceptSeq
<1> HIDE DEF m
<1>4. CASE getWorkers' = getWorkers /\ \E o \in {"failed", "dropped"} : getOutcome' = [getOutcome EXCEPT ![m] = o]
  <2>1. PICK o \in {"failed", "dropped"} : getOutcome' = [getOutcome EXCEPT ![m] = o]
    BY <1>4
  <2>2. o \in TcpOutcomes /\ o # "waiting"
    BY DEF TcpOutcomes
  <2>3. QED
    BY <1>1, <1>2, <1>3, <1>4, <2>1, <2>2 DEF GetInv, Kept, Holds
<1>5. CASE /\ getEntry # 0 /\ getWorkers' = [getWorkers EXCEPT ![getEntry].queue = Append(@, m)]
           /\ getOutcome' = [getOutcome EXCEPT ![m] = "waiting"]
  <2> DEFINE e == getEntry
             queue == Append(getWorkers[e].queue, m)
             rec == [getWorkers[e] EXCEPT !.queue = queue]
  <2>1. e \in 1 .. Len(getWorkers) /\ getWorkers[e].at \notin Gone
    BY <1>5, GetDomains DEF GetInv
  <2> HIDE DEF e
  <2>2. getWorkers[e] \in TcpWorker /\ getWorkers[e].queue \in Seq(Nat)
    BY <2>1, GetDomains DEF TcpWorker
  <2>3. queue \in Seq(Nat) /\ Range(queue) = Range(getWorkers[e].queue) \cup {m}
    BY <1>2, <2>2, Queued
  <2>4. getWorkers' = [getWorkers EXCEPT ![e] = rec]
    BY <1>5 DEF e
  <2> HIDE DEF queue
  <2>5. /\ rec \in TcpWorker /\ rec.queue = queue /\ rec.batch = getWorkers[e].batch /\ rec.at = getWorkers[e].at
    BY <2>2, <2>3, WorkerQueue
  <2> HIDE DEF rec
  <2>6. \A x : Kept(getWorkers[e], x) => Kept(rec, x)
    BY <2>3, <2>5 DEF Kept, Holds
  <2>7. Kept(rec, m)
    BY <2>1, <2>3, <2>5 DEF Kept, Holds, Gone
  <2>8. "waiting" \in TcpOutcomes
    BY DEF TcpOutcomes
  <2>9. \A x \in 1 .. Len(getOutcome) : getOutcome'[x] = "waiting" =>
           \/ getOutcome[x] = "waiting" /\ (Kept(getWorkers[e], x) => Kept(rec, x))
           \/ Kept(rec, x)
    BY <1>3, <1>5, <2>6, <2>7, <2>8
  <2>10. rec.at = "idle" => rec.batch = <<>>
    BY <2>1, <2>5 DEF GetInv
  <2>11. getOutcome' \in Seq(TcpOutcomes) /\ Len(getOutcome') = Len(getOutcome)
    BY <1>3, <1>5, <2>8
  <2>12. QED
    BY <1>1, <2>1, <2>4, <2>5, <2>9, <2>10, <2>11, WorkerKeeps
<1>6. QED
  BY <1>4, <1>5 DEF GetSitHands, m

-----------------------------------------------------------------------------
(* TcpNodes: tcp in and udp in.                                             *)

TcpConn == [up : BOOLEAN, single : BOOLEAN, buffer : Seq(Nat), running : BOOLEAN]

(* Only a connection that is up, in single mode, buffers anything.          *)
InInv ==
  /\ inConn \in TcpConn /\ inSent \in Seq(Nat) /\ inGot \in Seq(Nat)
  /\ inConn.running => inGot \o inConn.buffer = inSent
  /\ (inConn.running /\ ~(inConn.up /\ inConn.single)) => inConn.buffer = <<>>
  /\ tcpPart = "udp" => ~inConn.up

(* A step of the tcp in connection keeps its invariant when the bytes taken and the
   bytes buffered are together the bytes received. *)
LEMMA InMoves ==
  ASSUME InInv, NEW up \in BOOLEAN, NEW buffer \in Seq(Nat), NEW running \in BOOLEAN,
         inConn' = [up |-> up, single |-> inConn.single, buffer |-> buffer, running |-> running],
         tcpPart' = tcpPart, inSent' \in Seq(Nat), inGot' \in Seq(Nat),
         running => inGot' \o buffer = inSent',
         (running /\ ~(up /\ inConn.single)) => buffer = <<>>,
         tcpPart = "udp" => ~up
  PROVE  InInv'
<1>1. inConn.single \in BOOLEAN
  BY DEF InInv, TcpConn
<1>2. inConn' \in TcpConn /\ inConn'.buffer = buffer /\ inConn'.single = inConn.single
      /\ inConn'.up = up /\ inConn'.running = running
  BY <1>1 DEF TcpConn
<1>3. QED
  BY <1>2 DEF InInv

(* Every step of tcp in and udp in keeps it.                                 *)
LEMMA InStepKeeps ==
  ASSUME InInv, InConnect \/ InConnectFails \/ InChunk \/ InCloses \/ InStops \/ UdpReceive \/ UdpFails
  PROVE  InInv'
<1> DEFINE up == inConn.up
           single == inConn.single
           buffer == inConn.buffer
           running == inConn.running
           n == Len(inSent) + 1
<1>1. /\ inConn = [up |-> up, single |-> single, buffer |-> buffer, running |-> running]
      /\ up \in BOOLEAN /\ single \in BOOLEAN /\ buffer \in Seq(Nat) /\ running \in BOOLEAN
      /\ inSent \in Seq(Nat) /\ inGot \in Seq(Nat) /\ n \in Nat
      /\ running => inGot \o buffer = inSent
      /\ (running /\ ~(up /\ single)) => buffer = <<>>
      /\ tcpPart = "udp" => ~up
  <2>1. inConn \in TcpConn /\ Len(inSent) \in Nat
    BY LenProperties DEF InInv
  <2>2. QED
    BY <2>1 DEF InInv, TcpConn
<1>2. running /\ tcpPart' = tcpPart
  BY DEF InConnect, InConnectFails, InChunk, InCloses, InStops, UdpReceive, UdpFails, InPart, UdpPart
<1>3. <<>> \in Seq(Nat) /\ inGot \o <<>> = inGot
  BY <1>1, EmptySeq, ConcatEmptySeq
<1>4. CASE InConnect
  <2>1. inConn' = [inConn EXCEPT !.up = TRUE, !.buffer = <<>>] /\ inSent' = inSent /\ inGot' = inGot /\ ~up /\ tcpPart = "in"
    BY <1>4 DEF InConnect, InPart
  <2>2. inConn' = [up |-> TRUE, single |-> inConn.single, buffer |-> <<>>, running |-> running]
    BY <1>1, <2>1
  <2>3. buffer = <<>> /\ inGot \o <<>> = inSent
    BY <1>1, <1>2, <2>1
  <2> HIDE DEF running, up, buffer
  <2>4. QED
    BY <1>1, <1>2, <1>3, <2>1, <2>2, <2>3, InMoves
<1>5. CASE InConnectFails
  <2>1. inConn' = inConn /\ inSent' = inSent /\ inGot' = inGot
    BY <1>5 DEF InConnectFails
  <2>2. QED
    BY <1>2, <2>1 DEF InInv
<1>6. CASE InChunk
  <2>1. inSent' = Append(inSent, n) /\ tcpPart = "in" /\ up
    BY <1>6 DEF InChunk, InPart
  <2>2. CASE single
    <3>1. inConn' = [inConn EXCEPT !.buffer = Append(@, n)] /\ inGot' = inGot
      BY <1>6, <2>2 DEF InChunk
    <3>2. inConn' = [up |-> TRUE, single |-> inConn.single, buffer |-> Append(buffer, n), running |-> TRUE]
      BY <1>1, <1>2, <2>1, <3>1
    <3> HIDE DEF running, up, buffer, n
    <3>3. Append(inGot \o buffer, n) = inGot \o Append(buffer, n)
      <4>1. <<n>> \in Seq(Nat)
        BY <1>1
      <4>2. /\ Append(inGot \o buffer, n) = (inGot \o buffer) \o <<n>> /\ Append(buffer, n) = buffer \o <<n>>
        BY <1>1, ConcatProperties, AppendIsConcat
      <4>3. QED
        BY <1>1, <4>1, <4>2, ConcatAssociative, SMTT(20)
    <3>4. Append(buffer, n) \in Seq(Nat) /\ Append(inSent, n) \in Seq(Nat)
      BY <1>1, AppendProperties
    <3>5. /\ inGot' \o Append(buffer, n) = inSent' /\ inSent' \in Seq(Nat) /\ inGot' \in Seq(Nat)
          /\ TRUE \in BOOLEAN /\ tcpPart # "udp" /\ inConn.single
      BY <1>1, <1>2, <2>1, <2>2, <3>1, <3>3, <3>4
    <3>6. QED
      BY <1>2, <3>2, <3>4, <3>5, InMoves
  <2>3. CASE ~single
    <3>1. inConn' = inConn /\ inGot' = Append(inGot, n) /\ buffer = <<>>
      BY <1>1, <1>2, <1>6, <2>3 DEF InChunk
    <3>2. Append(inGot, n) \in Seq(Nat) /\ Append(inSent, n) \in Seq(Nat)
      BY <1>1, AppendProperties
    <3>3. inGot' \o buffer = inSent'
      <4>1. Append(inGot, n) \o <<>> = Append(inGot, n) /\ inGot = inSent
        BY <1>1, <1>2, <1>3, <3>1, <3>2, ConcatEmptySeq
      <4>2. QED
        BY <2>1, <3>1, <4>1
    <3>4. QED
      BY <1>1, <1>2, <2>1, <3>1, <3>2, <3>3 DEF InInv
  <2>4. QED
    BY <2>2, <2>3
<1>7. CASE InCloses
  <2>1. inConn' = [inConn EXCEPT !.up = FALSE, !.buffer = <<>>] /\ inSent' = inSent /\ inGot' = inGot \o buffer
    BY <1>7 DEF InCloses
  <2>2. inConn' = [up |-> FALSE, single |-> inConn.single, buffer |-> <<>>, running |-> running]
    BY <1>1, <2>1
  <2> HIDE DEF running, up, buffer
  <2>3. inGot \o buffer \in Seq(Nat) /\ (inGot \o buffer) \o <<>> = inGot \o buffer
    BY <1>1, ConcatProperties, ConcatEmptySeq
  <2>4. /\ inGot' \in Seq(Nat) /\ inSent' \in Seq(Nat) /\ inGot' \o <<>> = inSent' /\ FALSE \in BOOLEAN
    BY <1>1, <1>2, <2>1, <2>3
  <2>5. QED
    BY <1>1, <1>2, <1>3, <2>2, <2>4, InMoves
<1>8. CASE InStops
  <2>1. inConn' = [inConn EXCEPT !.up = FALSE, !.running = FALSE] /\ inSent' = inSent /\ inGot' = inGot
    BY <1>8 DEF InStops
  <2>2. inConn' = [up |-> FALSE, single |-> inConn.single, buffer |-> buffer, running |-> FALSE]
    BY <1>1, <2>1
  <2> HIDE DEF running, up, buffer
  <2>3. FALSE \in BOOLEAN /\ inSent' \in Seq(Nat) /\ inGot' \in Seq(Nat)
    BY <1>1, <2>1
  <2>4. QED
    BY <1>1, <1>2, <2>2, <2>3, InMoves
<1>9. CASE UdpReceive
  <2>1. inConn' = inConn /\ inGot' = Append(inGot, n) /\ inSent' = Append(inSent, n) /\ tcpPart = "udp"
    BY <1>9 DEF UdpReceive, UdpPart
  <2>2. buffer = <<>> /\ inGot = inSent
    BY <1>1, <1>2, <1>3, <2>1
  <2>3. Append(inGot, n) \in Seq(Nat) /\ Append(inGot, n) \o <<>> = Append(inGot, n)
    BY <1>1, AppendProperties, ConcatEmptySeq
  <2>4. QED
    BY <1>1, <1>2, <2>1, <2>2, <2>3 DEF InInv
<1>10. CASE UdpFails
  <2>1. inConn' = [inConn EXCEPT !.running = FALSE] /\ inSent' = inSent /\ inGot' = inGot
    BY <1>10 DEF UdpFails
  <2>2. inConn' = [up |-> up, single |-> inConn.single, buffer |-> buffer, running |-> FALSE]
    BY <1>1, <2>1
  <2> HIDE DEF running, up, buffer
  <2>3. FALSE \in BOOLEAN /\ inSent' \in Seq(Nat) /\ inGot' \in Seq(Nat)
    BY <1>1, <2>1
  <2>4. QED
    BY <1>1, <1>2, <2>2, <2>3, InMoves
<1>11. QED
  BY <1>4, <1>5, <1>6, <1>7, <1>8, <1>9, <1>10

-----------------------------------------------------------------------------
(* TcpNodes: tcp out.                                                       *)

(* The peers whose write failed are gone for good, and a client has at most
   one connection.                                                          *)
OutInv ==
  /\ outPeers \in Seq(BOOLEAN)
  /\ DOMAIN outCast = {"on", "left", "failed", "fed"}
  /\ \A p \in outCast.failed : p \in 1 .. Len(outPeers) /\ ~outPeers[p]
  /\ \A p \in 1 .. Len(outPeers) : outPeers[p] => p \in outTable
  /\ tcpPart = "client" => \A p, q \in outTable : p = q

(* Every step of tcp out, the broadcast among them, keeps the peers in step. *)
LEMMA OutStepKeeps ==
  ASSUME OutInv,
         \/ OutAccept \/ OutCastBegins \/ OutCastEnds \/ ClientSends
         \/ \E p \in DOMAIN outPeers : OutPeerGone(p) \/ OutWrite(p) \/ ClientPeerGone(p)
  PROVE  OutInv'
<1> DEFINE n == Len(outPeers) + 1
<1>1. /\ Len(outPeers) \in Nat /\ DOMAIN outPeers = 1 .. Len(outPeers) /\ outPeers \in Seq(BOOLEAN)
      /\ DOMAIN outCast = {"on", "left", "failed", "fed"}
      /\ \A p \in outCast.failed : p \in 1 .. Len(outPeers) /\ ~outPeers[p]
      /\ \A p \in 1 .. Len(outPeers) : outPeers[p] => p \in outTable
      /\ tcpPart = "client" => \A p, q \in outTable : p = q
      /\ tcpPart' = tcpPart
  BY LenProperties DEF OutInv, OutAccept, OutCastBegins, OutCastEnds, ClientSends, OutPeerGone, OutWrite,
                       ClientPeerGone, OutPart, ClientPart
<1>2. ASSUME outPeers' = Append(outPeers, TRUE)
      PROVE  /\ outPeers' \in Seq(BOOLEAN) /\ Len(outPeers') = n
             /\ \A p \in 1 .. n : p \in 1 .. Len(outPeers) \/ p = n
             /\ \A p \in 1 .. Len(outPeers) : p \in 1 .. n /\ outPeers'[p] = outPeers[p]
  <2>1. TRUE \in BOOLEAN
    OBVIOUS
  <2>2. /\ outPeers' \in Seq(BOOLEAN) /\ Len(outPeers') = n
        /\ \A p \in 1 .. Len(outPeers) : outPeers'[p] = outPeers[p]
    BY <1>1, <1>2, <2>1, AppendProperties
  <2>3. QED
    BY <1>1, <2>2
<1>3. CASE OutAccept
  <2>1. /\ outPeers' = Append(outPeers, TRUE) /\ outTable' = outTable \cup {n} /\ outCast' = outCast
        /\ tcpPart = "out"
    BY <1>3 DEF OutAccept, OutPart
  <2>2. QED
    BY <1>1, <1>2, <2>1 DEF OutInv
<1>4. ASSUME NEW p \in DOMAIN outPeers, OutPeerGone(p) \/ ClientPeerGone(p) PROVE OutInv'
  <2>1. outPeers' = [outPeers EXCEPT ![p] = FALSE] /\ outTable' = outTable /\ outCast' = outCast
    BY <1>4 DEF OutPeerGone, ClientPeerGone
  <2>2. /\ outPeers' \in Seq(BOOLEAN) /\ Len(outPeers') = Len(outPeers) /\ ~outPeers'[p]
        /\ \A q \in 1 .. Len(outPeers) : q # p => outPeers'[q] = outPeers[q]
    <3>1. FALSE \in BOOLEAN /\ p \in 1 .. Len(outPeers)
      BY <1>1
    <3>2. QED
      BY <1>1, <2>1, <3>1, ExceptSeq
  <2>3. QED
    BY <1>1, <2>1, <2>2 DEF OutInv
<1>5. CASE OutCastBegins
  <2>1. outPeers' = outPeers /\ outTable' = outTable
        /\ outCast' = [on |-> TRUE, left |-> outTable, failed |-> {}, fed |-> outCast.fed + 1]
    BY <1>5 DEF OutCastBegins
  <2>2. DOMAIN outCast' = {"on", "left", "failed", "fed"} /\ outCast'.failed = {}
    BY <2>1
  <2>3. QED
    BY <1>1, <2>1, <2>2 DEF OutInv
<1>6. ASSUME NEW p \in DOMAIN outPeers, OutWrite(p) PROVE OutInv'
  <2>1. PICK fails \in (IF outPeers[p] THEN {FALSE} ELSE BOOLEAN) :
          outCast' = [outCast EXCEPT !.left = @ \ {p}, !.failed = IF fails THEN @ \union {p} ELSE @]
    BY <1>6 DEF OutWrite
  <2>2. outPeers' = outPeers /\ outTable' = outTable
    BY <1>6 DEF OutWrite
  <2>3. /\ DOMAIN outCast' = {"on", "left", "failed", "fed"}
        /\ outCast'.failed = IF fails THEN outCast.failed \cup {p} ELSE outCast.failed
    BY <1>1, <2>1
  <2>4. fails => ~outPeers[p]
    BY <2>1
  <2>5. \A q \in outCast'.failed : q \in 1 .. Len(outPeers) /\ ~outPeers[q]
    BY <1>1, <2>3, <2>4
  <2>6. QED
    BY <1>1, <2>2, <2>3, <2>5 DEF OutInv
<1>7. CASE OutCastEnds
  <2>1. /\ outPeers' = outPeers /\ outTable' = outTable \ outCast.failed
        /\ outCast' = [outCast EXCEPT !.on = FALSE, !.failed = {}]
    BY <1>7 DEF OutCastEnds
  <2>2. DOMAIN outCast' = {"on", "left", "failed", "fed"} /\ outCast'.failed = {}
    BY <1>1, <2>1
  <2>3. QED
    BY <1>1, <2>1, <2>2 DEF OutInv
<1>8. CASE ClientSends
  <2>1. outCast' = [outCast EXCEPT !.fed = @ + 1] /\ tcpPart = "client"
    BY <1>8 DEF ClientSends, ClientPart
  <2>2. DOMAIN outCast' = {"on", "left", "failed", "fed"} /\ outCast'.failed = outCast.failed
    BY <1>1, <2>1
  <2>3. CASE outTable = {} /\ outPeers' = Append(outPeers, TRUE) /\ outTable' = {n}
    <3>1. \A p \in 1 .. Len(outPeers') : outPeers'[p] => p \in outTable'
      BY <1>1, <1>2, <2>3
    <3>2. \A p \in outCast'.failed : p \in 1 .. Len(outPeers') /\ ~outPeers'[p]
      BY <1>1, <1>2, <2>2, <2>3
    <3>3. QED
      BY <1>1, <1>2, <2>2, <2>3, <3>1, <3>2 DEF OutInv
  <2>4. CASE outTable' = outTable /\ outPeers' = outPeers
    BY <1>1, <2>2, <2>4 DEF OutInv
  <2>5. CASE outTable' = {} /\ outPeers' = outPeers /\ \E p \in outTable : ~outPeers[p]
    <3>1. \A p \in 1 .. Len(outPeers) : ~outPeers[p]
      BY <1>1, <2>1, <2>5
    <3>2. QED
      BY <1>1, <2>2, <2>5, <3>1 DEF OutInv
  <2>6. QED
    BY <1>8, <2>3, <2>4, <2>5 DEF ClientSends
<1>9. QED
  BY <1>3, <1>4, <1>5, <1>6, <1>7, <1>8

-----------------------------------------------------------------------------
(* The three together.                                                      *)

TcpInv == GetInv /\ InInv /\ OutInv

(* For any number of connections, chunks and messages: what the tcp and udp nodes
   have received, still hold and have passed on is accounted for. *)
THEOREM TcpInvHolds == TcpSpec => []TcpInv
<1>1. TcpInit => TcpInv
  <2> SUFFICES ASSUME TcpInit PROVE TcpInv
    OBVIOUS
  <2>1. \A S : <<>> \in Seq(S)
    BY EmptySeq
  <2>2. GetInv
    BY <2>1 DEF TcpInit, GetInv
  <2>3. /\ inConn \in TcpConn /\ inConn.buffer = <<>> /\ ~inConn.up
    BY <2>1 DEF TcpInit, TcpConn
  <2>4. InInv
    BY <2>1, <2>3, ConcatEmptySeq DEF TcpInit, InInv
  <2>5. OutInv
    BY <2>1 DEF TcpInit, OutInv
  <2>6. QED
    BY <2>2, <2>4, <2>5 DEF TcpInv
<1>2. TcpInv /\ [TcpNext]_tcpVars => TcpInv'
  <2> SUFFICES ASSUME TcpInv, [TcpNext]_tcpVars PROVE TcpInv'
    OBVIOUS
  <2>1. DOMAIN getWorkers = 1 .. Len(getWorkers) /\ GetInv /\ InInv /\ OutInv
    BY GetDomains DEF TcpInv
  <2>2. ASSUME UNCHANGED <<tcpPart, getVars>> PROVE GetInv'
    BY <2>1, <2>2 DEF getVars, GetInv, Kept, Holds
  <2>3. ASSUME UNCHANGED <<tcpPart, inVars>> PROVE InInv'
    BY <2>1, <2>3 DEF inVars, InInv
  <2>4. ASSUME UNCHANGED <<tcpPart, outVars>> PROVE OutInv'
    BY <2>1, <2>4 DEF outVars, OutInv
  <2>5. CASE \/ GetMessage \/ GetSitConnectFails \/ GetSitConnects \/ GetSitHands \/ GetReset
             \/ \E w \in DOMAIN getWorkers : WorkerTake(w) \/ WorkerFails(w) \/ WorkerEnds(w)
                                             \/ \E a \in {"whole", "split", "empty"} : WorkerAnswers(w, a)
    <3>1. UNCHANGED <<tcpPart, inVars, outVars>>
      BY <2>5 DEF GetMessage, GetSitConnectFails, GetSitConnects, GetSitHands, GetReset,
                  WorkerTake, WorkerFails, WorkerEnds, WorkerAnswers, GetPart
    <3>2. GetInv'
      BY <2>1, <2>5, GetMessageKeeps, HandsKeeps, RefusedKeeps, WorkerStepKeeps
    <3>3. QED
      BY <2>3, <2>4, <3>1, <3>2 DEF TcpInv
  <2>6. CASE InConnect \/ InConnectFails \/ InChunk \/ InCloses \/ InStops \/ UdpReceive \/ UdpFails
    <3>1. UNCHANGED <<tcpPart, getVars, outVars>>
      BY <2>6 DEF InConnect, InConnectFails, InChunk, InCloses, InStops, UdpReceive, UdpFails, InPart, UdpPart
    <3>2. QED
      BY <2>1, <2>2, <2>4, <2>6, <3>1, InStepKeeps DEF TcpInv
  <2>7. CASE \/ OutAccept \/ OutCastBegins \/ OutCastEnds \/ ClientSends
             \/ \E p \in DOMAIN outPeers : OutPeerGone(p) \/ OutWrite(p) \/ ClientPeerGone(p)
    <3>1. UNCHANGED <<tcpPart, getVars, inVars>>
      BY <2>7 DEF OutAccept, OutCastBegins, OutCastEnds, ClientSends, OutPeerGone, OutWrite, ClientPeerGone,
                  OutPart, ClientPart
    <3>2. QED
      BY <2>1, <2>2, <2>3, <2>7, <3>1, OutStepKeeps DEF TcpInv
  <2>8. CASE UNCHANGED tcpVars
    BY <2>2, <2>3, <2>4, <2>8 DEF tcpVars, getVars, inVars, outVars, TcpInv
  <2>9. QED
    BY <2>5, <2>6, <2>7, <2>8 DEF TcpNext
<1>3. QED
  BY <1>1, <1>2, PTL DEF TcpSpec

(* However the workers of one address fail, end and take each other's entries
   away, peers come and go during a broadcast and chunks arrive between
   connections: every accepted message is with a worker that still reads its
   channel, or was behind a failed batch on a connection that stays, and the
   table never holds a worker that has returned; tcp in delivers in order
   without a gap, and no live connection is dropped.                        *)
THEOREM TcpIsKept == TcpSpec => []TcpKeeps
<1>1. TcpInv => TcpKeeps
  <2> SUFFICES ASSUME TcpInv PROVE TcpKeeps
    OBVIOUS
  <2>1. /\ DOMAIN getWorkers = 1 .. Len(getWorkers) /\ DOMAIN getOutcome = 1 .. Len(getOutcome)
        /\ DOMAIN outPeers = 1 .. Len(outPeers)
    BY GetDomains, LenProperties DEF TcpInv, OutInv
  <2>2. QED
    BY <2>1 DEF TcpInv, GetInv, InInv, OutInv, Kept, Holds, TcpKeeps
<1>2. QED
  BY <1>1, TcpInvHolds, PTL

-----------------------------------------------------------------------------
(* Bacnet.                                                                  *)

Body == [place : Nat, of : Nat]

(* Packets for the node: a segment says where it belongs, an acknowledgement means that
   the request of its id was performed.                                     *)
PacketInv(p) ==
  /\ p.kind = "complex" => /\ bacPart = "read" /\ p.body \in Body /\ p.body.place < BacSegments /\ p.seq = p.body.place
                           /\ p.segmented = (BacSegments > 1) /\ p.more = (p.body.place < BacSegments - 1)
  /\ p.kind = "simple" => bacPart # "read" /\ p.invoke \in bacServed
  /\ p.kind = "notify" => p.body \in Int

(* Packets for the device: only a reply in segments is acknowledged.         *)
RequestInv(r) == r.kind \in {"ack", "nak"} => bacPart = "read" /\ r.seq \in Int

Whole(reply) == Len(reply) = BacSegments /\ \A k \in DOMAIN reply : reply[k].place = k - 1

(* A read: what was put together so far are the first segments, in order.   *)
BacReadInv ==
  /\ bacLeft \in Seq(STRING) /\ bacData \in Seq(Body) /\ bacResult \in Seq(Seq(Body))
  /\ bacAt # "failed" => Len(bacResult) + Len(bacLeft) = Len(BacProperties)
  /\ bacAt \in {"send", "wait"} => bacLeft # <<>>
  /\ bacAt = "done" => bacLeft = <<>>
  /\ \A i \in DOMAIN bacResult : Whole(bacResult[i])
  /\ bacAt = "wait" => /\ Len(bacData) < BacSegments /\ bacNext = Len(bacData)
                       /\ \A k \in DOMAIN bacData : bacData[k].place = k - 1

(* What is reported as done was performed under the id of the request under way. *)
BacDoneInv == (bacAt = "done" /\ bacPart = "write") \/ bacAt = "listen" => bacInvoke \in bacServed

Apart(v, w) == v - w >= BacIncrement \/ w - v >= BacIncrement

CovInv ==
  /\ covOut \in Seq(Int)
  /\ covLast = IF covOut = <<>> THEN <<>> ELSE <<covOut[Len(covOut)]>>
  /\ \A i \in 2 .. Len(covOut) : Apart(covOut[i], covOut[i - 1])

BacInv ==
  /\ bacTries \in 0 .. BacRetries + 1 /\ bacSnapshot \in Nat
  /\ bacAt = "listen" => bacPart = "cov"
  /\ \A p \in bacToNode : PacketInv(p)
  /\ \A r \in bacToDevice : RequestInv(r)
  /\ bacPart = "read" => BacReadInv
  /\ BacDoneInv
  /\ CovInv

(* Packets that were there stay what they are while the part is the same and nothing
   that was performed is taken back.                                        *)
LEMMA PacketsStay ==
  ASSUME BacInv, bacPart' = bacPart, bacServed \subseteq bacServed'
  PROVE  (\A p \in bacToNode : PacketInv(p)') /\ (\A r \in bacToDevice : RequestInv(r)')
<1>1. ASSUME NEW p \in bacToNode PROVE PacketInv(p)'
  BY DEF BacInv, PacketInv
<1>2. ASSUME NEW r \in bacToDevice PROVE RequestInv(r)'
  BY DEF BacInv, RequestInv
<1>3. QED
  BY <1>1, <1>2

(* Steps in which nothing is received, reported or performed.               *)
LEMMA BacMoves == ASSUME BacInv, Begin \/ Send \/ Timeout \/ Renew PROVE BacInv'
<1>1. /\ bacPart' = bacPart /\ bacServed' = bacServed /\ bacSnapshot' = bacSnapshot /\ bacResult' = bacResult /\ bacLeft' = bacLeft
      /\ UNCHANGED <<covLast, covOut>>
  BY DEF Begin, Send, Timeout, Renew, bacDevice, covNode
<1>2. bacTries' \in 0 .. BacRetries + 1
  BY BacAssumption DEF BacInv, Begin, Send, Timeout, Renew
<1>4. (\A p \in bacToNode : PacketInv(p)') /\ (\A r \in bacToDevice : RequestInv(r)')
  BY <1>1, PacketsStay
<1>5. bacToNode' \subseteq bacToNode
  BY DEF Begin, Send, Timeout, Renew
<1>6. \A r \in bacToDevice' : RequestInv(r)'
  <2>1. CASE Send
    <3>1. PICK new : new = ConfirmedRequest
      OBVIOUS
    <3>2. bacToDevice' = bacToDevice \cup {new}
      BY <2>1, <3>1 DEF Send
    <3>3. new.kind = "request"
      BY <3>1 DEF ConfirmedRequest
    <3>4. RequestInv(new)'
      BY <3>3 DEF RequestInv
    <3>5. QED
      BY <1>4, <3>2, <3>4
  <2>2. CASE bacToDevice' \subseteq bacToDevice
    BY <1>4, <2>2
  <2>3. QED
    BY <2>1, <2>2 DEF Begin, Timeout, Renew
<1>7. bacAt' = "listen" => bacPart' = "cov"
  BY DEF Begin, Send, Timeout, Renew
<1>8. ASSUME bacPart = "read" PROVE BacReadInv'
  <2>1. BacReadInv /\ ~Renew
    BY <1>8 DEF BacInv, Renew
  <2>2. CASE Send
    <3>1. bacData' = <<>> /\ bacNext' = 0 /\ bacAt' = "wait" /\ bacAt = "send"
      BY <2>2 DEF Send
    <3>2. bacData' \in Seq(Body) /\ Len(bacData') = 0 /\ DOMAIN bacData' = {}
      BY <3>1
    <3>3. QED
      BY <1>1, <2>1, <3>1, <3>2, BacAssumption DEF BacReadInv
  <2>3. CASE Begin \/ Timeout
    <3>1. bacData' = bacData /\ bacAt' = "send" /\ bacAt \in {"start", "wait"} /\ bacLeft # <<>>
      BY <2>1, <2>3 DEF Begin, Timeout, BacReadInv
    <3>2. QED
      BY <1>1, <2>1, <3>1 DEF BacReadInv
  <2>4. QED
    BY <2>1, <2>2, <2>3
<1>9. BacDoneInv'
  <2>1. bacAt' \in {"send", "wait", "start"}
    BY DEF Begin, Send, Timeout, Renew
  <2>2. QED
    BY <2>1 DEF BacDoneInv
<1>10. CovInv'
  BY <1>1 DEF BacInv, CovInv
<1>11. QED
  BY <1>1, <1>2, <1>4, <1>5, <1>6, <1>7, <1>8, <1>9, <1>10 DEF BacInv

(* A request is given up or refused, a subscription is ended.               *)
LEMMA BacFails == ASSUME BacInv, RequestFails \/ CovStops PROVE BacInv'
<1>1. /\ bacPart' = bacPart /\ bacServed' = bacServed /\ bacSnapshot' = bacSnapshot /\ bacTries' = bacTries
      /\ UNCHANGED <<covLast, covOut, bacData>> /\ bacToNode' \subseteq bacToNode /\ bacToDevice' \subseteq bacToDevice
  BY DEF RequestFails, CovStops, bacDevice, covNode
<1>3. (\A p \in bacToNode : PacketInv(p)') /\ (\A r \in bacToDevice : RequestInv(r)')
  BY <1>1, PacketsStay
<1>4. bacPart # "cov" => bacAt' = "failed" /\ bacResult' = <<>> /\ bacLeft' = <<>>
  BY DEF RequestFails, CovStops, BacInv
<1>5. bacAt' # "listen"
  BY DEF RequestFails, CovStops
<1>6. ASSUME bacPart = "read" PROVE BacReadInv'
  <2>1. bacResult' \in Seq(Seq(Body)) /\ DOMAIN bacResult' = {} /\ bacLeft' \in Seq(STRING) /\ bacData \in Seq(Body)
    BY <1>4, <1>6 DEF BacInv, BacReadInv
  <2>2. QED
    BY <1>1, <1>4, <1>6, <2>1 DEF BacReadInv
<1>7. BacDoneInv'
  BY <1>1, <1>4, <1>5 DEF BacDoneInv
<1>8. CovInv'
  BY <1>1 DEF BacInv, CovInv
<1>9. QED
  BY <1>1, <1>3, <1>5, <1>6, <1>7, <1>8 DEF BacInv

(* A remainder, and the numbers it leaves alone.                            *)
LEMMA ModBelow ==
  ASSUME NEW n \in Int, NEW m \in Nat, m > 0
  PROVE  n % m \in 0 .. m - 1 /\ (n \in 0 .. m - 1 => n % m = n)
<1>1. n % m \in 0 .. m - 1
  OBVIOUS
<1>2. ASSUME n \in 0 .. m - 1 PROVE n % m = n
  BY <1>2
<1>3. QED
  BY <1>1, <1>2

(* A segment of the reply: it is the one expected next, or it changes nothing but
   asks for that one again.                                                 *)
LEMMA SegmentKeeps == ASSUME BacInv, NEW p \in bacToNode, Segment(p) PROVE BacInv'
<1>1. /\ p.kind = "complex" /\ bacAt = "wait" /\ bacPart' = bacPart /\ bacTries' = bacTries /\ bacToNode' = bacToNode
      /\ UNCHANGED <<bacSnapshot, bacServed, covLast, covOut>>
  BY DEF Segment, bacDevice, covNode
<1>2. /\ bacPart = "read" /\ p.body \in Body /\ p.body.place < BacSegments /\ p.seq = p.body.place
      /\ p.segmented = (BacSegments > 1) /\ p.more = (p.body.place < BacSegments - 1)
  BY <1>1 DEF BacInv, PacketInv
<1>3. BacReadInv
  BY <1>2, BacAssumption DEF BacInv
<1>4. /\ BacSeqMod \in Nat /\ BacSeqMod > 0 /\ BacSegments \in 1 .. BacSeqMod /\ BacSegments \in Nat
      /\ p.body.place \in Nat /\ bacData \in Seq(Body) /\ Len(bacData) \in Nat /\ DOMAIN bacData = 1 .. Len(bacData)
      /\ bacNext = Len(bacData) /\ Len(bacData) < BacSegments
      /\ \A k \in 1 .. Len(bacData) : bacData[k].place = k - 1
  <2>1. /\ BacSeqMod \in Nat /\ BacSeqMod > 0 /\ BacSegments \in 1 .. BacSeqMod /\ BacSegments \in Nat
    BY BacAssumption
  <2>2. p.body.place \in Nat
    BY <1>2 DEF Body
  <2>3. bacData \in Seq(Body) /\ Len(bacData) \in Nat /\ DOMAIN bacData = 1 .. Len(bacData)
    BY <1>3, LenProperties DEF BacReadInv
  <2>4. /\ bacNext = Len(bacData) /\ Len(bacData) < BacSegments
        /\ \A k \in DOMAIN bacData : bacData[k].place = k - 1
    BY <1>1, <1>3 DEF BacReadInv
  <2>5. QED
    BY <2>1, <2>2, <2>3, <2>4
<1>5. (\A q \in bacToNode : PacketInv(q)') /\ (\A r \in bacToDevice : RequestInv(r)')
  BY <1>1, PacketsStay
<1>6. \A r \in bacToDevice' : RequestInv(r)'
  <2>1. ASSUME NEW positive \in BOOLEAN, NEW seq \in Int, NEW new, new = Ack(positive, seq) PROVE RequestInv(new)'
    <3>1. new.kind \in {"ack", "nak"} /\ new.seq = seq
      BY <2>1 DEF Ack
    <3>2. QED
      BY <1>1, <1>2, <3>1 DEF RequestInv
  <2>2. (bacNext - 1) % BacSeqMod \in Int /\ p.seq \in Int
    BY <1>2, <1>4, ModBelow
  <2>3. \E positive \in BOOLEAN, seq \in Int : bacToDevice' \subseteq bacToDevice \cup {Ack(positive, seq)}
    BY <2>2 DEF Segment
  <2>4. PICK positive \in BOOLEAN, seq \in Int : bacToDevice' \subseteq bacToDevice \cup {Ack(positive, seq)}
    BY <2>3
  <2>5. PICK new : new = Ack(positive, seq)
    OBVIOUS
  <2>6. QED
    BY <1>5, <2>1, <2>4, <2>5
<1>7. BacReadInv' /\ bacAt' # "listen"
  <2>1. CASE OutOfOrder(p)
    <3>1. UNCHANGED <<bacLeft, bacAt, bacData, bacNext, bacResult>>
      BY <2>1 DEF Segment
    <3>2. QED
      BY <1>1, <1>3, <3>1 DEF BacReadInv
  <2>2. CASE ~OutOfOrder(p)
    <3>1. p.body.place = Len(bacData)
      <4>1. CASE BacSegments > 1
        BY <1>2, <1>4, <2>2, <4>1 DEF OutOfOrder
      <4>2. CASE ~(BacSegments > 1)
        BY <1>2, <1>4, <4>2
      <4>3. QED
        BY <4>1, <4>2
    <3>2. PICK all : all = Append(bacData, p.body)
      OBVIOUS
    <3>3. /\ all \in Seq(Body) /\ Len(all) = Len(bacData) + 1 /\ DOMAIN all = 1 .. Len(all)
          /\ \A k \in 1 .. Len(all) : all[k].place = k - 1
      <4>1. /\ all \in Seq(Body) /\ Len(all) = Len(bacData) + 1 /\ all[Len(bacData) + 1] = p.body
            /\ \A k \in 1 .. Len(bacData) : all[k] = bacData[k]
        BY <1>2, <1>4, <3>2, AppendProperties
      <4>2. ASSUME NEW k \in 1 .. Len(all) PROVE all[k].place = k - 1
        <5>1. k \in 1 .. Len(bacData) \/ k = Len(bacData) + 1
          BY <1>4, <4>1
        <5>2. QED
          BY <1>4, <3>1, <4>1, <5>1
      <4>3. DOMAIN all = 1 .. Len(all)
        BY <4>1, LenProperties
      <4>4. QED
        BY <4>1, <4>2, <4>3
    <3>4. CASE p.segmented /\ p.more
      <4>1. bacData' = all /\ UNCHANGED <<bacLeft, bacAt, bacResult>> /\ bacNext' = (p.seq + 1) % BacSeqMod
        BY <2>2, <3>2, <3>4 DEF Segment
      <4>2. p.seq + 1 \in 0 .. BacSeqMod - 1 /\ Len(bacData) + 1 < BacSegments
        <5>1. p.body.place < BacSegments - 1
          BY <1>2, <3>4
        <5> DEFINE n == p.body.place
        <5>2. p.seq = n /\ n \in Nat /\ n = Len(bacData)
          BY <1>2, <1>4, <3>1
        <5> HIDE DEF n
        <5>3. n < BacSegments - 1
          BY <5>1 DEF n
        <5>4. QED
          BY <1>4, <5>2, <5>3
      <4>3. bacNext' = Len(bacData) + 1
        BY <1>2, <1>4, <3>1, <4>1, <4>2, ModBelow
      <4>4. QED
        BY <1>1, <1>3, <3>3, <4>1, <4>2, <4>3 DEF BacReadInv
    <3>5. CASE ~(p.segmented /\ p.more)
      <4>1. /\ bacResult' = Append(bacResult, all) /\ bacData' = <<>> /\ bacLeft' = Tail(bacLeft)
            /\ bacAt' = IF Len(bacLeft) = 1 THEN "done" ELSE "start"
        BY <2>2, <3>2, <3>5 DEF Segment
      <4>2. Len(bacData) + 1 = BacSegments
        <5> DEFINE n == Len(bacData)
        <5>1. n \in Nat /\ n < BacSegments /\ BacSegments \in Nat
          BY <1>4
        <5>2. CASE BacSegments > 1
          <6>1. ~(n < BacSegments - 1)
            BY <1>2, <3>1, <3>5, <5>2
          <6> HIDE DEF n
          <6>2. QED
            BY <5>1, <6>1 DEF n
        <5>3. CASE ~(BacSegments > 1)
          BY <5>1, <5>3
        <5>4. QED
          BY <5>2, <5>3
      <4>3. Whole(all)
        BY <3>3, <4>2 DEF Whole
      <4>4. /\ bacLeft \in Seq(STRING) /\ bacLeft # <<>> /\ bacResult \in Seq(Seq(Body))
            /\ Len(bacResult) + Len(bacLeft) = Len(BacProperties)
        BY <1>1, <1>3 DEF BacReadInv
      <4>5. /\ bacLeft' \in Seq(STRING) /\ Len(bacLeft') = Len(bacLeft) - 1 /\ Len(bacLeft) \in Nat
            /\ (Len(bacLeft) = 1 => bacLeft' = <<>>)
        BY <4>1, <4>4, HeadTailProperties, LenProperties, EmptySeq
      <4>6. /\ bacResult' \in Seq(Seq(Body)) /\ Len(bacResult') = Len(bacResult) + 1 /\ Len(bacResult) \in Nat
            /\ DOMAIN bacResult' = 1 .. Len(bacResult) + 1 /\ bacResult'[Len(bacResult) + 1] = all
            /\ \A i \in 1 .. Len(bacResult) : bacResult'[i] = bacResult[i]
        BY <3>3, <4>1, <4>4, AppendProperties, LenProperties
      <4>7. \A i \in 1 .. Len(bacResult) : Whole(bacResult[i])
        BY <1>3, <4>4, LenProperties DEF BacReadInv
      <4>8. ASSUME NEW i \in DOMAIN bacResult' PROVE Whole(bacResult'[i])
        <5>1. i \in 1 .. Len(bacResult) \/ i = Len(bacResult) + 1
          BY <4>6
        <5>2. QED
          BY <4>3, <4>6, <4>7, <5>1
      <4>9. Len(bacResult') + Len(bacLeft') = Len(BacProperties)
        <5>1. \A a, b \in Nat : (a + 1) + (b - 1) = a + b
          OBVIOUS
        <5>2. (Len(bacResult) + 1) + (Len(bacLeft) - 1) = Len(bacResult) + Len(bacLeft)
          BY <4>5, <4>6, <5>1
        <5>3. QED
          BY <4>4, <4>5, <4>6, <5>2, Zenon
      <4>10. bacData' \in Seq(Body) /\ bacAt' \in {"done", "start"} /\ (bacAt' = "done" => Len(bacLeft) = 1)
        BY <4>1
      <4>11. (\A i \in DOMAIN bacResult : Whole(bacResult[i]))'
        BY <4>8 DEF Whole
      <4>12. QED
        BY <4>5, <4>6, <4>9, <4>10, <4>11 DEF BacReadInv
    <3>6. QED
      BY <3>4, <3>5, <1>1 DEF Segment
  <2>3. QED
    BY <2>1, <2>2
<1>8. CovInv'
  BY <1>1 DEF BacInv, CovInv
<1>9. BacDoneInv'
  BY <1>1, <1>2, <1>7 DEF BacDoneInv
<1>10. QED
  BY <1>1, <1>2, <1>5, <1>6, <1>7, <1>8, <1>9 DEF BacInv

(* An answer without data ends a write or a subscribe request.              *)
LEMMA SimpleAckKeeps == ASSUME BacInv, NEW p \in bacToNode, SimpleAck(p) PROVE BacInv'
<1>1. /\ p.kind = "simple" /\ bacPart' = bacPart /\ bacTries' = bacTries /\ p.invoke = bacInvoke
      /\ UNCHANGED <<bacInvoke, bacSnapshot, bacServed, covLast, covOut, bacToNode, bacToDevice>>
  BY DEF SimpleAck, bacDevice, covNode
<1>2. bacPart # "read" /\ p.invoke \in bacServed
  BY <1>1 DEF BacInv, PacketInv
<1>3. (\A q \in bacToNode : PacketInv(q)') /\ (\A r \in bacToDevice : RequestInv(r)')
  BY <1>1, PacketsStay
<1>4. bacAt' = IF bacPart = "cov" THEN "listen" ELSE "done"
  BY DEF SimpleAck
<1>5. BacDoneInv'
  BY <1>1, <1>2 DEF BacDoneInv
<1>6. CovInv'
  BY <1>1 DEF BacInv, CovInv
<1>7. QED
  BY <1>1, <1>2, <1>3, <1>4, <1>5, <1>6 DEF BacInv

(* A value of the subscription is sent on if it is far enough from the last.  *)
LEMMA NotifiedKeeps == ASSUME BacInv, NEW p \in bacToNode, Notified(p) PROVE BacInv'
<1>1. /\ p.kind = "notify" /\ bacAt = "listen" /\ bacToNode' \subseteq bacToNode
      /\ UNCHANGED <<bacPart, bacTries, bacAt, bacInvoke, bacSnapshot, bacServed, bacToDevice>>
  BY DEF Notified, bacDevice
<1>2. p.body \in Int /\ bacPart = "cov"
  BY <1>1 DEF BacInv, PacketInv
<1>3. (\A q \in bacToNode : PacketInv(q)') /\ (\A r \in bacToDevice : RequestInv(r)')
  BY <1>1, PacketsStay
<1>4. CovInv'
  <2>1. CovInv
    BY DEF BacInv
  <2>2. CASE Near(p.body)
    BY <2>1, <2>2 DEF Notified, covNode, CovInv
  <2>3. CASE ~Near(p.body)
    <3> DEFINE v == p.body
               n == Len(covOut)
    <3>1. covLast' = <<v>> /\ covOut' = Append(covOut, v)
      BY <2>3 DEF Notified
    <3>2. covOut \in Seq(Int) /\ n \in Nat /\ DOMAIN covOut = 1 .. n
      BY <2>1, LenProperties DEF CovInv
    <3>3. /\ covOut' \in Seq(Int) /\ Len(covOut') = n + 1 /\ covOut'[n + 1] = v
          /\ \A i \in 1 .. n : covOut'[i] = covOut[i]
      BY <1>2, <3>1, <3>2, AppendProperties
    <3>4. covOut' # <<>>
      BY <3>2, <3>3
    <3>5. ASSUME n > 0 PROVE Apart(v, covOut[n])
      <4>1. covOut # <<>> /\ n \in 1 .. n /\ covOut[n] \in Int
        BY <3>2, <3>5
      <4>2. covLast = <<covOut[n]>>
        BY <2>1, <4>1 DEF CovInv
      <4>3. covLast # <<>> /\ covLast[1] = covOut[n]
        BY <4>2
      <4>4. ~(v - covOut[n] < BacIncrement /\ covOut[n] - v < BacIncrement)
        BY <2>3, <4>3 DEF Near
      <4> HIDE DEF v, n
      <4>5. QED
        BY <1>2, <4>1, <4>4, BacAssumption DEF Apart, v
    <3>6. ASSUME NEW i \in 2 .. Len(covOut') PROVE Apart(covOut'[i], covOut'[i - 1])
      <4>1. CASE i = n + 1
        <5>1. n > 0 /\ i - 1 = n /\ n \in 1 .. n
          BY <3>2, <4>1
        <5>2. covOut'[i] = v /\ covOut'[i - 1] = covOut[n]
          BY <3>3, <4>1, <5>1
        <5>3. QED
          BY <3>5, <5>1, <5>2
      <4>2. CASE i # n + 1
        <5>1. i \in 2 .. n /\ i \in 1 .. n /\ i - 1 \in 1 .. n
          BY <3>2, <3>3, <4>2
        <5>2. covOut'[i] = covOut[i] /\ covOut'[i - 1] = covOut[i - 1]
          BY <3>3, <5>1
        <5>3. Apart(covOut[i], covOut[i - 1])
          BY <2>1, <5>1 DEF CovInv
        <5>4. QED
          BY <5>2, <5>3
      <4>3. QED
        BY <4>1, <4>2
    <3>7. covLast' = <<covOut'[Len(covOut')]>>
      BY <3>1, <3>3
    <3>8. (\A i \in 2 .. Len(covOut) : Apart(covOut[i], covOut[i - 1]))'
      BY <3>6 DEF Apart
    <3>9. QED
      BY <3>3, <3>4, <3>7, <3>8 DEF CovInv
  <2>4. QED
    BY <2>2, <2>3
<1>5. BacDoneInv'
  BY <1>1 DEF BacInv, BacDoneInv
<1>6. QED
  BY <1>1, <1>2, <1>3, <1>4, <1>5 DEF BacInv

(* Packets that are lost or that nobody waits for.                          *)
LEMMA BacLoses == ASSUME BacInv, NEW p \in bacToNode, Ignored(p) \/ PacketLost(p) PROVE BacInv'
<1>1. /\ bacToNode' \subseteq bacToNode /\ UNCHANGED <<bacPart, bacLeft, bacTries, bacAt, bacData, bacNext, bacToDevice>>
      /\ UNCHANGED <<bacInvoke, bacSnapshot, bacServed, bacResult, covLast, covOut>>
  BY DEF Ignored, PacketLost, bacDevice, covNode
<1>3. (\A q \in bacToNode : PacketInv(q)') /\ (\A r \in bacToDevice : RequestInv(r)')
  BY <1>1, PacketsStay
<1>4. (bacPart = "read" => BacReadInv') /\ BacDoneInv' /\ CovInv'
  BY <1>1 DEF BacInv, BacReadInv, BacDoneInv, CovInv
<1>5. QED
  BY <1>1, <1>3, <1>4 DEF BacInv

(* The device answers a request, or goes on with its reply.                 *)
LEMMA DeviceKeeps ==
  ASSUME BacInv, \/ \E r \in bacToDevice : DeviceServes(r) \/ DeviceRefuses(r) \/ DeviceContinues(r)
                 \/ \E v \in BacValues : DeviceChanges(v)
  PROVE  BacInv'
<1>1. /\ bacToDevice' = bacToDevice /\ UNCHANGED <<bacPart, bacLeft, bacInvoke, bacTries, bacAt, bacData, bacNext, bacResult>>
      /\ UNCHANGED <<covLast, covOut>> /\ bacServed \subseteq bacServed' /\ bacSnapshot' \in {bacSnapshot, bacSnapshot + 1}
  BY DEF DeviceServes, DeviceRefuses, DeviceContinues, DeviceChanges, bacDevice, covNode
<1>2. bacSnapshot \in Nat /\ bacSnapshot' \in Nat
  BY <1>1 DEF BacInv
<1>3. (\A p \in bacToNode : PacketInv(p)') /\ (\A r \in bacToDevice : RequestInv(r)')
  BY <1>1, PacketsStay
<1>4. BacSeqMod \in Nat /\ BacSeqMod > 0 /\ BacSegments \in 1 .. BacSeqMod /\ BacSegments \in Nat
  BY BacAssumption
<1>5. ASSUME NEW k \in Nat, k < BacSegments, NEW snap \in Nat, NEW id, NEW new, new = SegmentOf(k, snap, id), bacPart = "read"
      PROVE  PacketInv(new)'
  <2>1. k % BacSeqMod = k
    <3>1. k \in 0 .. BacSeqMod - 1 /\ k \in Int
      BY <1>4, <1>5
    <3>2. QED
      BY <1>4, <3>1, ModBelow
  <2>2. /\ new.kind = "complex" /\ new.body = [place |-> k, of |-> snap] /\ new.seq = k
        /\ new.segmented = (BacSegments > 1) /\ new.more = (k < BacSegments - 1)
    BY <1>5, <2>1 DEF SegmentOf
  <2>3. new.body \in Body /\ new.body.place = k
    BY <2>2 DEF Body
  <2>4. QED
    BY <1>1, <1>5, <2>2, <2>3 DEF PacketInv
<1>6. ASSUME NEW r \in bacToDevice, DeviceServes(r) PROVE \A q \in bacToNode' : PacketInv(q)'
  <2>1. PICK p : /\ bacToNode' = bacToNode \cup {p}
                 /\ p = IF bacPart = "read" THEN SegmentOf(0, bacSnapshot + 1, r.invoke)
                        ELSE [kind |-> "simple", invoke |-> r.invoke]
    BY <1>6 DEF DeviceServes
  <2>2. PICK id : id = r.invoke
    OBVIOUS
  <2>3. id \in bacServed'
    BY <1>6, <2>2 DEF DeviceServes
  <2>4. PacketInv(p)'
    <3>1. CASE bacPart = "read"
      <4>1. PICK snap \in Nat : snap = bacSnapshot + 1
        BY <1>2
      <4>2. p = SegmentOf(0, snap, id) /\ 0 < BacSegments
        BY <1>4, <2>1, <2>2, <3>1, <4>1
      <4>3. QED
        BY <1>5, <3>1, <4>2
    <3>2. CASE bacPart # "read"
      <4>1. p.kind = "simple" /\ p.invoke = id
        BY <2>1, <2>2, <3>2
      <4>2. QED
        BY <1>1, <2>3, <3>2, <4>1 DEF PacketInv
    <3>3. QED
      BY <3>1, <3>2
  <2>5. QED
    BY <1>3, <2>1, <2>4
<1>7. ASSUME NEW r \in bacToDevice, DeviceRefuses(r) PROVE \A q \in bacToNode' : PacketInv(q)'
  <2>1. PICK p : p = [kind |-> "error", invoke |-> r.invoke] /\ bacToNode' = bacToNode \cup {p}
    BY <1>7 DEF DeviceRefuses
  <2>2. p.kind = "error"
    BY <2>1
  <2>3. PacketInv(p)'
    BY <2>2 DEF PacketInv
  <2>4. QED
    BY <1>3, <2>1, <2>3
<1>8. ASSUME NEW a \in bacToDevice, DeviceContinues(a) PROVE \A q \in bacToNode' : PacketInv(q)'
  <2> DEFINE k == (a.seq + 1) % BacSeqMod
  <2>1. bacPart = "read" /\ a.seq \in Int
    BY <1>8 DEF DeviceContinues, BacInv, RequestInv
  <2>2. k \in Nat
    <3>1. a.seq + 1 \in Int
      BY <2>1
    <3>2. QED
      BY <1>4, <3>1, ModBelow
  <2>3. bacToNode' = IF k < BacSegments THEN bacToNode \cup {SegmentOf(k, bacSnapshot, a.invoke)} ELSE bacToNode
    BY <1>8 DEF DeviceContinues
  <2> HIDE DEF k
  <2>4. CASE k < BacSegments
    <3>1. PICK new, id : new = SegmentOf(k, bacSnapshot, id) /\ id = a.invoke
      OBVIOUS
    <3>2. PacketInv(new)'
      BY <1>2, <1>5, <2>1, <2>2, <2>4, <3>1
    <3>3. QED
      BY <1>3, <2>3, <2>4, <3>1, <3>2
  <2>5. QED
    BY <1>3, <2>3, <2>4
<1>9. ASSUME NEW v \in BacValues, DeviceChanges(v) PROVE \A q \in bacToNode' : PacketInv(q)'
  <2>1. PICK new : new = [kind |-> "notify", invoke |-> 0, body |-> v]
    OBVIOUS
  <2>2. bacToNode' = bacToNode \cup {new}
    BY <1>9, <2>1 DEF DeviceChanges
  <2>3. new.kind = "notify" /\ new.body \in Int
    BY <2>1, BacAssumption
  <2>4. PacketInv(new)'
    BY <2>3 DEF PacketInv
  <2>5. QED
    BY <1>3, <2>2, <2>4
<1>10. \A q \in bacToNode' : PacketInv(q)'
  BY <1>6, <1>7, <1>8, <1>9
<1>11. (bacPart = "read" => BacReadInv') /\ BacDoneInv' /\ CovInv'
  BY <1>1 DEF BacInv, BacReadInv, BacDoneInv, CovInv
<1>12. QED
  BY <1>1, <1>2, <1>3, <1>10, <1>11 DEF BacInv

(* What the bacnet nodes send on, for any number of retries, properties, segments (up
   to the number of sequence numbers) and values, whichever packets are lost, repeated
   or overtaken: a read is one complete value per property with every segment at its
   place, although a retry keeps its invoke id and takes late segments of an earlier
   try (confirmed_request, handle_apdu); a write reported as done and a subscription
   that listens were performed under the id of that request; values of a subscription
   are an increment apart (cov_message).                                    *)
THEOREM BacnetIsFaithful == BacSpec => []BacnetReports
<1>1. BacInit => BacInv
  <2> SUFFICES ASSUME BacInit PROVE BacInv
    OBVIOUS
  <2>1. /\ bacTries = 0 /\ bacAt = "start" /\ bacToNode = {} /\ bacToDevice = {} /\ bacSnapshot = 0 /\ bacServed = {}
        /\ bacResult = <<>> /\ bacData = <<>> /\ covOut = <<>> /\ covLast = <<>>
    BY DEF BacInit
  <2>2. bacPart = "read" => bacLeft = BacProperties
    BY DEF BacInit
  <2>3. bacPart = "read" => BacReadInv
    <3>1. <<>> \in Seq(Body) /\ <<>> \in Seq(Seq(Body)) /\ DOMAIN <<>> = {} /\ Len(<<>>) = 0
      OBVIOUS
    <3>2. Len(BacProperties) \in Nat /\ BacProperties \in Seq(STRING)
      BY BacAssumption, LenProperties
    <3>3. QED
      BY <2>1, <2>2, <3>1, <3>2 DEF BacReadInv
  <2>4. BacDoneInv
    BY <2>1 DEF BacDoneInv
  <2>5. CovInv
    BY <2>1 DEF CovInv
  <2>6. QED
    BY <2>1, <2>3, <2>4, <2>5, BacAssumption DEF BacInv
<1>2. BacInv /\ [BacNext]_bacVars => BacInv'
  <2> SUFFICES ASSUME BacInv, [BacNext]_bacVars PROVE BacInv'
    OBVIOUS
  <2>1. CASE BacNext
    <3>1. CASE Begin \/ Send \/ Timeout \/ OutOfTries \/ SocketFails \/ Renew \/ CovStops
      BY <3>1, BacMoves, BacFails DEF OutOfTries, SocketFails
    <3>2. ASSUME NEW p \in bacToNode,
                 Segment(p) \/ SimpleAck(p) \/ Refused(p) \/ Ignored(p) \/ Notified(p) \/ PacketLost(p)
          PROVE  BacInv'
      BY <3>2, SegmentKeeps, SimpleAckKeeps, BacFails, BacLoses, NotifiedKeeps DEF Refused
    <3>3. QED
      BY <2>1, <3>1, <3>2, DeviceKeeps DEF BacNext
  <2>2. CASE UNCHANGED bacVars
    <3>1. /\ UNCHANGED <<bacPart, bacLeft, bacInvoke, bacTries, bacAt, bacData, bacNext, bacToDevice, bacToNode>>
          /\ UNCHANGED <<bacSnapshot, bacServed, bacResult, covLast, covOut>>
      BY <2>2 DEF bacVars
    <3>2. QED
      BY <3>1 DEF BacInv, PacketInv, RequestInv, BacReadInv, BacDoneInv, CovInv
  <2>3. QED
    BY <2>1, <2>2
<1>3. BacInv => BacnetReports
  <2> SUFFICES ASSUME BacInv PROVE BacnetReports
    OBVIOUS
  <2>1. \A i \in DOMAIN bacResult : bacPart = "read" =>
          Len(bacResult[i]) = BacSegments /\ \A k \in DOMAIN bacResult[i] : bacResult[i][k].place = k - 1
    BY DEF BacInv, BacReadInv, Whole
  <2>2. ASSUME bacAt = "done", bacPart = "read" PROVE Len(bacResult) = Len(BacProperties)
    <3>1. Len(bacResult) + 0 = Len(BacProperties) /\ Len(bacResult) \in Nat
      <4>1. bacLeft = <<>> /\ bacResult \in Seq(Seq(Body)) /\ Len(bacResult) + Len(bacLeft) = Len(BacProperties)
        BY <2>2 DEF BacInv, BacReadInv
      <4>2. QED
        BY <4>1, LenProperties
    <3>2. QED
      BY <3>1
  <2>3. (bacAt = "done" /\ bacPart = "write") \/ bacAt = "listen" => bacInvoke \in bacServed
    BY DEF BacInv, BacDoneInv
  <2>4. \A i \in 2 .. Len(covOut) : covOut[i] - covOut[i-1] >= BacIncrement \/ covOut[i-1] - covOut[i] >= BacIncrement
    BY DEF BacInv, CovInv, Apart
  <2>5. QED
    BY <2>1, <2>2, <2>3, <2>4 DEF BacnetReports
<1>4. QED
  BY <1>1, <1>2, <1>3, PTL DEF BacSpec

-----------------------------------------------------------------------------
(* DbNodes.                                                                 *)

DbRow == Nat \X Nat
DbPart == [rows : Seq(DbRow), index : Int, count : Nat]
DbOut == {"error", "rows"} \cup DbPart
DbConn == [pool : Nat, user : Nat, up : BOOLEAN, todo : Seq(Nat)]
DbEarly == {"prepare", "look", "create", "get", "run"}
DbQuery == [at : DbEarly \cup {"wait", "send", "done"}, pool : Nat, conn : Nat,
            outcome : {"none", "refused", "rows", "error", "timeout"}, rows : Seq(DbRow), out : Seq(DbOut)]

Among(s, m) == \E i \in DOMAIN s : s[i] = m
Distinct(s) == \A i, j \in DOMAIN s : s[i] = s[j] => i = j

DbTypes ==
  /\ dbPools \in {0, 1} /\ dbConns \in Seq(DbConn) /\ dbQ \in Seq(DbQuery)
  /\ dbApplied \in Seq({0, 1}) /\ Len(dbApplied) = Len(dbQ)
  /\ dbKind = "sqlite" => Len(dbConns) >= 1

(* A query whose statement cannot have run.                                 *)
Unsent(q) == q.at \in DbEarly \/ q.outcome = "refused"

(* A statement waits at one place of one connection, and has not run as long as it does.  *)
TodoInv ==
  /\ \A c \in DOMAIN dbConns : Distinct(dbConns[c].todo)
  /\ \A c, d \in DOMAIN dbConns : \A j \in Nat : Among(dbConns[c].todo, j) /\ Among(dbConns[d].todo, j) => c = d
  /\ \A c \in DOMAIN dbConns : \A j \in Nat : Among(dbConns[c].todo, j) =>
        j \in DOMAIN dbQ /\ dbApplied[j] = 0 /\ ~Unsent(dbQ[j])

PartOf(rows, k) == [rows |-> Group(rows, k), index |-> k - 1, count |-> IF k = Groups(rows) THEN k ELSE 0]

(* A split result: the parts sent so far.                                   *)
SplitOk(q) ==
  /\ q.at \in DbEarly \cup {"wait"} => q.out = <<>>
  /\ q.at = "send" => Len(q.out) < Groups(q.rows)
  /\ q.at = "done" /\ q.outcome = "rows" => Len(q.out) = Groups(q.rows)
  /\ q.at \in {"send", "done"} => \A k \in DOMAIN q.out : q.out[k] = PartOf(q.rows, k)

(* A query and how often its statement ran.                                 *)
QueryOk(q, applied, kind) ==
  /\ Unsent(q) => applied = 0
  /\ q.outcome = "rows" => applied = 1
  /\ q.at \in DbEarly \cup {"wait"} => q.outcome = "none"
  /\ kind = "contrib" => SplitOk(q)

(* The connection of query j is its own as long as it is up.                *)
UserOk(q, j, conns) ==
  q.conn # 0 => /\ q.conn \in DOMAIN conns /\ q.at \in {"run", "wait"}
                /\ conns[q.conn].up => conns[q.conn].user = j

UpConns == {c \in DOMAIN dbConns : dbConns[c].up}

(* All connections are of the one pool.                                     *)
PoolInv ==
  Pooled => /\ \A c \in DOMAIN dbConns : dbConns[c].pool = 1
            /\ \A j \in DOMAIN dbQ : dbQ[j].at = "get" => dbQ[j].pool = 1
            /\ Cardinality(UpConns) <= DbMax

DbQueriesInv == \A j \in DOMAIN dbQ : QueryOk(dbQ[j], dbApplied[j], dbKind) /\ UserOk(dbQ[j], j, dbConns)

DbInv == DbTypes /\ TodoInv /\ PoolInv /\ DbQueriesInv

LEMMA DbDomains ==
  ASSUME DbTypes
  PROVE  /\ DOMAIN dbConns = 1 .. Len(dbConns) /\ Len(dbConns) \in Nat
         /\ DOMAIN dbQ = 1 .. Len(dbQ) /\ Len(dbQ) \in Nat /\ DOMAIN dbApplied = DOMAIN dbQ
         /\ \A j \in DOMAIN dbQ : dbQ[j] \in DbQuery /\ dbApplied[j] \in {0, 1} /\ j \in Nat \ {0}
         /\ \A c \in DOMAIN dbConns : dbConns[c] \in DbConn /\ dbConns[c].todo \in Seq(Nat) /\ c \in Nat \ {0}
<1>1. dbConns \in Seq(DbConn) /\ dbQ \in Seq(DbQuery) /\ dbApplied \in Seq({0, 1}) /\ Len(dbApplied) = Len(dbQ)
  BY DEF DbTypes
<1>2. /\ DOMAIN dbConns = 1 .. Len(dbConns) /\ Len(dbConns) \in Nat /\ DOMAIN dbQ = 1 .. Len(dbQ)
      /\ Len(dbQ) \in Nat /\ DOMAIN dbApplied = 1 .. Len(dbApplied)
  BY <1>1, LenProperties
<1>3. \A j \in DOMAIN dbQ : dbQ[j] \in DbQuery /\ dbApplied[j] \in {0, 1} /\ j \in Nat \ {0}
  BY <1>1, <1>2, ElementOfSeq
<1>4. \A c \in DOMAIN dbConns : dbConns[c] \in DbConn /\ c \in Nat \ {0}
  BY <1>1, <1>2, ElementOfSeq
<1>5. \A c \in DOMAIN dbConns : dbConns[c].todo \in Seq(Nat)
  BY <1>4 DEF DbConn
<1>6. QED
  BY <1>1, <1>2, <1>3, <1>4, <1>5

(* What a step for query j leaves alone: the other queries, and their connections.  *)
DbFrame(j) ==
  /\ dbKind' = dbKind /\ dbPools' \in {0, 1}
  /\ dbQ' \in Seq(DbQuery) /\ Len(dbQ') = Len(dbQ) /\ \A k \in DOMAIN dbQ \ {j} : dbQ'[k] = dbQ[k]
  /\ dbApplied' \in Seq({0, 1}) /\ Len(dbApplied') = Len(dbApplied)
  /\ \A k \in DOMAIN dbQ \ {j} : dbApplied'[k] = dbApplied[k]
  /\ dbConns' \in Seq(DbConn) /\ Len(dbConns') >= Len(dbConns)
  /\ \A c \in DOMAIN dbConns :
        /\ dbConns'[c].up = dbConns[c].up /\ dbConns'[c].pool = dbConns[c].pool
        /\ dbConns[c].up => dbConns'[c].user = dbConns[c].user \/ dbConns[c].user \in {0, j}

(* What it has to see to itself.                                            *)
DbSeesTo(j) ==
  /\ QueryOk(dbQ'[j], dbApplied'[j], dbKind) /\ UserOk(dbQ'[j], j, dbConns')
  /\ Pooled => /\ \A c \in DOMAIN dbConns' \ DOMAIN dbConns : dbConns'[c].pool = 1
               /\ dbQ'[j].at = "get" => dbQ'[j].pool = 1
               /\ Len(dbConns') = Len(dbConns) \/ Cardinality(UpConns') <= DbMax

LEMMA DbKeeps ==
  ASSUME DbInv, NEW j \in DOMAIN dbQ, DbFrame(j), DbSeesTo(j)
  PROVE  DbTypes' /\ PoolInv' /\ DbQueriesInv'
<1>1. DbTypes'
  BY DEF DbInv, DbTypes, DbFrame
<1>2. /\ DOMAIN dbQ' = DOMAIN dbQ /\ DOMAIN dbConns' = 1 .. Len(dbConns') /\ Len(dbConns') \in Nat
      /\ DOMAIN dbQ = 1 .. Len(dbQ) /\ DOMAIN dbConns = 1 .. Len(dbConns) /\ Len(dbConns) \in Nat /\ Len(dbConns') >= Len(dbConns)
      /\ DOMAIN dbConns \subseteq DOMAIN dbConns'
  <2>1. DbTypes /\ dbQ' \in Seq(DbQuery) /\ Len(dbQ') = Len(dbQ) /\ dbConns' \in Seq(DbConn) /\ Len(dbConns') >= Len(dbConns)
    BY DEF DbInv, DbFrame
  <2>2. DOMAIN dbQ' = 1 .. Len(dbQ') /\ DOMAIN dbConns' = 1 .. Len(dbConns') /\ Len(dbConns') \in Nat
    BY <2>1, LenProperties
  <2>3. QED
    BY <2>1, <2>2, DbDomains
<1>3. ASSUME NEW k \in DOMAIN dbQ' PROVE QueryOk(dbQ[k], dbApplied[k], dbKind)' /\ UserOk(dbQ'[k], k, dbConns')
  <2>1. CASE k = j
    BY <2>1 DEF DbSeesTo, DbFrame
  <2>2. CASE k # j
    <3>1. dbQ'[k] = dbQ[k] /\ dbApplied'[k] = dbApplied[k] /\ dbKind' = dbKind
      BY <1>2, <1>3, <2>2 DEF DbFrame
    <3>2. QueryOk(dbQ[k], dbApplied[k], dbKind) /\ UserOk(dbQ[k], k, dbConns)
      BY <1>2, <1>3 DEF DbInv, DbQueriesInv
    <3>3. ASSUME dbQ[k].conn # 0 PROVE dbConns'[dbQ[k].conn].up => dbConns'[dbQ[k].conn].user = k
      <4>1. k # 0
        BY <1>2, <1>3, DbDomains DEF DbInv
      <4>2. QED
        BY <2>2, <3>2, <3>3, <4>1 DEF UserOk, DbFrame
    <3>4. QED
      BY <1>2, <3>1, <3>2, <3>3 DEF UserOk
  <2>3. QED
    BY <2>1, <2>2
<1>4. DbQueriesInv'
  BY <1>3 DEF DbQueriesInv
<1>5. PoolInv'
  <2> SUFFICES ASSUME Pooled PROVE /\ \A c \in DOMAIN dbConns' : dbConns'[c].pool = 1
                                   /\ \A k \in DOMAIN dbQ' : dbQ'[k].at = "get" => dbQ'[k].pool = 1
                                   /\ Cardinality(UpConns') <= DbMax
    BY DEF PoolInv, Pooled, DbFrame
  <2>1. \A c \in DOMAIN dbConns' : dbConns'[c].pool = 1
    <3>1. \A c \in DOMAIN dbConns' \ DOMAIN dbConns : dbConns'[c].pool = 1
      BY DEF DbSeesTo
    <3>2. \A c \in DOMAIN dbConns : dbConns'[c].pool = dbConns[c].pool
      BY DEF DbFrame
    <3>3. \A c \in DOMAIN dbConns : dbConns[c].pool = 1
      BY DEF DbInv, PoolInv
    <3>4. QED
      BY <3>1, <3>2, <3>3
  <2>2. \A k \in DOMAIN dbQ' : dbQ'[k].at = "get" => dbQ'[k].pool = 1
    BY <1>2 DEF DbSeesTo, DbFrame, DbInv, PoolInv
  <2>3. Cardinality(UpConns') <= DbMax
    <3>1. CASE Len(dbConns') = Len(dbConns)
      <4>1. UpConns' = UpConns
        BY <1>2, <3>1 DEF UpConns, DbFrame
      <4>2. QED
        BY <4>1 DEF DbInv, PoolInv
    <3>2. QED
      BY <3>1 DEF DbSeesTo
  <2>4. QED
    BY <2>1, <2>2, <2>3
<1>6. QED
  BY <1>1, <1>4, <1>5

(* No statement is queued, and no query goes back to before its statement.  *)
LEMMA TodoStays ==
  ASSUME DbInv, NEW j \in DOMAIN dbQ, DbFrame(j), dbApplied' = dbApplied, Unsent(dbQ'[j]) => Unsent(dbQ[j]),
         \A c \in DOMAIN dbConns : dbConns'[c].todo = dbConns[c].todo,
         \A c \in DOMAIN dbConns' \ DOMAIN dbConns : dbConns'[c].todo = <<>>
  PROVE  TodoInv'
<1>1. DOMAIN dbQ' = DOMAIN dbQ
  <2>1. dbQ \in Seq(DbQuery) /\ dbQ' \in Seq(DbQuery) /\ Len(dbQ') = Len(dbQ)
    BY DEF DbInv, DbTypes, DbFrame
  <2>2. QED
    BY <2>1, LenProperties
<1>2. \A c \in DOMAIN dbConns' : c \in DOMAIN dbConns \/ (Distinct(dbConns'[c].todo) /\ \A m : ~Among(dbConns'[c].todo, m))
  BY DEF Distinct, Among
<1>3. \A k \in DOMAIN dbQ : Unsent(dbQ'[k]) => Unsent(dbQ[k])
  BY DEF DbFrame
<1>4. QED
  <2>1. (\A c \in DOMAIN dbConns : Distinct(dbConns[c].todo))'
    BY <1>2 DEF DbInv, TodoInv
  <2>2. ASSUME NEW c \in DOMAIN dbConns', NEW k \in Nat, Among(dbConns'[c].todo, k)
        PROVE  c \in DOMAIN dbConns /\ Among(dbConns[c].todo, k) /\ k \in DOMAIN dbQ /\ dbApplied[k] = 0 /\ ~Unsent(dbQ[k])
    BY <1>2, <2>2 DEF DbInv, TodoInv
  <2>3. QED
    BY <1>1, <1>3, <2>1, <2>2 DEF DbInv, TodoInv

(* One element of a sequence is replaced.                                   *)
LEMMA SeqSet ==
  ASSUME NEW S, NEW s \in Seq(S), NEW i \in DOMAIN s, NEW e \in S
  PROVE  /\ [s EXCEPT ![i] = e] \in Seq(S) /\ Len([s EXCEPT ![i] = e]) = Len(s)
         /\ [s EXCEPT ![i] = e][i] = e /\ \A k \in DOMAIN s \ {i} : [s EXCEPT ![i] = e][k] = s[k]
         /\ DOMAIN [s EXCEPT ![i] = e] = DOMAIN s
<1>1. DOMAIN s = 1 .. Len(s) /\ Len(s) \in Nat
  BY LenProperties
<1>2. QED
  BY <1>1, ExceptSeq

LEMMA GiveBack ==
  ASSUME NEW conns \in Seq(DbConn), NEW c \in DOMAIN conns \cup {0}, 0 \notin DOMAIN conns
  PROVE  /\ Give(conns, c) \in Seq(DbConn) /\ Len(Give(conns, c)) = Len(conns)
         /\ DOMAIN Give(conns, c) = DOMAIN conns
         /\ \A d \in DOMAIN conns : /\ Give(conns, c)[d].up = conns[d].up /\ Give(conns, c)[d].pool = conns[d].pool
                                    /\ Give(conns, c)[d].todo = conns[d].todo
                                    /\ d # c => Give(conns, c)[d].user = conns[d].user
<1>1. CASE c = 0
  BY <1>1 DEF Give
<1>2. CASE c \in DOMAIN conns
  <2> DEFINE e == [conns[c] EXCEPT !.user = 0]
  <2>1. conns[c] \in DbConn
    BY <1>2, ElementOfSeq, LenProperties
  <2>2. e \in DbConn /\ e.up = conns[c].up /\ e.pool = conns[c].pool /\ e.todo = conns[c].todo
    BY <2>1 DEF DbConn
  <2>3. Give(conns, c) = [conns EXCEPT ![c] = e]
    BY <1>2 DEF Give
  <2> HIDE DEF e
  <2>4. QED
    BY <1>2, <2>2, <2>3, SeqSet
<1>3. QED
  BY <1>1, <1>2

(* The query of the step, as a whole.                                       *)
LEMMA QuerySet ==
  ASSUME DbTypes, NEW j \in DOMAIN dbQ, NEW q \in DbQuery, dbQ' = [dbQ EXCEPT ![j] = q]
  PROVE  /\ dbQ' \in Seq(DbQuery) /\ Len(dbQ') = Len(dbQ) /\ dbQ'[j] = q
         /\ \A k \in DOMAIN dbQ \ {j} : dbQ'[k] = dbQ[k]
BY SeqSet DEF DbTypes

LEMMA FailKeeps ==
  ASSUME DbInv, NEW j \in DOMAIN dbQ, NEW outcome \in {"refused", "timeout"}, Fail(j, outcome),
         UNCHANGED <<dbKind, dbApplied>>, dbPools' \in {0, 1}, outcome = "refused" => Unsent(dbQ[j]),
         dbQ[j].at \in DbEarly \cup {"wait"}
  PROVE  DbInv'
<1> DEFINE q == [dbQ[j] EXCEPT !.at = "done", !.outcome = outcome, !.conn = 0,
                               !.out = IF dbKind = "contrib" THEN <<>> ELSE <<"error">>]
<1>1. DbTypes /\ dbQ[j] \in DbQuery /\ j \in Nat \ {0} /\ 0 \notin DOMAIN dbConns
  BY DbDomains DEF DbInv
<1>2. q \in DbQuery
  <2>1. <<>> \in Seq(DbOut) /\ <<"error">> \in Seq(DbOut)
    <3>1. "error" \in DbOut
      BY DEF DbOut
    <3>2. QED
      BY <3>1
  <2>2. QED
    BY <1>1, <2>1 DEF DbQuery
<1>3. /\ q.at = "done" /\ q.outcome = outcome /\ q.conn = 0 /\ q.rows = dbQ[j].rows
      /\ dbKind = "contrib" => q.out = <<>>
  BY <1>1 DEF DbQuery
<1>4. dbQ' = [dbQ EXCEPT ![j] = q]
  BY DEF Fail
<1> HIDE DEF q
<1>5. /\ dbQ' \in Seq(DbQuery) /\ Len(dbQ') = Len(dbQ) /\ dbQ'[j] = q
      /\ \A k \in DOMAIN dbQ \ {j} : dbQ'[k] = dbQ[k]
  BY <1>1, <1>2, <1>4, QuerySet
<1>6. UserOk(dbQ[j], j, dbConns) /\ QueryOk(dbQ[j], dbApplied[j], dbKind)
  BY DEF DbInv, DbQueriesInv
<1>7. /\ dbConns' \in Seq(DbConn) /\ Len(dbConns') = Len(dbConns) /\ DOMAIN dbConns' = DOMAIN dbConns
      /\ \A d \in DOMAIN dbConns : /\ dbConns'[d].up = dbConns[d].up /\ dbConns'[d].pool = dbConns[d].pool
                                   /\ dbConns'[d].todo = dbConns[d].todo
                                   /\ d # dbQ[j].conn => dbConns'[d].user = dbConns[d].user
  <2>1. dbConns' = Give(dbConns, dbQ[j].conn) /\ dbConns \in Seq(DbConn)
    BY <1>1 DEF Fail, DbTypes
  <2>2. dbQ[j].conn \in DOMAIN dbConns \cup {0}
    BY <1>6 DEF UserOk
  <2>3. QED
    BY <1>1, <2>1, <2>2, GiveBack
<1>8. DbFrame(j)
  <2>1. \A c \in DOMAIN dbConns : dbConns[c].up => dbConns'[c].user = dbConns[c].user \/ dbConns[c].user \in {0, j}
    <3>1. 0 \notin DOMAIN dbConns
      BY <1>1
    <3>2. QED
      BY <1>6, <1>7, <3>1 DEF UserOk
  <2>2. Len(dbConns) \in Nat /\ dbApplied \in Seq({0, 1})
    BY <1>1, DbDomains DEF DbTypes
  <2>3. QED
    BY <1>5, <1>7, <2>1, <2>2 DEF DbFrame
<1>9. QueryOk(q, dbApplied[j], dbKind)
  <2>1. Unsent(q) => dbApplied[j] = 0
    BY <1>3, <1>6 DEF Unsent, QueryOk, DbEarly
  <2>2. dbKind = "contrib" => SplitOk(q)
    BY <1>3 DEF SplitOk, DbEarly
  <2>3. QED
    BY <1>3, <2>1, <2>2 DEF QueryOk, DbEarly
<1>10. DbSeesTo(j)
  BY <1>3, <1>5, <1>7, <1>9 DEF DbSeesTo, UserOk
<1>11. Unsent(q) => Unsent(dbQ[j])
  BY <1>3 DEF Unsent, DbEarly
<1>12. TodoInv'
  BY <1>5, <1>7, <1>8, <1>11, TodoStays
<1>13. QED
  BY <1>8, <1>10, <1>12, DbKeeps DEF DbInv

(* As many groups as the rows need.                                         *)
LEMMA GroupsCount ==
  ASSUME NEW rows \in Seq(DbRow)
  PROVE  /\ Groups(rows) \in Nat \ {0} /\ Groups(rows) * DbPerMsg >= Len(rows) /\ Len(rows) \in Nat
         /\ rows = <<>> => Groups(rows) = 1
         /\ rows # <<>> => Groups(rows) * DbPerMsg < Len(rows) + DbPerMsg
<1> DEFINE n == Len(rows)
<1>1. n \in Nat /\ DbPerMsg \in Nat \ {0} /\ (n = 0 <=> rows = <<>>)
  BY DbAssumption, EmptySeq, LenProperties
<1>2. CASE rows = <<>>
  <2>1. Groups(rows) = 1 /\ n = 0
    BY <1>1, <1>2 DEF Groups
  <2>2. 1 * DbPerMsg >= 0
    BY <1>1
  <2>3. QED
    BY <1>2, <2>1, <2>2
<1>3. CASE rows # <<>>
  <2>1. Groups(rows) = (n + DbPerMsg - 1) \div DbPerMsg /\ n > 0
    BY <1>1, <1>3 DEF Groups
  <2> HIDE DEF n
  <2> DEFINE m == DbPerMsg
  <2>2. m \in Nat \ {0}
    BY <1>1
  <2> HIDE DEF m
  <2> DEFINE g == (n + m - 1) \div m
  <2>3. g \in Nat \ {0} /\ g * m >= n /\ g * m < n + m
    BY <1>1, <2>1, <2>2
  <2>4. Groups(rows) = g
    BY <2>1 DEF m
  <2> HIDE DEF g
  <2>5. QED
    BY <1>1, <1>3, <2>3, <2>4 DEF m, n
<1>4. QED
  BY <1>2, <1>3

(* Group k holds the rows behind those of the groups before it.             *)
LEMMA GroupHolds ==
  ASSUME NEW rows \in Seq(DbRow), NEW k \in Nat \ {0}
  PROVE  /\ Group(rows, k) \in Seq(DbRow)
         /\ DOMAIN Group(rows, k) = {r \in 1 .. DbPerMsg : (k - 1) * DbPerMsg + r <= Len(rows)}
         /\ \A r \in DOMAIN Group(rows, k) : Group(rows, k)[r] = rows[(k - 1) * DbPerMsg + r]
<1> DEFINE n == Len(rows)
           b == (k - 1) * DbPerMsg
           p == k * DbPerMsg
           e == IF p < n THEN p ELSE n
<1>1. n \in Nat /\ DbPerMsg \in Nat \ {0} /\ DOMAIN rows = 1 .. n /\ \A i \in 1 .. n : rows[i] \in DbRow
  BY DbAssumption, LenProperties, ElementOfSeq
<1>2. b \in Nat /\ p = b + DbPerMsg
  BY <1>1
<1>3. Group(rows, k) = SubSeq(rows, b + 1, e)
  BY DEF Group
<1> HIDE DEF n, b, p
<1>4. e \in Nat /\ e <= n /\ e <= b + DbPerMsg /\ (e = n \/ e = b + DbPerMsg)
  BY <1>1, <1>2
<1> HIDE DEF e
<1>5. SubSeq(rows, b + 1, e) = [r \in 1 .. (1 + e - (b + 1)) |-> rows[r + (b + 1) - 1]]
  BY <1>1, <1>2, <1>4
<1>6. SubSeq(rows, b + 1, e) = [r \in 1 .. e - b |-> rows[b + r]]
  BY <1>1, <1>2, <1>4, <1>5
<1>7. \A r \in 1 .. e - b : rows[b + r] \in DbRow
  BY <1>1, <1>2, <1>4
<1>8. 1 .. e - b = {r \in 1 .. DbPerMsg : b + r <= n}
  BY <1>1, <1>2, <1>4
<1>9. [r \in 1 .. e - b |-> rows[b + r]] \in Seq(DbRow)
  <2>1. PICK l \in Nat : 1 .. e - b = 1 .. l
    <3>1. CASE e - b \in Nat
      BY <3>1
    <3>2. CASE e - b \notin Nat
      <4>1. 1 .. e - b = 1 .. 0
        BY <1>2, <1>4, <3>2
      <4>2. QED
        BY <4>1
    <3>3. QED
      BY <3>1, <3>2
  <2>2. [r \in 1 .. l |-> rows[b + r]] \in Seq(DbRow)
    <3>1. \A r \in 1 .. l : rows[b + r] \in DbRow
      BY <1>7, <2>1
    <3>2. [r \in 1 .. l |-> rows[b + r]] \in [1 .. l -> DbRow]
      BY <3>1
    <3>3. QED
      BY <3>2, SeqDef
  <2>3. QED
    BY <2>1, <2>2
<1>10. QED
  BY <1>3, <1>6, <1>8, <1>9 DEF n, b

(* All groups together, as parts.                                           *)
LEMMA GroupsPart ==
  ASSUME NEW rows \in Seq(DbRow), NEW parts \in Seq(DbOut), Len(parts) = Groups(rows),
         \A k \in DOMAIN parts : parts[k] = PartOf(rows, k)
  PROVE  PartsHold(rows, parts)
<1> DEFINE g == Groups(rows)
           n == Len(rows)
<1>1. /\ g \in Nat \ {0} /\ g * DbPerMsg >= n /\ n \in Nat
      /\ rows = <<>> => g = 1
      /\ rows # <<>> => g * DbPerMsg < n + DbPerMsg
  BY GroupsCount
<1>2. DOMAIN parts = 1 .. g /\ DbPerMsg \in Nat \ {0} /\ (n = 0 <=> rows = <<>>)
  BY LenProperties, EmptySeq, DbAssumption
<1>3. ASSUME NEW k \in DOMAIN parts
      PROVE  /\ DOMAIN parts[k].rows = {r \in 1 .. DbPerMsg : (k - 1) * DbPerMsg + r <= Len(rows)}
             /\ \A r \in DOMAIN parts[k].rows : parts[k].rows[r] = rows[(k - 1) * DbPerMsg + r]
             /\ parts[k].rows = <<>> => rows = <<>> /\ Len(parts) = 1
             /\ parts[k].count = IF k = Len(parts) THEN Len(parts) ELSE 0
  <2>1. parts[k].rows = Group(rows, k) /\ parts[k].count = IF k = g THEN k ELSE 0
    BY DEF PartOf
  <2>2. k \in Nat \ {0} /\ k <= g
    BY <1>1, <1>2
  <2>3. /\ DOMAIN parts[k].rows = {r \in 1 .. DbPerMsg : (k - 1) * DbPerMsg + r <= Len(rows)}
        /\ \A r \in DOMAIN parts[k].rows : parts[k].rows[r] = rows[(k - 1) * DbPerMsg + r]
    <3>1. /\ DOMAIN Group(rows, k) = {r \in 1 .. DbPerMsg : (k - 1) * DbPerMsg + r <= Len(rows)}
          /\ \A r \in DOMAIN Group(rows, k) : Group(rows, k)[r] = rows[(k - 1) * DbPerMsg + r]
      BY <2>2, GroupHolds
    <3>2. QED
      BY <2>1, <3>1
  <2>4. ASSUME parts[k].rows = <<>> PROVE rows = <<>>
    <3>1. SUFFICES ASSUME rows # <<>> PROVE FALSE
      OBVIOUS
    <3>2. DOMAIN parts[k].rows = {}
      BY <2>4
    <3>3. ~((k - 1) * DbPerMsg + 1 <= n)
      <4>1. 1 \in 1 .. DbPerMsg
        BY <1>2
      <4>2. {r \in 1 .. DbPerMsg : (k - 1) * DbPerMsg + r <= Len(rows)} = {}
        BY <2>3, <3>2
      <4>3. QED
        BY <4>1, <4>2, Zenon
    <3> HIDE DEF g, n
    <3>4. (k - 1) * DbPerMsg <= (g - 1) * DbPerMsg /\ (g - 1) * DbPerMsg = g * DbPerMsg - DbPerMsg
      BY <1>1, <1>2, <2>2
    <3>5. (k - 1) * DbPerMsg \in Int /\ g * DbPerMsg \in Int
      BY <1>1, <1>2, <2>2
    <3>6. QED
      BY <1>1, <1>2, <3>1, <3>3, <3>4, <3>5
  <2>5. QED
    BY <1>1, <2>1, <2>3, <2>4
<1>4. QED
  BY <1>1, <1>3 DEF PartsHold

(* A step that moves a query without a connection.                          *)
LEMMA QueryMoves ==
  ASSUME DbInv, NEW j \in DOMAIN dbQ, NEW q \in DbQuery, dbQ' = [dbQ EXCEPT ![j] = q],
         UNCHANGED <<dbKind, dbApplied, dbConns>>, dbPools' \in {0, 1}, QueryOk(q, dbApplied[j], dbKind),
         q.conn = 0, Unsent(q) => Unsent(dbQ[j]), Pooled /\ q.at = "get" => q.pool = 1
  PROVE  DbInv'
<1>1. DbTypes /\ dbConns \in Seq(DbConn) /\ dbApplied \in Seq({0, 1}) /\ Len(dbConns) \in Nat
  BY DbDomains DEF DbInv, DbTypes
<1>2. /\ dbQ' \in Seq(DbQuery) /\ Len(dbQ') = Len(dbQ) /\ dbQ'[j] = q
      /\ \A k \in DOMAIN dbQ \ {j} : dbQ'[k] = dbQ[k]
  BY <1>1, QuerySet
<1>3. DbFrame(j)
  BY <1>1, <1>2 DEF DbFrame
<1>4. DbSeesTo(j)
  BY <1>1, <1>2 DEF DbSeesTo, UserOk
<1>5. TodoInv'
  BY <1>2, <1>3, TodoStays
<1>6. QED
  BY <1>3, <1>4, <1>5, DbKeeps DEF DbInv

(* A query on its way to its connection.                                    *)
LEMMA EarlyMoves ==
  ASSUME DbInv, NEW j \in DOMAIN dbQ, dbQ[j].at \in {"prepare", "look", "create"},
         NEW at \in DbEarly, NEW pool \in Nat, at = "get" => pool = 1,
         dbQ' = [dbQ EXCEPT ![j] = [dbQ[j] EXCEPT !.at = at, !.pool = pool]],
         UNCHANGED <<dbKind, dbApplied, dbConns>>, dbPools' \in {0, 1}
  PROVE  DbInv'
<1> DEFINE q == [dbQ[j] EXCEPT !.at = at, !.pool = pool]
<1>1. dbQ[j] \in DbQuery /\ QueryOk(dbQ[j], dbApplied[j], dbKind) /\ UserOk(dbQ[j], j, dbConns)
  BY DbDomains DEF DbInv, DbQueriesInv
<1>2. /\ q \in DbQuery /\ q.at = at /\ q.pool = pool /\ q.conn = dbQ[j].conn /\ q.outcome = dbQ[j].outcome
      /\ q.rows = dbQ[j].rows /\ q.out = dbQ[j].out
  BY <1>1 DEF DbQuery
<1>3. dbQ' = [dbQ EXCEPT ![j] = q]
  OBVIOUS
<1> HIDE DEF q
<1>4. q.conn = 0
  BY <1>1, <1>2 DEF UserOk
<1>5. Unsent(dbQ[j])
  BY DEF Unsent, DbEarly
<1>6. dbKind = "contrib" => SplitOk(q)
  BY <1>1, <1>2 DEF QueryOk, SplitOk, DbEarly
<1>7. QueryOk(q, dbApplied[j], dbKind)
  BY <1>1, <1>2, <1>5, <1>6 DEF QueryOk, DbEarly
<1>8. QED
  BY <1>2, <1>3, <1>4, <1>5, <1>7, QueryMoves

LEMMA PoolMoves ==
  ASSUME DbInv, NEW j \in DOMAIN dbQ, Prepare(j) \/ Look(j) \/ CreatePool(j) \/ QueryTimeout(j)
  PROVE  DbInv'
<1>1. dbQ[j] \in DbQuery /\ dbQ[j].pool \in Nat /\ dbPools \in {0, 1}
  <2>1. dbQ[j] \in DbQuery /\ dbPools \in {0, 1}
    BY DbDomains DEF DbInv, DbTypes
  <2>2. QED
    BY <2>1 DEF DbQuery
<1>2. ASSUME NEW at, dbQ' = [dbQ EXCEPT ![j].at = at]
      PROVE  dbQ' = [dbQ EXCEPT ![j] = [dbQ[j] EXCEPT !.at = at, !.pool = dbQ[j].pool]]
  <2>1. [dbQ[j] EXCEPT !.at = at] = [dbQ[j] EXCEPT !.at = at, !.pool = dbQ[j].pool]
    BY <1>1 DEF DbQuery
  <2>2. QED
    BY <1>2, <2>1
<1>3. CASE Prepare(j)
  <2>1. dbQ[j].at = "prepare" /\ UNCHANGED <<dbKind, dbPools, dbApplied>>
    BY <1>3 DEF Prepare
  <2>2. ASSUME NEW at \in {"look", "run"}, dbQ' = [dbQ EXCEPT ![j].at = at], UNCHANGED dbConns PROVE DbInv'
    <3>1. at \in DbEarly /\ at # "get"
      BY DEF DbEarly
    <3>2. QED
      BY <1>1, <1>2, <2>1, <2>2, <3>1, EarlyMoves
  <2>3. ASSUME Fail(j, "refused") PROVE DbInv'
    BY <1>1, <2>1, <2>3, FailKeeps DEF Unsent, DbEarly
  <2>4. QED
    BY <1>3, <2>2, <2>3 DEF Prepare, Upd
<1>4. CASE Look(j)
  <2>1. dbQ[j].at = "look" /\ UNCHANGED <<dbKind, dbPools, dbApplied, dbConns>>
    BY <1>4 DEF Look
  <2>2. CASE dbPools > 0
    <3>1. dbQ' = [dbQ EXCEPT ![j].at = "get", ![j].pool = dbPools] /\ dbPools = 1
      BY <1>1, <1>4, <2>2 DEF Look
    <3>2. dbQ' = [dbQ EXCEPT ![j] = [dbQ[j] EXCEPT !.at = "get", !.pool = 1]]
      BY <3>1
    <3>3. "get" \in DbEarly
      BY DEF DbEarly
    <3>4. QED
      BY <1>1, <2>1, <3>2, <3>3, EarlyMoves
  <2>3. CASE ~(dbPools > 0)
    <3>1. dbQ' = [dbQ EXCEPT ![j].at = "create"]
      BY <1>4, <2>3 DEF Look, Upd
    <3>2. "create" \in DbEarly /\ "create" # "get"
      BY DEF DbEarly
    <3>3. dbQ' = [dbQ EXCEPT ![j] = [dbQ[j] EXCEPT !.at = "create", !.pool = dbQ[j].pool]]
      BY <1>2, <3>1
    <3>4. QED
      BY <1>1, <2>1, <3>2, <3>3, EarlyMoves
  <2>4. QED
    BY <2>2, <2>3
<1>5. CASE CreatePool(j)
  <2>1. dbQ[j].at = "create" /\ UNCHANGED <<dbKind, dbApplied>>
    BY <1>5 DEF CreatePool
  <2>2. ASSUME dbPools' = IF NeedsPool THEN dbPools + 1 ELSE dbPools, UNCHANGED dbConns,
               dbQ' = [dbQ EXCEPT ![j].at = "get", ![j].pool = dbPools']
        PROVE  DbInv'
    <3>1. dbPools' = 1
      BY <1>1, <2>2 DEF NeedsPool
    <3>2. dbQ' = [dbQ EXCEPT ![j] = [dbQ[j] EXCEPT !.at = "get", !.pool = 1]]
      BY <2>2, <3>1
    <3>3. "get" \in DbEarly
      BY DEF DbEarly
    <3>4. /\ UNCHANGED <<dbKind, dbApplied, dbConns>> /\ dbPools' \in {0, 1} /\ 1 \in Nat
          /\ dbQ[j].at \in {"prepare", "look", "create"}
      BY <2>1, <2>2, <3>1
    <3>5. QED
      BY <3>2, <3>3, <3>4, EarlyMoves
  <2>3. ASSUME Fail(j, "refused"), UNCHANGED dbPools PROVE DbInv'
    BY <1>1, <2>1, <2>3, FailKeeps DEF Unsent, DbEarly
  <2>4. QED
    BY <1>5, <2>2, <2>3 DEF CreatePool
<1>6. CASE QueryTimeout(j)
  BY <1>1, <1>6, FailKeeps DEF QueryTimeout, DbEarly
<1>7. QED
  BY <1>3, <1>4, <1>5, <1>6

LEMMA SendPartKeeps == ASSUME DbInv, NEW j \in DOMAIN dbQ, SendPart(j) PROVE DbInv'
<1>1. /\ DbTypes /\ dbQ[j] \in DbQuery /\ QueryOk(dbQ[j], dbApplied[j], dbKind) /\ UserOk(dbQ[j], j, dbConns)
      /\ dbPools \in {0, 1}
  BY DbDomains DEF DbInv, DbQueriesInv, DbTypes
<1>2. dbQ[j].at = "send" /\ UNCHANGED <<dbKind, dbPools, dbConns, dbApplied>>
  BY DEF SendPart
<1>3. dbQ[j].conn = 0
  BY <1>1, <1>2 DEF UserOk
<1>4. CASE dbKind = "contrib"
  <2> DEFINE r == dbQ[j].rows
             o == dbQ[j].out
             k == Len(o) + 1
             at == IF k = Groups(r) THEN "done" ELSE "send"
             q == [dbQ[j] EXCEPT !.out = Append(o, PartOf(r, k)), !.at = at]
  <2>1. dbQ' = [dbQ EXCEPT ![j] = q]
    BY <1>4 DEF SendPart, PartOf
  <2>2. r \in Seq(DbRow) /\ o \in Seq(DbOut) /\ Len(o) \in Nat /\ k \in Nat \ {0}
    <3>1. r \in Seq(DbRow) /\ o \in Seq(DbOut)
      BY <1>1 DEF DbQuery
    <3>2. QED
      BY <3>1, LenProperties
  <2>3. Groups(r) \in Nat /\ Group(r, k) \in Seq(DbRow)
    BY <2>2, GroupsCount, GroupHolds
  <2>4. PartOf(r, k) \in DbOut
    <3>1. (IF k = Groups(r) THEN k ELSE 0) \in Nat /\ k - 1 \in Int
      BY <2>2
    <3>2. QED
      BY <2>3, <3>1 DEF PartOf, DbOut, DbPart
  <2>5. /\ Append(o, PartOf(r, k)) \in Seq(DbOut) /\ Len(Append(o, PartOf(r, k))) = k
        /\ \A i \in 1 .. Len(o) : Append(o, PartOf(r, k))[i] = o[i]
        /\ Append(o, PartOf(r, k))[k] = PartOf(r, k) /\ DOMAIN Append(o, PartOf(r, k)) = 1 .. k /\ DOMAIN o = 1 .. Len(o)
    <3> HIDE DEF r, o
    <3>1. QED
      BY <2>2, <2>4, AppendProperties, LenProperties
  <2>6. /\ q \in DbQuery /\ q.at = at /\ q.out = Append(o, PartOf(r, k)) /\ q.rows = r /\ q.outcome = dbQ[j].outcome
        /\ q.conn = dbQ[j].conn
    BY <1>1, <2>5 DEF DbQuery
  <2>7. Len(o) < Groups(r) /\ \A i \in 1 .. Len(o) : o[i] = PartOf(r, i)
    BY <1>1, <1>2, <1>4, <2>5 DEF QueryOk, SplitOk
  <2> HIDE DEF r, o, q
  <2>8. SplitOk(q)
    <3>1. \A i \in DOMAIN q.out : q.out[i] = PartOf(q.rows, i)
      <4>1. ASSUME NEW i \in 1 .. k PROVE Append(o, PartOf(r, k))[i] = PartOf(r, i)
        <5>1. CASE i = k
          BY <2>5, <5>1
        <5>2. CASE i \in 1 .. Len(o)
          BY <2>5, <2>7, <5>2
        <5>3. QED
          BY <2>2, <5>1, <5>2
      <4>2. QED
        BY <2>5, <2>6, <4>1
    <3>2. q.at = "send" => Len(q.out) < Groups(q.rows)
      BY <2>2, <2>3, <2>5, <2>6, <2>7
    <3>3. q.at = "done" => Len(q.out) = Groups(q.rows)
      BY <2>5, <2>6
    <3>4. QED
      BY <2>6, <3>1, <3>2, <3>3 DEF SplitOk, DbEarly
  <2>9. QueryOk(q, dbApplied[j], dbKind) /\ (Unsent(q) => Unsent(dbQ[j]))
    BY <1>1, <2>6, <2>8 DEF QueryOk, Unsent, DbEarly
  <2>10. QED
    BY <1>1, <1>2, <1>3, <2>1, <2>6, <2>9, QueryMoves
<1>5. CASE dbKind # "contrib"
  <2> DEFINE q == [dbQ[j] EXCEPT !.out = <<"rows">>, !.at = "done"]
  <2>1. dbQ' = [dbQ EXCEPT ![j] = q]
    BY <1>5 DEF SendPart
  <2>2. <<"rows">> \in Seq(DbOut)
    <3>1. "rows" \in DbOut
      BY DEF DbOut
    <3>2. QED
      BY <3>1
  <2>3. q \in DbQuery /\ q.at = "done" /\ q.outcome = dbQ[j].outcome /\ q.conn = dbQ[j].conn
    BY <1>1, <2>2 DEF DbQuery
  <2> HIDE DEF q
  <2>4. QueryOk(q, dbApplied[j], dbKind) /\ (Unsent(q) => Unsent(dbQ[j]))
    BY <1>1, <1>5, <2>3 DEF QueryOk, Unsent, DbEarly
  <2>5. QED
    BY <1>1, <1>2, <1>3, <2>1, <2>3, <2>4, QueryMoves
<1>6. QED
  BY <1>4, <1>5

LEMMA QueryComesKeeps == ASSUME DbInv, QueryComes PROVE DbInv'
<1> DEFINE q == [at |-> "prepare", pool |-> 0, conn |-> 0, outcome |-> "none", rows |-> <<>>, out |-> <<>>]
           n == Len(dbQ)
<1>1. DbTypes /\ n \in Nat /\ DOMAIN dbQ = 1 .. n /\ DOMAIN dbApplied = 1 .. n /\ Len(dbApplied) = n
  BY DbDomains DEF DbInv, DbTypes
<1>2. dbQ' = Append(dbQ, q) /\ dbApplied' = Append(dbApplied, 0) /\ UNCHANGED <<dbKind, dbPools, dbConns>>
  BY DEF QueryComes
<1>3. q \in DbQuery /\ q.at = "prepare" /\ q.conn = 0 /\ q.outcome = "none" /\ q.out = <<>>
  <2>1. <<>> \in Seq(DbOut) /\ <<>> \in Seq(DbRow)
    OBVIOUS
  <2>2. QED
    BY <2>1 DEF DbQuery, DbEarly
<1> HIDE DEF q
<1>4. /\ dbQ' \in Seq(DbQuery) /\ Len(dbQ') = n + 1 /\ DOMAIN dbQ' = 1 .. n + 1 /\ dbQ'[n + 1] = q
      /\ \A k \in 1 .. n : dbQ'[k] = dbQ[k]
  BY <1>1, <1>2, <1>3, AppendProperties, LenProperties DEF DbTypes
<1>5. /\ dbApplied' \in Seq({0, 1}) /\ Len(dbApplied') = n + 1 /\ dbApplied'[n + 1] = 0
      /\ \A k \in 1 .. n : dbApplied'[k] = dbApplied[k]
  BY <1>1, <1>2, AppendProperties, LenProperties DEF DbTypes
<1> HIDE DEF n
<1>6. DbTypes'
  BY <1>1, <1>2, <1>4, <1>5 DEF DbTypes
<1>7. TodoInv'
  <2>1. DOMAIN dbQ \subseteq DOMAIN dbQ'
    BY <1>1, <1>4
  <2>2. QED
    BY <1>1, <1>2, <1>4, <1>5, <2>1 DEF DbInv, TodoInv
<1>8. DbQueriesInv'
  <2>1. ASSUME NEW k \in DOMAIN dbQ' PROVE QueryOk(dbQ'[k], dbApplied'[k], dbKind) /\ UserOk(dbQ'[k], k, dbConns)
    <3>1. CASE k = n + 1
      <4>1. SplitOk(q)
        BY <1>3 DEF SplitOk, DbEarly
      <4>2. QueryOk(q, 0, dbKind) /\ UserOk(q, k, dbConns)
        BY <1>3, <4>1 DEF QueryOk, UserOk, DbEarly
      <4>3. QED
        BY <1>4, <1>5, <3>1, <4>2
    <3>2. CASE k \in 1 .. n
      BY <1>1, <1>4, <1>5, <3>2 DEF DbInv, DbQueriesInv
    <3>3. QED
      BY <1>1, <1>4, <2>1, <3>1, <3>2
  <2>2. QED
    BY <1>2, <2>1 DEF DbQueriesInv
<1>9. PoolInv'
  <2>1. \A k \in DOMAIN dbQ' : k \in 1 .. n \/ k = n + 1
    BY <1>1, <1>4
  <2>2. UpConns' = UpConns
    BY <1>2 DEF UpConns
  <2>3. QED
    BY <1>1, <1>2, <1>3, <1>4, <2>1, <2>2 DEF DbInv, PoolInv, Pooled
<1>10. QED
  BY <1>6, <1>7, <1>8, <1>9 DEF DbInv

(* A query gets its connection: one that is idle, or a new one.             *)
LEMMA GetConnectionKeeps == ASSUME DbInv, NEW j \in DOMAIN dbQ, GetConnection(j) PROVE DbInv'
<1>1. /\ DbTypes /\ dbQ[j] \in DbQuery /\ QueryOk(dbQ[j], dbApplied[j], dbKind) /\ UserOk(dbQ[j], j, dbConns)
      /\ dbPools \in {0, 1} /\ dbApplied \in Seq({0, 1}) /\ dbConns \in Seq(DbConn) /\ j \in Nat \ {0} /\ 0 \notin DOMAIN dbConns
      /\ Len(dbConns) \in Nat /\ DOMAIN dbConns = 1 .. Len(dbConns) /\ \A c \in DOMAIN dbConns : dbConns[c] \in DbConn
  BY DbDomains DEF DbInv, DbQueriesInv, DbTypes
<1>2. dbQ[j].at = "get" /\ UNCHANGED <<dbKind, dbPools, dbApplied>>
  BY DEF GetConnection
<1>3. ASSUME Fail(j, "refused") PROVE DbInv'
  BY <1>1, <1>2, <1>3, FailKeeps DEF Unsent, DbEarly
<1>4. ASSUME NEW c \in Nat \ {0}, dbQ' = [dbQ EXCEPT ![j].at = "run", ![j].conn = c],
             dbConns' \in Seq(DbConn), Len(dbConns') >= Len(dbConns), c \in DOMAIN dbConns', dbConns'[c].user = j,
             \A d \in DOMAIN dbConns : /\ dbConns'[d].up = dbConns[d].up /\ dbConns'[d].pool = dbConns[d].pool
                                       /\ dbConns'[d].todo = dbConns[d].todo
                                       /\ dbConns'[d].user = dbConns[d].user \/ dbConns[d].user = 0,
             \A d \in DOMAIN dbConns' \ DOMAIN dbConns : dbConns'[d].todo = <<>> /\ dbConns'[d].pool = dbQ[j].pool,
             Pooled => Len(dbConns') = Len(dbConns) \/ Cardinality(UpConns') <= DbMax
      PROVE  DbInv'
  <2> DEFINE q == [dbQ[j] EXCEPT !.at = "run", !.conn = c]
  <2>1. dbQ' = [dbQ EXCEPT ![j] = q]
    BY <1>4
  <2>2. /\ q \in DbQuery /\ q.at = "run" /\ q.conn = c /\ q.outcome = dbQ[j].outcome /\ q.out = dbQ[j].out
        /\ q.rows = dbQ[j].rows
    BY <1>1, <1>4 DEF DbQuery, DbEarly
  <2> HIDE DEF q
  <2>3. /\ dbQ' \in Seq(DbQuery) /\ Len(dbQ') = Len(dbQ) /\ dbQ'[j] = q
        /\ \A k \in DOMAIN dbQ \ {j} : dbQ'[k] = dbQ[k]
    BY <1>1, <2>1, <2>2, QuerySet
  <2>4. DbFrame(j)
    BY <1>1, <1>2, <1>4, <2>3 DEF DbFrame
  <2>5. QueryOk(q, dbApplied[j], dbKind) /\ Unsent(dbQ[j])
    <3>1. Unsent(dbQ[j])
      BY <1>2 DEF Unsent, DbEarly
    <3>2. dbKind = "contrib" => SplitOk(q)
      BY <1>1, <1>2, <2>2 DEF QueryOk, SplitOk, DbEarly
    <3>3. QED
      BY <1>1, <1>2, <2>2, <3>1, <3>2 DEF QueryOk, DbEarly
  <2>6. DbSeesTo(j)
    <3>1. Pooled => dbQ[j].pool = 1
      BY <1>2 DEF DbInv, PoolInv
    <3>2. UserOk(q, j, dbConns')
      BY <1>4, <2>2 DEF UserOk
    <3>3. QED
      BY <1>2, <1>4, <2>2, <2>3, <2>5, <3>1, <3>2 DEF DbSeesTo
  <2>7. TodoInv'
    BY <1>2, <1>4, <2>4, <2>5, TodoStays
  <2>8. QED
    BY <2>4, <2>6, <2>7, DbKeeps DEF DbInv
<1>5. ASSUME NEW c \in InPool(dbQ[j].pool), Reusable(c), dbConns' = [dbConns EXCEPT ![c].user = j],
             dbQ' = [dbQ EXCEPT ![j].at = "run", ![j].conn = c]
      PROVE  DbInv'
  <2> DEFINE e == [dbConns[c] EXCEPT !.user = j]
  <2>1. c \in DOMAIN dbConns /\ dbConns[c].user = 0 /\ dbConns[c] \in DbConn
    BY <1>1, <1>5 DEF InPool, Reusable
  <2>2. /\ e \in DbConn /\ e.up = dbConns[c].up /\ e.pool = dbConns[c].pool /\ e.todo = dbConns[c].todo /\ e.user = j
        /\ dbConns' = [dbConns EXCEPT ![c] = e]
    BY <1>1, <1>5, <2>1 DEF DbConn
  <2> HIDE DEF e
  <2>3. /\ dbConns' \in Seq(DbConn) /\ Len(dbConns') = Len(dbConns) /\ dbConns'[c] = e
        /\ \A d \in DOMAIN dbConns \ {c} : dbConns'[d] = dbConns[d]
        /\ DOMAIN dbConns' = DOMAIN dbConns
    BY <1>1, <2>1, <2>2, SeqSet
  <2>4. \A d \in DOMAIN dbConns : /\ dbConns'[d].up = dbConns[d].up /\ dbConns'[d].pool = dbConns[d].pool
                                  /\ dbConns'[d].todo = dbConns[d].todo
                                  /\ dbConns'[d].user = dbConns[d].user \/ dbConns[d].user = 0
    BY <2>1, <2>2, <2>3
  <2>5. c \in Nat \ {0} /\ c \in DOMAIN dbConns' /\ dbConns'[c].user = j /\ DOMAIN dbConns' \ DOMAIN dbConns = {}
    BY <1>1, <2>1, <2>2, <2>3
  <2>6. Len(dbConns') >= Len(dbConns) /\ dbQ' = [dbQ EXCEPT ![j].at = "run", ![j].conn = c]
    BY <1>1, <1>5, <2>3
  <2>7. QED
    BY <1>4, <2>3, <2>4, <2>5, <2>6
<1>6. ASSUME Cardinality(InPool(dbQ[j].pool)) < DbMax,
             dbConns' = Append(dbConns, [pool |-> dbQ[j].pool, user |-> j, up |-> TRUE, todo |-> <<>>]),
             dbQ' = [dbQ EXCEPT ![j].at = "run", ![j].conn = Len(dbConns) + 1]
      PROVE  DbInv'
  <2> DEFINE e == [pool |-> dbQ[j].pool, user |-> j, up |-> TRUE, todo |-> <<>>]
             n == Len(dbConns)
  <2>1. e \in DbConn /\ e.pool = dbQ[j].pool /\ e.user = j /\ e.up = TRUE /\ e.todo = <<>>
    <3>1. dbQ[j].pool \in Nat
      BY <1>1 DEF DbQuery
    <3>2. <<>> \in Seq(Nat)
      OBVIOUS
    <3>3. QED
      BY <1>1, <3>1, <3>2 DEF DbConn
  <2>2. dbConns' = Append(dbConns, e)
    BY <1>6
  <2> HIDE DEF e
  <2>3. /\ dbConns' \in Seq(DbConn) /\ Len(dbConns') = n + 1 /\ DOMAIN dbConns' = 1 .. n + 1 /\ dbConns'[n + 1] = e
        /\ \A d \in 1 .. n : dbConns'[d] = dbConns[d]
    BY <1>1, <2>1, <2>2, AppendProperties, LenProperties
  <2>4. Pooled => Cardinality(UpConns') <= DbMax
    <3> SUFFICES ASSUME Pooled PROVE Cardinality(UpConns') <= DbMax
      OBVIOUS
    <3>1. InPool(dbQ[j].pool) = UpConns
      BY <1>2 DEF InPool, UpConns, DbInv, PoolInv
    <3>2. IsFiniteSet(UpConns)
      <4>1. UpConns \subseteq 1 .. n /\ IsFiniteSet(1 .. n)
        BY <1>1, FS_Interval DEF UpConns
      <4>2. QED
        BY <4>1, FS_Subset
    <3>3. UpConns' = UpConns \cup {n + 1} /\ n + 1 \notin UpConns
      BY <1>1, <2>1, <2>3 DEF UpConns
    <3>4. Cardinality(UpConns') = Cardinality(UpConns) + 1 /\ Cardinality(UpConns) \in Nat
      BY <3>2, <3>3, FS_AddElement, FS_CardinalityType
    <3>5. QED
      BY <1>6, <3>1, <3>4, DbAssumption
  <2>5. QED
    <3>1. n + 1 \in Nat \ {0} /\ n + 1 >= n /\ n + 1 \in DOMAIN dbConns' /\ \A d \in DOMAIN dbConns' \ DOMAIN dbConns : d = n + 1
      BY <1>1, <2>3
    <3>2. dbQ' = [dbQ EXCEPT ![j].at = "run", ![j].conn = n + 1]
      BY <1>6
    <3> HIDE DEF n
    <3>3. QED
      BY <1>1, <1>4, <2>1, <2>3, <2>4, <3>1, <3>2 DEF n
<1>7. QED
  BY <1>3, <1>5, <1>6 DEF GetConnection

(* The first statement of a queue is taken.                                 *)
LEMMA HeadServed ==
  ASSUME NEW S, NEW s \in Seq(S), s # <<>>, Distinct(s)
  PROVE  /\ Head(s) \in S /\ Tail(s) \in Seq(S) /\ Distinct(Tail(s)) /\ Among(s, Head(s))
         /\ \A m : Among(Tail(s), m) <=> Among(s, m) /\ m # Head(s)
<1>1. /\ Head(s) \in S /\ Tail(s) \in Seq(S) /\ Len(s) \in Nat \ {0} /\ DOMAIN s = 1 .. Len(s) /\ Head(s) = s[1]
      /\ DOMAIN Tail(s) = 1 .. Len(s) - 1 /\ \A i \in 1 .. Len(s) - 1 : Tail(s)[i] = s[i + 1]
  BY HeadTailProperties, LenProperties, EmptySeq
<1>2. Distinct(Tail(s))
  <2>1. ASSUME NEW i \in DOMAIN Tail(s), NEW j \in DOMAIN Tail(s), Tail(s)[i] = Tail(s)[j] PROVE i = j
    <3>1. s[i + 1] = s[j + 1] /\ i + 1 \in DOMAIN s /\ j + 1 \in DOMAIN s
      BY <1>1, <2>1
    <3>2. i + 1 = j + 1
      BY <3>1 DEF Distinct
    <3>3. QED
      BY <1>1, <3>2
  <2>2. QED
    BY <2>1 DEF Distinct
<1>3. ASSUME NEW m, Among(Tail(s), m) PROVE Among(s, m) /\ m # Head(s)
  <2>1. PICK i \in 1 .. Len(s) - 1 : s[i + 1] = m
    BY <1>1, <1>3 DEF Among
  <2>2. i + 1 \in DOMAIN s /\ 1 \in DOMAIN s /\ i + 1 # 1
    BY <1>1
  <2>3. QED
    BY <1>1, <2>1, <2>2 DEF Among, Distinct
<1>4. ASSUME NEW m, Among(s, m), m # Head(s) PROVE Among(Tail(s), m)
  <2>1. PICK i \in 1 .. Len(s) : s[i] = m
    BY <1>1, <1>4 DEF Among
  <2>2. i # 1 /\ i - 1 \in 1 .. Len(s) - 1 /\ (i - 1) + 1 = i
    BY <1>1, <1>4, <2>1
  <2>3. Tail(s)[i - 1] = m
    BY <1>1, <2>1, <2>2
  <2>4. QED
    BY <1>1, <2>2, <2>3 DEF Among
<1>5. Among(s, Head(s))
  BY <1>1 DEF Among
<1>6. QED
  BY <1>1, <1>2, <1>3, <1>4, <1>5

(* A statement that is put at the end of a list that did not have it.         *)
LEMMA AppendQueues ==
  ASSUME NEW S, NEW s \in Seq(S), Distinct(s), NEW e \in S, ~Among(s, e)
  PROVE  /\ Append(s, e) \in Seq(S) /\ Distinct(Append(s, e))
         /\ \A m : Among(Append(s, e), m) <=> Among(s, m) \/ m = e
<1> DEFINE a == Append(s, e)
<1>1. /\ a \in Seq(S) /\ Len(s) \in Nat /\ DOMAIN s = 1 .. Len(s) /\ DOMAIN a = 1 .. Len(s) + 1
      /\ a[Len(s) + 1] = e /\ \A i \in 1 .. Len(s) : a[i] = s[i]
  BY AppendProperties, LenProperties
<1> HIDE DEF a
<1>2. \A i \in 1 .. Len(s) : a[i] # e
  BY <1>1 DEF Among
<1>3. Distinct(a)
  <2>1. ASSUME NEW i \in DOMAIN a, NEW j \in DOMAIN a, a[i] = a[j] PROVE i = j
    <3>1. i \in 1 .. Len(s) \/ i = Len(s) + 1
      BY <1>1
    <3>2. j \in 1 .. Len(s) \/ j = Len(s) + 1
      BY <1>1
    <3>3. CASE i \in 1 .. Len(s) /\ j \in 1 .. Len(s)
      BY <1>1, <2>1, <3>3 DEF Distinct
    <3>4. QED
      BY <1>1, <1>2, <2>1, <3>1, <3>2, <3>3
  <2>2. QED
    BY <2>1 DEF Distinct
<1>4. \A m : Among(a, m) <=> Among(s, m) \/ m = e
  <2>1. 1 .. Len(s) + 1 = (1 .. Len(s)) \cup {Len(s) + 1}
    BY <1>1
  <2>2. QED
    BY <1>1, <2>1 DEF Among
<1>5. QED
  BY <1>1, <1>3, <1>4 DEF a

(* One connection's statements change: query j's comes, or is taken.        *)
LEMMA TodoChanges ==
  ASSUME DbInv, NEW j \in DOMAIN dbQ, DbFrame(j), NEW c \in DOMAIN dbConns', Distinct(dbConns'[c].todo),
         \A m \in Nat : Among(dbConns'[c].todo, m) => m = j \/ (c \in DOMAIN dbConns /\ Among(dbConns[c].todo, m)),
         \A d \in DOMAIN dbConns' \ {c} : /\ d \in DOMAIN dbConns /\ dbConns'[d].todo = dbConns[d].todo
                                          /\ ~Among(dbConns[d].todo, j),
         Among(dbConns'[c].todo, j) => dbApplied'[j] = 0 /\ ~Unsent(dbQ'[j])
  PROVE  TodoInv'
<1>1. DOMAIN dbQ' = DOMAIN dbQ
  <2>1. dbQ \in Seq(DbQuery) /\ dbQ' \in Seq(DbQuery) /\ Len(dbQ') = Len(dbQ)
    BY DEF DbInv, DbTypes, DbFrame
  <2>2. QED
    BY <2>1, LenProperties
<1>2. \A d \in DOMAIN dbConns' : Distinct(dbConns'[d].todo)
  BY DEF DbInv, TodoInv
<1>3. ASSUME NEW d \in DOMAIN dbConns', NEW m \in Nat, Among(dbConns'[d].todo, m)
      PROVE  \/ m = j /\ d = c
             \/ m # j /\ d \in DOMAIN dbConns /\ Among(dbConns[d].todo, m)
  BY <1>3
<1>4. ASSUME NEW d \in DOMAIN dbConns', NEW e \in DOMAIN dbConns', NEW m \in Nat,
             Among(dbConns'[d].todo, m), Among(dbConns'[e].todo, m)
      PROVE  d = e
  BY <1>3, <1>4 DEF DbInv, TodoInv
<1>5. ASSUME NEW d \in DOMAIN dbConns', NEW m \in Nat, Among(dbConns'[d].todo, m)
      PROVE  m \in DOMAIN dbQ /\ dbApplied'[m] = 0 /\ ~Unsent(dbQ'[m])
  <2>1. CASE m = j /\ d = c
    BY <1>5, <2>1
  <2>2. CASE m # j /\ d \in DOMAIN dbConns /\ Among(dbConns[d].todo, m)
    <3>1. m \in DOMAIN dbQ /\ dbApplied[m] = 0 /\ ~Unsent(dbQ[m])
      BY <2>2 DEF DbInv, TodoInv
    <3>2. QED
      BY <2>2, <3>1 DEF DbFrame
  <2>3. QED
    BY <1>3, <1>5, <2>1, <2>2
<1>6. QED
  BY <1>1, <1>2, <1>4, <1>5 DEF TodoInv

LEMMA ExecuteKeeps == ASSUME DbInv, NEW j \in DOMAIN dbQ, Execute(j) PROVE DbInv'
<1> DEFINE q == [dbQ[j] EXCEPT !.at = "wait"]
           n == Len(dbConns)
<1>1. /\ DbTypes /\ dbQ[j] \in DbQuery /\ QueryOk(dbQ[j], dbApplied[j], dbKind) /\ UserOk(dbQ[j], j, dbConns)
      /\ dbPools \in {0, 1} /\ dbApplied \in Seq({0, 1}) /\ dbConns \in Seq(DbConn) /\ j \in Nat \ {0} /\ 0 \notin DOMAIN dbConns
      /\ n \in Nat /\ DOMAIN dbConns = 1 .. n /\ \A c \in DOMAIN dbConns : dbConns[c] \in DbConn
  BY DbDomains DEF DbInv, DbQueriesInv, DbTypes
<1>2. dbQ[j].at = "run" /\ UNCHANGED <<dbKind, dbPools, dbApplied>> /\ dbQ' = [dbQ EXCEPT ![j] = q]
  BY DEF Execute, Upd
<1>3. /\ q \in DbQuery /\ q.at = "wait" /\ q.conn = dbQ[j].conn /\ q.outcome = dbQ[j].outcome /\ q.out = dbQ[j].out
      /\ q.rows = dbQ[j].rows
  BY <1>1 DEF DbQuery
<1> HIDE DEF q
<1>4. /\ dbQ' \in Seq(DbQuery) /\ Len(dbQ') = Len(dbQ) /\ dbQ'[j] = q
      /\ \A k \in DOMAIN dbQ \ {j} : dbQ'[k] = dbQ[k]
  BY <1>1, <1>2, <1>3, QuerySet
<1>5. Unsent(dbQ[j]) /\ dbApplied[j] = 0 /\ ~Unsent(q) /\ \A c \in DOMAIN dbConns : ~Among(dbConns[c].todo, j)
  <2>1. Unsent(dbQ[j]) /\ dbQ[j].outcome = "none"
    BY <1>1, <1>2 DEF Unsent, QueryOk, DbEarly
  <2>2. ~Unsent(q) /\ dbApplied[j] = 0
    BY <1>1, <1>3, <2>1 DEF Unsent, QueryOk, DbEarly
  <2>3. QED
    BY <1>1, <2>1, <2>2 DEF DbInv, TodoInv
<1>6. QueryOk(q, dbApplied[j], dbKind)
  <2>1. dbKind = "contrib" => SplitOk(q)
    BY <1>1, <1>2, <1>3 DEF QueryOk, SplitOk, DbEarly
  <2>2. QED
    BY <1>1, <1>2, <1>3, <1>5, <2>1 DEF QueryOk, DbEarly
<1>7. CASE dbKind = "influx"
  <2> DEFINE e == [pool |-> 0, user |-> 0, up |-> TRUE, todo |-> <<j>>]
  <2>1. e \in DbConn /\ e.todo = <<j>> /\ dbConns' = Append(dbConns, e)
    <3>1. <<j>> \in Seq(Nat)
      BY <1>1
    <3>2. QED
      BY <1>7, <3>1 DEF DbConn, Execute
  <2> HIDE DEF e
  <2>2. /\ dbConns' \in Seq(DbConn) /\ Len(dbConns') = n + 1 /\ DOMAIN dbConns' = 1 .. n + 1 /\ dbConns'[n + 1] = e
        /\ \A d \in 1 .. n : dbConns'[d] = dbConns[d]
    BY <1>1, <2>1, AppendProperties, LenProperties
  <2> HIDE DEF n
  <2>3. DbFrame(j)
    <3>1. n + 1 >= n /\ Len(dbConns) = n
      BY <1>1 DEF n
    <3>2. QED
      BY <1>1, <1>2, <1>4, <2>2, <3>1 DEF DbFrame
  <2>4. DbSeesTo(j)
    <3>1. ~Pooled
      BY <1>7 DEF Pooled
    <3>2. UserOk(q, j, dbConns')
      BY <1>1, <1>3, <2>2 DEF UserOk
    <3>3. QED
      BY <1>2, <1>4, <1>6, <3>1, <3>2 DEF DbSeesTo
  <2>5. TodoInv'
    <3>1. Distinct(dbConns'[n + 1].todo) /\ \A m : Among(dbConns'[n + 1].todo, m) => m = j
      BY <2>1, <2>2 DEF Distinct, Among
    <3>2. \A d \in DOMAIN dbConns' \ {n + 1} : /\ d \in DOMAIN dbConns /\ dbConns'[d].todo = dbConns[d].todo
                                               /\ ~Among(dbConns[d].todo, j)
      BY <1>1, <1>5, <2>2
    <3>3. n + 1 \in DOMAIN dbConns' /\ dbApplied'[j] = 0 /\ ~Unsent(dbQ'[j])
      BY <1>1, <1>2, <1>4, <1>5, <2>2
    <3>4. QED
      BY <2>3, <3>1, <3>2, <3>3, TodoChanges
  <2>6. QED
    BY <2>3, <2>4, <2>5, DbKeeps DEF DbInv
<1>8. CASE dbKind # "influx"
  <2> DEFINE c == IF dbKind = "sqlite" THEN 1 ELSE dbQ[j].conn
  <2>1. dbConns' = [dbConns EXCEPT ![c].todo = Append(dbConns[c].todo, j)]
    BY <1>8 DEF Execute
  <2>2. c \in DOMAIN dbConns \/ (c = 0 /\ dbQ[j].conn = 0)
    BY <1>1 DEF UserOk, DbTypes
  <2> HIDE DEF c
  <2>3. CASE c = 0 /\ dbQ[j].conn = 0
    <3>1. dbConns' = dbConns
      BY <1>1, <2>1, <2>3
    <3>2. QED
      BY <1>1, <1>2, <1>3, <1>5, <1>6, <2>3, <3>1, QueryMoves
  <2>4. CASE c \in DOMAIN dbConns
    <3> DEFINE e == [dbConns[c] EXCEPT !.todo = Append(dbConns[c].todo, j)]
    <3>1. dbConns[c] \in DbConn /\ dbConns[c].todo \in Seq(Nat) /\ Distinct(dbConns[c].todo) /\ ~Among(dbConns[c].todo, j)
      <4>1. dbConns[c] \in DbConn
        BY <1>1, <2>4
      <4>2. dbConns[c].todo \in Seq(Nat)
        BY <4>1 DEF DbConn
      <4>3. QED
        BY <1>5, <2>4, <4>1, <4>2 DEF DbInv, TodoInv
    <3>2. /\ Append(dbConns[c].todo, j) \in Seq(Nat) /\ Distinct(Append(dbConns[c].todo, j))
          /\ \A m : Among(Append(dbConns[c].todo, j), m) <=> Among(dbConns[c].todo, m) \/ m = j
      BY <1>1, <3>1, AppendQueues
    <3>3. /\ e \in DbConn /\ e.todo = Append(dbConns[c].todo, j) /\ e.up = dbConns[c].up /\ e.pool = dbConns[c].pool
          /\ e.user = dbConns[c].user /\ dbConns' = [dbConns EXCEPT ![c] = e]
      BY <2>1, <3>1, <3>2 DEF DbConn
    <3> HIDE DEF e
    <3>4. /\ dbConns' \in Seq(DbConn) /\ Len(dbConns') = Len(dbConns) /\ dbConns'[c] = e
          /\ \A d \in DOMAIN dbConns \ {c} : dbConns'[d] = dbConns[d]
          /\ DOMAIN dbConns' = DOMAIN dbConns
      BY <1>1, <2>4, <3>3, SeqSet
    <3>5. /\ Len(dbConns') >= Len(dbConns)
          /\ \A d \in DOMAIN dbConns : /\ dbConns'[d].up = dbConns[d].up /\ dbConns'[d].pool = dbConns[d].pool
                                       /\ dbConns'[d].user = dbConns[d].user
      BY <1>1, <3>3, <3>4
    <3>6. DbFrame(j)
      BY <1>1, <1>2, <1>4, <3>4, <3>5 DEF DbFrame
    <3>7. DbSeesTo(j)
      <4>1. UserOk(q, j, dbConns')
        BY <1>1, <1>3, <3>4, <3>5 DEF UserOk
      <4>2. QED
        BY <1>2, <1>3, <1>4, <1>6, <3>4, <4>1 DEF DbSeesTo
    <3>8. TodoInv'
      <4>1. Distinct(dbConns'[c].todo) /\ \A m : Among(dbConns'[c].todo, m) => m = j \/ Among(dbConns[c].todo, m)
        BY <3>2, <3>3, <3>4
      <4>2. \A d \in DOMAIN dbConns' \ {c} : /\ d \in DOMAIN dbConns /\ dbConns'[d].todo = dbConns[d].todo
                                             /\ ~Among(dbConns[d].todo, j)
        BY <1>5, <3>4
      <4>3. dbApplied'[j] = 0 /\ ~Unsent(dbQ'[j]) /\ c \in DOMAIN dbConns'
        BY <1>2, <1>4, <1>5, <2>4, <3>4
      <4>4. QED
        BY <2>4, <3>6, <4>1, <4>2, <4>3, TodoChanges
    <3>9. QED
      BY <3>6, <3>7, <3>8, DbKeeps DEF DbInv
  <2>5. QED
    BY <2>2, <2>3, <2>4
<1>9. QED
  BY <1>7, <1>8

(* The database runs a statement, whether its query still waits or gave up. *)
LEMMA ServeKeeps == ASSUME DbInv, NEW c \in DOMAIN dbConns, Serve(c) PROVE DbInv'
<1> DEFINE todo == dbConns[c].todo
           j == Head(todo)
           e == [dbConns[c] EXCEPT !.todo = Tail(todo)]
           rest == [dbConns EXCEPT ![c] = e]
<1>1. /\ DbTypes /\ dbPools \in {0, 1} /\ dbApplied \in Seq({0, 1}) /\ dbConns \in Seq(DbConn) /\ 0 \notin DOMAIN dbConns
      /\ dbConns[c] \in DbConn /\ todo \in Seq(Nat) /\ Len(dbConns) \in Nat /\ DOMAIN dbApplied = DOMAIN dbQ
  BY DbDomains DEF DbInv, DbTypes
<1>2. todo # <<>> /\ UNCHANGED <<dbKind, dbPools>>
  BY DEF Serve
<1>3. /\ j \in Nat /\ Tail(todo) \in Seq(Nat) /\ Distinct(Tail(todo)) /\ Among(todo, j)
      /\ \A m : Among(Tail(todo), m) <=> Among(todo, m) /\ m # j
  <2>1. Distinct(todo)
    BY DEF DbInv, TodoInv
  <2>2. QED
    BY <1>1, <1>2, <2>1, HeadServed
<1>4. /\ j \in DOMAIN dbQ /\ dbApplied[j] = 0 /\ ~Unsent(dbQ[j])
      /\ \A d \in DOMAIN dbConns \ {c} : ~Among(dbConns[d].todo, j)
  BY <1>3 DEF DbInv, TodoInv
<1>5. dbQ[j] \in DbQuery /\ QueryOk(dbQ[j], dbApplied[j], dbKind) /\ UserOk(dbQ[j], j, dbConns) /\ j # 0
  BY <1>1, <1>4, DbDomains DEF DbInv, DbQueriesInv
<1>6. e \in DbConn /\ e.up = dbConns[c].up /\ e.pool = dbConns[c].pool /\ e.user = dbConns[c].user /\ e.todo = Tail(todo)
  BY <1>1, <1>3 DEF DbConn
<1>7. rest = [dbConns EXCEPT ![c].todo = Tail(@)]
  OBVIOUS
<1> HIDE DEF e
<1>8. /\ rest \in Seq(DbConn) /\ Len(rest) = Len(dbConns) /\ rest[c] = e
      /\ \A d \in DOMAIN dbConns \ {c} : rest[d] = dbConns[d]
      /\ DOMAIN rest = DOMAIN dbConns
  BY <1>1, <1>6, SeqSet
<1>9. \/ dbConns' = rest /\ dbQ' = dbQ /\ dbQ[j].at # "wait"
      \/ /\ dbConns' = Give(rest, dbQ[j].conn) /\ dbQ[j].at = "wait"
         /\ \/ /\ dbApplied' = [dbApplied EXCEPT ![j] = dbApplied[j] + 1]
               /\ \E n \in 0 .. DbRows :
                     dbQ' = [dbQ EXCEPT ![j].at = "send", ![j].outcome = "rows", ![j].conn = 0,
                                        ![j].rows = [i \in 1 .. n |-> <<j, i>>]]
            \/ /\ dbApplied' = dbApplied
               /\ dbQ' = [dbQ EXCEPT ![j].at = "done", ![j].outcome = "error", ![j].conn = 0,
                                     ![j].out = IF dbKind = "contrib" THEN <<>> ELSE <<"error">>]
  BY <1>7 DEF Serve
<1>10. dbApplied' = [dbApplied EXCEPT ![j] = dbApplied[j] + 1] \/ dbApplied' = dbApplied
  BY DEF Serve
<1> HIDE DEF j, rest, todo
<1>11. /\ dbApplied' \in Seq({0, 1}) /\ Len(dbApplied') = Len(dbApplied)
       /\ \A k \in DOMAIN dbQ \ {j} : dbApplied'[k] = dbApplied[k]
       /\ dbApplied' = [dbApplied EXCEPT ![j] = dbApplied[j] + 1] => dbApplied'[j] = 1
  <2>1. CASE dbApplied' = dbApplied
    <3>1. dbApplied[j] # dbApplied[j] + 1
      BY <1>4
    <3>2. dbApplied' # [dbApplied EXCEPT ![j] = dbApplied[j] + 1]
      BY <1>1, <1>4, <2>1, <3>1
    <3>3. QED
      BY <1>1, <2>1, <3>2
  <2>2. CASE dbApplied' = [dbApplied EXCEPT ![j] = dbApplied[j] + 1]
    <3>1. dbApplied' = [dbApplied EXCEPT ![j] = 1] /\ 1 \in {0, 1} /\ j \in DOMAIN dbApplied
      BY <1>1, <1>4, <2>2
    <3>2. QED
      BY <1>1, <3>1, SeqSet
  <2>3. QED
    BY <1>10, <2>1, <2>2
<1>12. /\ dbConns' \in Seq(DbConn) /\ Len(dbConns') = Len(dbConns) /\ DOMAIN dbConns' = DOMAIN dbConns
       /\ \A d \in DOMAIN dbConns : /\ dbConns'[d].up = dbConns[d].up /\ dbConns'[d].pool = dbConns[d].pool
                                    /\ dbConns'[d].user = dbConns[d].user
                                       \/ (d = dbQ[j].conn /\ dbQ[j].at = "wait")
                                    /\ dbConns'[d].todo = rest[d].todo
  <2>1. CASE dbConns' = rest
    BY <1>6, <1>8, <2>1
  <2>2. CASE dbConns' = Give(rest, dbQ[j].conn) /\ dbQ[j].at = "wait"
    <3>1. dbQ[j].conn \in DOMAIN rest \cup {0} /\ 0 \notin DOMAIN rest
      BY <1>1, <1>5, <1>8 DEF UserOk
    <3>2. /\ dbConns' \in Seq(DbConn) /\ Len(dbConns') = Len(rest) /\ DOMAIN dbConns' = DOMAIN rest
          /\ \A d \in DOMAIN rest : /\ dbConns'[d].up = rest[d].up /\ dbConns'[d].pool = rest[d].pool
                                    /\ dbConns'[d].todo = rest[d].todo
                                    /\ d # dbQ[j].conn => dbConns'[d].user = rest[d].user
      BY <1>8, <2>2, <3>1, GiveBack
    <3>3. QED
      BY <1>6, <1>8, <2>2, <3>2
  <2>3. QED
    BY <1>9, <2>1, <2>2
<1>13. ASSUME dbQ' \in Seq(DbQuery), Len(dbQ') = Len(dbQ), \A k \in DOMAIN dbQ \ {j} : dbQ'[k] = dbQ[k],
              QueryOk(dbQ'[j], dbApplied'[j], dbKind), UserOk(dbQ'[j], j, dbConns'), dbQ'[j].at = "get" => dbQ'[j] = dbQ[j]
       PROVE  DbInv'
  <2>1. DbFrame(j)
    <3>1. \A d \in DOMAIN dbConns : dbConns[d].up => dbConns'[d].user = dbConns[d].user \/ dbConns[d].user \in {0, j}
      BY <1>1, <1>5, <1>12 DEF UserOk
    <3>2. Len(dbConns') >= Len(dbConns)
      BY <1>1, <1>12
    <3>3. QED
      BY <1>1, <1>2, <1>11, <1>12, <1>13, <3>1, <3>2 DEF DbFrame
  <2>2. DbSeesTo(j)
    BY <1>4, <1>12, <1>13 DEF DbSeesTo, DbInv, PoolInv
  <2>3. TodoInv'
    <3>1. dbConns'[c].todo = Tail(todo) /\ \A d \in DOMAIN dbConns \ {c} : dbConns'[d].todo = dbConns[d].todo
      BY <1>6, <1>8, <1>12
    <3>2. Distinct(dbConns'[c].todo) /\ (\A m : Among(dbConns'[c].todo, m) => Among(dbConns[c].todo, m)) /\ ~Among(dbConns'[c].todo, j)
      BY <1>3, <3>1 DEF todo
    <3>3. QED
      BY <1>4, <1>12, <2>1, <3>1, <3>2, TodoChanges
  <2>4. QED
    BY <1>4, <2>1, <2>2, <2>3, DbKeeps DEF DbInv
<1>14. CASE dbQ' = dbQ /\ dbQ[j].at # "wait"
  <2>1. QueryOk(dbQ[j], dbApplied'[j], dbKind)
    <3>1. dbApplied'[j] = 1 \/ dbApplied'[j] = dbApplied[j]
      BY <1>10, <1>11
    <3>2. QED
      BY <1>4, <1>5, <3>1 DEF QueryOk
  <2>2. UserOk(dbQ[j], j, dbConns')
    BY <1>5, <1>12, <1>14 DEF UserOk
  <2>3. QED
    BY <1>1, <1>13, <1>14, <2>1, <2>2 DEF DbTypes
<1>15. ASSUME NEW n \in 0 .. DbRows, dbQ[j].at = "wait", dbApplied' = [dbApplied EXCEPT ![j] = dbApplied[j] + 1],
              dbQ' = [dbQ EXCEPT ![j].at = "send", ![j].outcome = "rows", ![j].conn = 0,
                                 ![j].rows = [i \in 1 .. n |-> <<j, i>>]]
       PROVE  DbInv'
  <2> DEFINE rows == [i \in 1 .. n |-> <<j, i>>]
             q == [dbQ[j] EXCEPT !.at = "send", !.outcome = "rows", !.conn = 0, !.rows = rows]
  <2>1. rows \in Seq(DbRow)
    <3>1. n \in Nat /\ j \in Nat
      BY <1>3, DbAssumption
    <3>2. \A i \in 1 .. n : <<j, i>> \in DbRow
      BY <3>1 DEF DbRow
    <3>3. rows \in [1 .. n -> DbRow]
      BY <3>2
    <3>4. QED
      BY <3>1, <3>3, SeqDef
  <2>2. dbQ' = [dbQ EXCEPT ![j] = q]
    BY <1>15
  <2> HIDE DEF rows
  <2>3. q \in DbQuery /\ q.at = "send" /\ q.outcome = "rows" /\ q.conn = 0 /\ q.rows = rows /\ q.out = dbQ[j].out
    BY <1>5, <2>1 DEF DbQuery
  <2> HIDE DEF q
  <2>4. /\ dbQ' \in Seq(DbQuery) /\ Len(dbQ') = Len(dbQ) /\ dbQ'[j] = q
        /\ \A k \in DOMAIN dbQ \ {j} : dbQ'[k] = dbQ[k]
    BY <1>1, <1>4, <2>2, <2>3, QuerySet
  <2>5. dbKind = "contrib" => SplitOk(q)
    <3>1. ASSUME dbKind = "contrib" PROVE SplitOk(q)
      <4>1. q.out = <<>>
        BY <1>5, <1>15, <2>3, <3>1 DEF QueryOk, SplitOk, DbEarly
      <4>2. Groups(rows) \in Nat \ {0}
        BY <2>1, GroupsCount
      <4>3. Len(q.out) < Groups(q.rows)
        BY <2>3, <4>1, <4>2
      <4>4. QED
        BY <2>3, <4>1, <4>3 DEF SplitOk, DbEarly
    <3>2. QED
      BY <3>1
  <2>6. QueryOk(q, dbApplied'[j], dbKind)
    BY <1>11, <1>15, <2>3, <2>5 DEF QueryOk, Unsent, DbEarly
  <2>7. UserOk(q, j, dbConns')
    BY <2>3 DEF UserOk
  <2>8. QED
    BY <1>13, <2>3, <2>4, <2>6, <2>7
<1>16. ASSUME dbQ[j].at = "wait", dbApplied' = dbApplied,
              dbQ' = [dbQ EXCEPT ![j].at = "done", ![j].outcome = "error", ![j].conn = 0,
                                 ![j].out = IF dbKind = "contrib" THEN <<>> ELSE <<"error">>]
       PROVE  DbInv'
  <2> DEFINE out == IF dbKind = "contrib" THEN <<>> ELSE <<"error">>
             q == [dbQ[j] EXCEPT !.at = "done", !.outcome = "error", !.conn = 0, !.out = out]
  <2>1. out \in Seq(DbOut) /\ (dbKind = "contrib" => out = <<>>)
    <3>1. "error" \in DbOut
      BY DEF DbOut
    <3>2. <<>> \in Seq(DbOut) /\ <<"error">> \in Seq(DbOut)
      BY <3>1
    <3>3. QED
      BY <3>2
  <2>2. dbQ' = [dbQ EXCEPT ![j] = q]
    BY <1>16
  <2> HIDE DEF out
  <2>3. q \in DbQuery /\ q.at = "done" /\ q.outcome = "error" /\ q.conn = 0 /\ q.rows = dbQ[j].rows /\ q.out = out
    BY <1>5, <2>1 DEF DbQuery
  <2> HIDE DEF q
  <2>4. /\ dbQ' \in Seq(DbQuery) /\ Len(dbQ') = Len(dbQ) /\ dbQ'[j] = q
        /\ \A k \in DOMAIN dbQ \ {j} : dbQ'[k] = dbQ[k]
    BY <1>1, <1>4, <2>2, <2>3, QuerySet
  <2>5. dbKind = "contrib" => SplitOk(q)
    BY <2>1, <2>3 DEF SplitOk, DbEarly
  <2>6. QueryOk(q, dbApplied'[j], dbKind)
    BY <2>3, <2>5 DEF QueryOk, Unsent, DbEarly
  <2>7. UserOk(q, j, dbConns')
    BY <2>3 DEF UserOk
  <2>8. QED
    BY <1>13, <2>3, <2>4, <2>6, <2>7
<1>17. QED
  BY <1>9, <1>14, <1>15, <1>16

(* A connection breaks: the queries that wait for it fail, and it is no longer counted.  *)
LEMMA ConnectionLostKeeps == ASSUME DbInv, NEW c \in DOMAIN dbConns, ConnectionLost(c) PROVE DbInv'
<1> DEFINE todo == dbConns[c].todo
           js == {j \in DOMAIN dbQ : dbQ[j].at = "wait" /\ Contains(todo, j)}
           out == IF dbKind = "contrib" THEN <<>> ELSE <<"error">>
           q(j) == [dbQ[j] EXCEPT !.at = "done", !.outcome = "error", !.conn = 0, !.out = out]
           user == IF dbConns[c].user \in js THEN 0 ELSE dbConns[c].user
           e == [dbConns[c] EXCEPT !.up = FALSE, !.todo = <<>>, !.user = user]
<1>1. /\ DbTypes /\ dbPools \in {0, 1} /\ dbApplied \in Seq({0, 1}) /\ dbConns \in Seq(DbConn) /\ 0 \notin DOMAIN dbConns
      /\ dbConns[c] \in DbConn /\ todo \in Seq(Nat) /\ Len(dbConns) \in Nat /\ DOMAIN dbApplied = DOMAIN dbQ
      /\ DOMAIN dbConns = 1 .. Len(dbConns) /\ DOMAIN dbQ = 1 .. Len(dbQ) /\ Len(dbQ) \in Nat
      /\ \A j \in DOMAIN dbQ : dbQ[j] \in DbQuery
  BY DbDomains DEF DbInv, DbTypes
<1>2. /\ UNCHANGED <<dbKind, dbPools>>
      /\ dbQ' = [j \in DOMAIN dbQ |-> IF j \notin js THEN dbQ[j] ELSE q(j)]
      /\ dbConns' = [dbConns EXCEPT ![c] = e]
      /\ dbApplied' = dbApplied \/ (todo # <<>> /\ dbApplied' = [dbApplied EXCEPT ![Head(todo)] = dbApplied[Head(todo)] + 1])
  BY DEF ConnectionLost
<1>3. out \in Seq(DbOut) /\ (dbKind = "contrib" => out = <<>>)
  <2>1. "error" \in DbOut
    BY DEF DbOut
  <2>2. <<>> \in Seq(DbOut) /\ <<"error">> \in Seq(DbOut)
    BY <2>1
  <2>3. QED
    BY <2>2
<1> HIDE DEF out
<1>4. ASSUME NEW j \in js PROVE q(j) \in DbQuery /\ q(j).at = "done" /\ q(j).outcome = "error" /\ q(j).conn = 0 /\ q(j).out = out
  BY <1>1, <1>3 DEF DbQuery
<1>5. e \in DbConn /\ e.up = FALSE /\ e.pool = dbConns[c].pool /\ e.todo = <<>>
  <2>1. <<>> \in Seq(Nat) /\ user \in Nat
    BY <1>1 DEF DbConn
  <2> HIDE DEF user
  <2>2. QED
    BY <1>1, <2>1 DEF DbConn
<1>6. js \subseteq DOMAIN dbQ
  OBVIOUS
<1> HIDE DEF js, q, e
<1>7. /\ dbQ' \in Seq(DbQuery) /\ Len(dbQ') = Len(dbQ) /\ DOMAIN dbQ' = DOMAIN dbQ
      /\ \A j \in DOMAIN dbQ : dbQ'[j] = IF j \notin js THEN dbQ[j] ELSE q(j)
  <2>1. dbQ' \in [1 .. Len(dbQ) -> DbQuery]
    BY <1>1, <1>2, <1>4
  <2>2. dbQ' \in Seq(DbQuery) /\ Len(dbQ') = Len(dbQ)
    BY <1>1, <2>1
  <2>3. QED
    BY <1>2, <2>2
<1>8. /\ dbConns' \in Seq(DbConn) /\ Len(dbConns') = Len(dbConns) /\ dbConns'[c] = e
      /\ \A d \in DOMAIN dbConns \ {c} : dbConns'[d] = dbConns[d]
      /\ DOMAIN dbConns' = DOMAIN dbConns
  BY <1>1, <1>2, <1>5, SeqSet
<1>9. /\ dbApplied' \in Seq({0, 1}) /\ Len(dbApplied') = Len(dbApplied)
      /\ \A k \in DOMAIN dbQ : \/ dbApplied'[k] = dbApplied[k]
                               \/ dbApplied'[k] = 1 /\ ~Unsent(dbQ[k]) /\ Among(todo, k)
  <2>1. CASE dbApplied' = dbApplied
    BY <1>1, <2>1
  <2>2. CASE todo # <<>> /\ dbApplied' = [dbApplied EXCEPT ![Head(todo)] = dbApplied[Head(todo)] + 1]
    <3> DEFINE h == Head(todo)
    <3>1. h \in Nat /\ Among(todo, h)
      <4>1. Distinct(todo)
        BY DEF DbInv, TodoInv
      <4>2. QED
        BY <1>1, <2>2, <4>1, HeadServed
    <3>2. h \in DOMAIN dbQ /\ dbApplied[h] = 0 /\ ~Unsent(dbQ[h])
      BY <3>1 DEF DbInv, TodoInv
    <3>3. dbApplied' = [dbApplied EXCEPT ![h] = 1] /\ 1 \in {0, 1} /\ h \in DOMAIN dbApplied
      BY <1>1, <2>2, <3>2
    <3> HIDE DEF h
    <3>4. QED
      BY <1>1, <3>1, <3>2, <3>3, SeqSet
  <2>3. QED
    BY <1>2, <2>1, <2>2
<1>10. DbTypes'
  BY <1>1, <1>2, <1>7, <1>8, <1>9 DEF DbTypes
<1>11. \A k \in DOMAIN dbQ : Unsent(dbQ'[k]) => Unsent(dbQ[k])
  BY <1>4, <1>7 DEF Unsent, DbEarly
<1>12. TodoInv'
  <2>1. \A m : ~Among(dbConns'[c].todo, m)
    BY <1>5, <1>8 DEF Among
  <2>2. Distinct(dbConns'[c].todo)
    BY <1>5, <1>8 DEF Distinct
  <2>3. ASSUME NEW d \in DOMAIN dbConns', NEW m \in Nat, Among(dbConns'[d].todo, m)
        PROVE  /\ d \in DOMAIN dbConns /\ d # c /\ Among(dbConns[d].todo, m) /\ ~Among(todo, m)
               /\ m \in DOMAIN dbQ /\ dbApplied[m] = 0 /\ ~Unsent(dbQ[m])
    BY <1>8, <2>1, <2>3 DEF DbInv, TodoInv
  <2>4. \A d \in DOMAIN dbConns' : Distinct(dbConns'[d].todo)
    BY <1>8, <2>2 DEF DbInv, TodoInv
  <2>5. \A d \in DOMAIN dbConns' : \A m \in Nat : Among(dbConns'[d].todo, m) =>
           m \in DOMAIN dbQ' /\ dbApplied'[m] = 0 /\ ~Unsent(dbQ'[m])
    BY <1>7, <1>9, <1>11, <2>3
  <2>6. \A d, f \in DOMAIN dbConns' : \A m \in Nat : Among(dbConns'[d].todo, m) /\ Among(dbConns'[f].todo, m) => d = f
    BY <2>3 DEF DbInv, TodoInv
  <2>7. QED
    BY <2>4, <2>5, <2>6 DEF TodoInv
<1>13. DbQueriesInv'
  <2>1. ASSUME NEW k \in DOMAIN dbQ PROVE QueryOk(dbQ'[k], dbApplied'[k], dbKind) /\ UserOk(dbQ'[k], k, dbConns')
    <3>1. QueryOk(dbQ[k], dbApplied[k], dbKind) /\ UserOk(dbQ[k], k, dbConns)
      BY DEF DbInv, DbQueriesInv
    <3>2. CASE k \in js
      <4>1. dbQ'[k] = q(k) /\ q(k).at = "done" /\ q(k).outcome = "error" /\ q(k).conn = 0 /\ q(k).out = out
        BY <1>4, <1>7, <3>2
      <4>2. dbKind = "contrib" => SplitOk(q(k))
        BY <1>3, <4>1 DEF SplitOk, DbEarly
      <4>3. QED
        BY <4>1, <4>2 DEF QueryOk, UserOk, Unsent, DbEarly
    <3>3. CASE k \notin js
      <4>1. dbQ'[k] = dbQ[k]
        BY <1>7, <3>3
      <4>2. QueryOk(dbQ[k], dbApplied'[k], dbKind)
        BY <1>9, <3>1 DEF QueryOk
      <4>3. UserOk(dbQ[k], k, dbConns')
        BY <1>5, <1>8, <3>1 DEF UserOk
      <4>4. QED
        BY <4>1, <4>2, <4>3
    <3>4. QED
      BY <3>2, <3>3
  <2>2. QED
    BY <1>2, <1>7, <2>1 DEF DbQueriesInv
<1>14. PoolInv'
  <2> SUFFICES ASSUME Pooled PROVE /\ \A d \in DOMAIN dbConns' : dbConns'[d].pool = 1
                                   /\ \A k \in DOMAIN dbQ' : dbQ'[k].at = "get" => dbQ'[k].pool = 1
                                   /\ Cardinality(UpConns') <= DbMax
    BY <1>2 DEF PoolInv, Pooled
  <2>1. \A d \in DOMAIN dbConns' : dbConns'[d].pool = 1
    BY <1>5, <1>8 DEF DbInv, PoolInv
  <2>2. \A k \in DOMAIN dbQ' : dbQ'[k].at = "get" => dbQ'[k].pool = 1
    BY <1>4, <1>7 DEF DbInv, PoolInv
  <2>3. Cardinality(UpConns') <= Cardinality(UpConns) /\ Cardinality(UpConns') \in Nat /\ Cardinality(UpConns) \in Nat
    <3>1. UpConns' \subseteq UpConns
      BY <1>5, <1>8 DEF UpConns
    <3>2. IsFiniteSet(UpConns)
      <4>1. UpConns \subseteq 1 .. Len(dbConns) /\ IsFiniteSet(1 .. Len(dbConns))
        BY <1>1, FS_Interval DEF UpConns
      <4>2. QED
        BY <4>1, FS_Subset
    <3>3. QED
      BY <3>1, <3>2, FS_Subset, FS_CardinalityType
  <2>4. Cardinality(UpConns) <= DbMax /\ DbMax \in Nat
    BY DbAssumption DEF DbInv, PoolInv
  <2>5. QED
    BY <2>1, <2>2, <2>3, <2>4
<1>15. QED
  BY <1>10, <1>12, <1>13, <1>14 DEF DbInv

(* Queries that share the pool of a config node, for any pool size, any number of
   queries, rows and rowsPerMsg, whichever of them look for the pool, create it, wait,
   time out or lose their connection in which order: no more connections are open than
   pool_max_size although every query creates the pool that it did not find (get_pool);
   a connection that is up is used by the one query that holds it; a statement whose
   query gave up is run at most once, and what is reported agrees with whether it ran
   (run_query, do_query); a split result holds every row once and in order, and only
   its last part has the count (send_contrib).                              *)
THEOREM DbIsSound == DbSpec => []DbSound
<1>1. DbInit => DbInv
  <2> SUFFICES ASSUME DbInit PROVE DbInv
    OBVIOUS
  <2> DEFINE e == [pool |-> 0, user |-> 0, up |-> TRUE, todo |-> <<>>]
  <2>1. /\ dbPools = 0 /\ dbQ = <<>> /\ dbApplied = <<>>
        /\ dbConns = IF dbKind = "sqlite" THEN <<e>> ELSE <<>>
    BY DEF DbInit
  <2>2. e \in DbConn /\ e.todo = <<>>
    <3>1. <<>> \in Seq(Nat)
      OBVIOUS
    <3>2. QED
      BY <3>1 DEF DbConn
  <2> HIDE DEF e
  <2>3. /\ dbConns \in Seq(DbConn) /\ dbQ \in Seq(DbQuery) /\ dbApplied \in Seq({0, 1}) /\ Len(dbQ) = 0 /\ Len(dbApplied) = 0
        /\ DOMAIN dbQ = {} /\ (dbKind = "sqlite" => Len(dbConns) = 1)
        /\ \A c \in DOMAIN dbConns : c = 1 /\ dbConns[c].todo = <<>>
        /\ dbKind # "sqlite" => DOMAIN dbConns = {}
    BY <2>1, <2>2
  <2>4. DbTypes
    BY <2>1, <2>3 DEF DbTypes
  <2>5. TodoInv
    <3>1. \A m : ~Among(<<>>, m)
      BY DEF Among
    <3>2. Distinct(<<>>)
      BY DEF Distinct
    <3>3. QED
      BY <2>3, <3>1, <3>2 DEF TodoInv
  <2>6. PoolInv
    <3> SUFFICES ASSUME Pooled PROVE DOMAIN dbConns = {} /\ DOMAIN dbQ = {} /\ Cardinality(UpConns) <= DbMax
      BY DEF PoolInv
    <3>1. DOMAIN dbConns = {} /\ UpConns = {}
      BY <2>3 DEF Pooled, UpConns
    <3>2. 0 <= DbMax
      BY DbAssumption
    <3>3. Cardinality(UpConns) = 0
      BY <3>1, FS_EmptySet
    <3>4. QED
      BY <2>3, <3>1, <3>2, <3>3
  <2>7. QED
    BY <2>3, <2>4, <2>5, <2>6 DEF DbInv, DbQueriesInv
<1>2. DbInv /\ [DbNext]_dbVars => DbInv'
  <2> SUFFICES ASSUME DbInv, [DbNext]_dbVars PROVE DbInv'
    OBVIOUS
  <2>1. CASE DbNext
    <3>1. ASSUME NEW j \in DOMAIN dbQ, DbStep(j) PROVE DbInv'
      BY <3>1, PoolMoves, GetConnectionKeeps, ExecuteKeeps, SendPartKeeps DEF DbStep
    <3>2. ASSUME NEW c \in DOMAIN dbConns, Serve(c) \/ ConnectionLost(c) PROVE DbInv'
      BY <3>2, ServeKeeps, ConnectionLostKeeps
    <3>3. QED
      BY <2>1, <3>1, <3>2, QueryComesKeeps DEF DbNext
  <2>2. CASE UNCHANGED dbVars
    BY <2>2 DEF dbVars, DbInv, DbTypes, TodoInv, PoolInv, DbQueriesInv, UpConns, Pooled
  <2>3. QED
    BY <2>1, <2>2
<1>3. DbInv => DbSound
  <2> SUFFICES ASSUME DbInv PROVE DbSound
    OBVIOUS
  <2>1. Pooled => Cardinality({c \in DOMAIN dbConns : dbConns[c].up}) <= DbMax
    BY DEF DbInv, PoolInv, UpConns
  <2>2. ASSUME NEW j \in DOMAIN dbQ
        PROVE  /\ dbQ[j].conn # 0 /\ dbConns[dbQ[j].conn].up => dbConns[dbQ[j].conn].user = j
               /\ dbApplied[j] <= 1
               /\ dbQ[j].outcome = "rows" => dbApplied[j] = 1
               /\ dbQ[j].outcome = "refused" => dbApplied[j] = 0
               /\ dbQ[j].at = "done" /\ dbQ[j].outcome = "rows" /\ dbKind = "contrib" => PartsHold(dbQ[j].rows, dbQ[j].out)
    <3>1. /\ dbQ[j] \in DbQuery /\ dbApplied[j] \in {0, 1} /\ QueryOk(dbQ[j], dbApplied[j], dbKind)
          /\ UserOk(dbQ[j], j, dbConns)
      BY DbDomains DEF DbInv, DbQueriesInv
    <3>2. ASSUME dbQ[j].at = "done", dbQ[j].outcome = "rows", dbKind = "contrib" PROVE PartsHold(dbQ[j].rows, dbQ[j].out)
      <4>1. dbQ[j].rows \in Seq(DbRow) /\ dbQ[j].out \in Seq(DbOut)
        BY <3>1 DEF DbQuery
      <4>2. /\ Len(dbQ[j].out) = Groups(dbQ[j].rows)
            /\ \A k \in DOMAIN dbQ[j].out : dbQ[j].out[k] = PartOf(dbQ[j].rows, k)
        BY <3>1, <3>2 DEF QueryOk, SplitOk
      <4>3. QED
        BY <4>1, <4>2, GroupsPart
    <3>3. QED
      BY <3>1, <3>2 DEF QueryOk, UserOk, Unsent
  <2>3. QED
    BY <2>1, <2>2 DEF DbSound
<1>4. QED
  BY <1>1, <1>2, <1>3, PTL DEF DbSpec

-----------------------------------------------------------------------------
(* Modbus.                                                                  *)

ModMemories == [Tables -> [0 .. ModRegs - 1 -> Int]]
ModConns == [up : BOOLEAN, slave : ModUnits, pending : BOOLEAN, unit : ModUnits]
ModOutcomes == {"waiting", "ok", "failed", "aborted"}
ModRequestSet == [ask : ModJobKinds, outcome : ModOutcomes, got : Int]
ModServings == [job : Nat, at : ModUnits, got : Int]
ModTyped ==
  /\ modMem \in [ModUnits -> ModMemories]
  /\ modConn \in ModConns
  /\ modJobs \in Seq(ModRequestSet)
  /\ modHist \in Seq(ModServings)
  /\ modHolder \in Nat

(* Who holds the mutex waits for its answer, and the connection's unit is the one it selected. *)
HolderInv ==
  modHolder # 0 =>
    /\ modHolder \in DOMAIN modJobs /\ modJobs[modHolder].outcome = "waiting"
    /\ modConn.unit = SelectUnit(modJobs[modHolder].ask.unit)

(* How often the device served a request: not before its node holds the mutex, at most once
   before the reconnection and once after it. *)
TimesServed(j) == Cardinality({i \in DOMAIN modHist : modHist[i].job = j})
TimesInv ==
  \A j \in DOMAIN modJobs :
    /\ TimesServed(j) <= 2
    /\ modJobs[j].outcome = "ok" => TimesServed(j) >= 1
    /\ modJobs[j].outcome = "waiting" /\ j # modHolder => TimesServed(j) = 0
    /\ j = modHolder => TimesServed(j) <= 1
    /\ j = modHolder /\ modAt \in {"connect", "first"} => TimesServed(j) = 0

(* What request i of the history asked for; each reached the unit of its node. *)
AskOf(i) == modJobs[modHist[i].job].ask
Routed ==
  \A i \in DOMAIN modHist :
    /\ modHist[i].job \in DOMAIN modJobs
    /\ modHist[i].at = MemoryOf(SelectUnit(AskOf(i).unit))

(* Request n of the history wrote over what request i did. *)
Over(i, n) == AskOf(n).write /\ modHist[n].at = modHist[i].at /\ Cells(AskOf(n)) \cap Cells(AskOf(i)) # {}
(* A write that nothing wrote over is still in the memory. *)
MemInv ==
  \A i \in DOMAIN modHist :
    (AskOf(i).write /\ Served(AskOf(i)) /\ \A n \in i + 1 .. Len(modHist) : ~Over(i, n))
    => \A c \in 1 .. Quantity(AskOf(i)) :
         modMem[modHist[i].at][AskOf(i).table][AskOf(i).address + c - 1] = WordsToWrite(AskOf(i))[c]
(* A number that int64 registers keep: the code casts it through u64. *)
InReach(ask) == ask.type = "int64" => ask.value \in 0 .. Span("int64") \div 2 - 1
(* A read gives what the latest write of its registers put there. *)
ReadsInv ==
  \A i, k \in DOMAIN modHist :
    (/\ i < k /\ AskOf(i).write /\ Served(AskOf(i)) /\ ~AskOf(k).write /\ Served(AskOf(k))
     /\ modHist[i].at = modHist[k].at /\ Format(AskOf(i)) = Format(AskOf(k)) /\ InReach(AskOf(i))
     /\ \A n \in i + 1 .. k - 1 : ~Over(i, n))
    => modHist[k].got = Representable(AskOf(i))

ModInv == ModTyped /\ HolderInv /\ TimesInv /\ Routed /\ MemInv /\ ReadsInv

(* A number is its high part and its low word again. *)
LEMMA SplitWord ==
  ASSUME NEW n \in Nat
  PROVE  /\ Low(n) \in 0 .. ModWord - 1 /\ High(n) \in Nat /\ High(n) * ModWord + Low(n) = n
         /\ \A s \in Nat : n < s * ModWord => High(n) < s
<1>1. ModWord \in Nat \ {0}
  BY ModAssumption
<1> DEFINE w == ModWord
<1>2. w \in Nat \ {0}
  BY <1>1
<1> HIDE DEF w
<1>3. n % w \in 0 .. w - 1 /\ n \div w \in Nat /\ (n \div w) * w + (n % w) = n
  BY <1>2
<1>4. ASSUME NEW s \in Nat, n < s * w PROVE n \div w < s
  <2> DEFINE h == n \div w
  <2>1. h \in Nat /\ h * w <= n
    BY <1>2, <1>3
  <2> HIDE DEF h
  <2>2. CASE h >= s
    <3>1. h * w >= s * w
      BY <1>2, <2>1, <2>2
    <3>2. h * w \in Int /\ s * w \in Int
      BY <1>2, <2>1
    <3>3. QED
      BY <1>4, <2>1, <3>1, <3>2
  <2>3. QED
    BY <2>1, <2>2 DEF h
<1>5. QED
  BY <1>3, <1>4 DEF w, Low, High

(* A type holds an even number of numbers: half of them are below zero when it is signed. *)
LEMMA SpanEven ==
  ASSUME NEW type \in ModTypes
  PROVE  \E h \in Nat \ {0} : Span(type) = 2 * h
<1> DEFINE w == ModWord
<1>1. w \in Nat \ {0} /\ w % 2 = 0
  BY ModAssumption
<1> HIDE DEF w
<1>2. PICK h \in Nat \ {0} : w = 2 * h
  BY <1>1
<1>3. w * w = 2 * (h * w) /\ h * w \in Nat \ {0}
  BY <1>1, <1>2
<1> DEFINE a == h * w
           s == w * w
<1>4. a \in Nat \ {0} /\ s = 2 * a /\ s \in Nat \ {0}
  BY <1>1, <1>3
<1> HIDE DEF a, s
<1>5. s * s = 2 * (a * s) /\ a * s \in Nat \ {0}
  BY <1>4
<1>6. Span(type) \in {w, s, s * s}
  BY DEF Span, Square, w, s
<1>7. QED
  BY <1>2, <1>4, <1>5, <1>6

(* The words of a number, joined again, are the number (variant_to_words). *)
LEMMA JoinedWords ==
  ASSUME NEW type \in ModTypes, NEW n \in Nat, n < Span(type), NEW v, CastAs(type, v) = n
  PROVE  /\ variant_to_words(type, v) \in Seq(Int) /\ Len(variant_to_words(type, v)) = register_count(type)
         /\ Joined(variant_to_words(type, v)) = n
<1> DEFINE a == High(n)
           b == High(a)
           c == High(b)
           w == ModWord
<1>1. w \in Nat \ {0}
  BY ModAssumption
<1>2. Low(n) \in 0 .. w - 1 /\ a \in Nat /\ a * w + Low(n) = n /\ \A s \in Nat : n < s * w => a < s
  BY SplitWord
<1> HIDE DEF a
<1>3. Low(a) \in 0 .. w - 1 /\ b \in Nat /\ b * w + Low(a) = a /\ \A s \in Nat : a < s * w => b < s
  BY <1>2, SplitWord
<1> HIDE DEF b
<1>4. Low(b) \in 0 .. w - 1 /\ c \in Nat /\ c * w + Low(b) = b /\ \A s \in Nat : b < s * w => c < s
  BY <1>3, SplitWord
<1> HIDE DEF c
<1>5. \A k \in Nat : k < w => Low(k) = k
  <2>1. ASSUME NEW k \in Nat, k < w PROVE k % w = k
    <3> HIDE DEF w
    <3>1. QED
      BY <1>1, <2>1
  <2>2. QED
    BY <2>1 DEF Low
<1>6. CASE register_count(type) = 1
  <2>1. n < w
    BY <1>6 DEF Span
  <2>2. variant_to_words(type, v) = <<n>>
    BY <1>5, <1>6, <2>1 DEF variant_to_words
  <2>3. QED
    BY <1>6, <2>2 DEF Joined
<1>7. CASE register_count(type) = 2
  <2>1. n < w * w
    BY <1>7 DEF Span, Square
  <2>2. a < w
    BY <1>1, <1>2, <2>1
  <2>3. variant_to_words(type, v) = <<a, Low(n)>>
    BY <1>2, <1>5, <1>7, <2>2 DEF variant_to_words, a
  <2>4. QED
    BY <1>2, <1>7, <2>3 DEF Joined
<1>8. CASE register_count(type) \notin {1, 2}
  <2>0. register_count(type) = 4
    BY <1>8 DEF register_count
  <2>1. n < (w * w) * (w * w)
    BY <2>0 DEF Span, Square
  <2>2. c < w
    <3>1. w * w \in Nat /\ (w * w) * w \in Nat /\ (w * w) * (w * w) = ((w * w) * w) * w
      <4> HIDE DEF w
      <4>1. QED
        BY <1>1
    <3>2. a < (w * w) * w
      BY <1>2, <2>1, <3>1
    <3>3. b < w * w
      BY <1>3, <3>1, <3>2
    <3>4. QED
      BY <1>1, <1>4, <3>3
  <2>3. variant_to_words(type, v) = <<c, Low(b), Low(a), Low(n)>>
    <3>1. Low(c) = c
      BY <1>4, <1>5, <2>2
    <3>2. QED
      BY <2>0, <3>1 DEF variant_to_words, a, b, c
  <2>4. Joined(<<c, Low(b), Low(a), Low(n)>>) = ((c * w + Low(b)) * w + Low(a)) * w + Low(n)
    BY DEF Joined
  <2>5. ((c * w + Low(b)) * w + Low(a)) * w + Low(n) = n
    BY <1>2, <1>3, <1>4
  <2>6. QED
    BY <1>2, <1>3, <1>4, <2>0, <2>3, <2>4, <2>5
<1>9. QED
  BY <1>6, <1>7, <1>8

(* What is written in a type is read in it as the number the type can hold. *)
LEMMA RoundTrip ==
  ASSUME NEW type \in ModTypes, NEW v \in Int, type = "int64" => v \in 0 .. Span("int64") \div 2 - 1
  PROVE  /\ variant_to_words(type, v) \in Seq(Int) /\ Len(variant_to_words(type, v)) = register_count(type)
         /\ words_to_variant(type, variant_to_words(type, v)) =
              IF Signed(type) THEN Clamp(v, -(Span(type) \div 2), Span(type) \div 2 - 1) ELSE Clamp(v, 0, Span(type) - 1)
<1> DEFINE s == Span(type)
<1>1. PICK h \in Nat \ {0} : s = 2 * h
  BY SpanEven
<1>2. s \div 2 = h /\ s \in Nat /\ s > 0
  BY <1>1
<1> HIDE DEF s
<1> DEFINE c == Clamp(v, -h, h - 1)
           u == Clamp(v, 0, s - 1)
<1>3. c \in Int /\ -h <= c /\ c <= h - 1 /\ u \in Nat /\ u < s
  BY <1>1, <1>2 DEF Clamp
<1>4. CASE Signed(type) /\ type # "int64"
  <2>1. CastAs(type, v) = c % s
    BY <1>2, <1>4 DEF CastAs, s
  <2> HIDE DEF c
  <2>2. c % s = IF c >= 0 THEN c ELSE c + s
    BY <1>1, <1>2, <1>3
  <2>3. c % s \in Nat /\ c % s < s
    BY <1>1, <1>2, <1>3, <2>2
  <2>4. /\ variant_to_words(type, v) \in Seq(Int) /\ Len(variant_to_words(type, v)) = register_count(type)
        /\ Joined(variant_to_words(type, v)) = c % s
    BY <2>1, <2>3, JoinedWords DEF s
  <2>5. words_to_variant(type, variant_to_words(type, v)) = IF c % s >= h THEN (c % s) - s ELSE c % s
    BY <1>2, <1>4, <2>4 DEF words_to_variant, s
  <2>6. words_to_variant(type, variant_to_words(type, v)) = c
    BY <1>1, <1>2, <1>3, <2>2, <2>5
  <2>7. QED
    BY <1>2, <1>4, <2>4, <2>6 DEF c, s
<1>5. CASE ~Signed(type)
  <2>1. CastAs(type, v) = u
    BY <1>5 DEF CastAs, s
  <2>2. /\ variant_to_words(type, v) \in Seq(Int) /\ Len(variant_to_words(type, v)) = register_count(type)
        /\ Joined(variant_to_words(type, v)) = u
    <3> HIDE DEF u
    <3>1. QED
      BY <1>3, <2>1, JoinedWords DEF s
  <2>3. QED
    BY <1>5, <2>2 DEF words_to_variant, s
<1>6. CASE type = "int64"
  <2>1. v \in Nat /\ v < h
    BY <1>1, <1>2, <1>6 DEF s
  <2>2. CastAs(type, v) = v /\ v < s /\ Signed(type)
    BY <1>1, <1>2, <1>6, <2>1 DEF CastAs, Clamp, s, Signed
  <2>3. /\ variant_to_words(type, v) \in Seq(Int) /\ Len(variant_to_words(type, v)) = register_count(type)
        /\ Joined(variant_to_words(type, v)) = v
    BY <2>1, <2>2, JoinedWords DEF s
  <2>4. words_to_variant(type, variant_to_words(type, v)) = v
    BY <1>2, <2>1, <2>3 DEF words_to_variant, s
  <2>5. c = v
    BY <1>1, <2>1 DEF Clamp
  <2>6. QED
    BY <1>2, <2>2, <2>3, <2>4, <2>5 DEF s
<1>7. QED
  BY <1>4, <1>5, <1>6

(* A cast gives a number that fits in the registers of the type. *)
LEMMA CastFits ==
  ASSUME NEW type \in ModTypes, NEW v \in Int
  PROVE  CastAs(type, v) \in Nat /\ CastAs(type, v) < Span(type)
<1> DEFINE s == Span(type)
<1>1. PICK h \in Nat \ {0} : s = 2 * h
  BY SpanEven
<1>2. s \div 2 = h /\ s \in Nat /\ s > 0
  BY <1>1
<1>3. CASE Signed(type) /\ type # "int64"
  <2> DEFINE c == Clamp(v, -h, h - 1)
  <2>1. CastAs(type, v) = c % s /\ c \in Int
    BY <1>2, <1>3 DEF CastAs, Clamp
  <2> HIDE DEF c, s
  <2>2. c % s \in Nat /\ c % s < s
    BY <1>2, <2>1
  <2>3. QED
    BY <2>1, <2>2 DEF s
<1>4. CASE ~(Signed(type) /\ type # "int64")
  <2>1. CastAs(type, v) = Clamp(v, 0, s - 1)
    BY <1>4 DEF CastAs
  <2> HIDE DEF s
  <2>2. Clamp(v, 0, s - 1) \in Nat /\ Clamp(v, 0, s - 1) < s
    BY <1>2 DEF Clamp
  <2>3. QED
    BY <2>1, <2>2 DEF s
<1>5. QED
  BY <1>3, <1>4

(* The words a request writes fill its registers, and reading them back in its own format gives
   the number its type can hold.                                            *)
LEMMA WrittenWords ==
  ASSUME NEW w \in ModJobKinds
  PROVE  /\ Quantity(w) \in {1, 2, 4}
         /\ WordsToWrite(w) \in Seq(Int) /\ Len(WordsToWrite(w)) = Quantity(w)
         /\ InReach(w) => DecodedRead(w, WordsToWrite(w)) = Representable(w)
<1>1. /\ w.type \in ModTypes /\ w.value \in Int /\ w.table \in Tables /\ w.contrib \in BOOLEAN
      /\ ModWord \in Nat \ {0}
  BY ModAssumption
<1>2. Quantity(w) \in {1, 2, 4}
  BY DEF Quantity, register_count
<1>3. CASE w.table = "coils"
  <2>1. WordsToWrite(w) = <<Coil(w.value)>> /\ Quantity(w) = 1 /\ Coil(w.value) \in Int
    BY <1>3 DEF WordsToWrite, Quantity, Coil
  <2>2. QED
    BY <1>2, <1>3, <2>1 DEF DecodedRead, Representable
<1>4. CASE w.table # "coils" /\ w.contrib
  <2>1. w.value % ModWord \in Int
    BY <1>1
  <2>2. WordsToWrite(w) = <<w.value % ModWord>> /\ Quantity(w) = 1
    BY <1>4 DEF WordsToWrite, Quantity, ContribWord
  <2>3. QED
    BY <1>2, <1>4, <2>1, <2>2 DEF DecodedRead, Representable
<1>5. CASE w.table # "coils" /\ ~w.contrib
  <2>1. WordsToWrite(w) = variant_to_words(w.type, w.value) /\ Quantity(w) = register_count(w.type)
    BY <1>5 DEF WordsToWrite, Quantity
  <2>2. WordsToWrite(w) \in Seq(Int) /\ Len(WordsToWrite(w)) = Quantity(w)
    BY <1>1, <2>1, CastFits, JoinedWords
  <2>3. ASSUME InReach(w) PROVE DecodedRead(w, WordsToWrite(w)) = Representable(w)
    <3>1. w.type = "int64" => w.value \in 0 .. Span("int64") \div 2 - 1
      BY <2>3 DEF InReach
    <3>2. words_to_variant(w.type, variant_to_words(w.type, w.value)) =
            IF Signed(w.type) THEN Clamp(w.value, -(Span(w.type) \div 2), Span(w.type) \div 2 - 1)
                              ELSE Clamp(w.value, 0, Span(w.type) - 1)
      BY <1>1, <3>1, RoundTrip
    <3>3. QED
      BY <1>5, <2>1, <3>2 DEF DecodedRead, Representable
  <2>4. QED
    BY <1>2, <2>2, <2>3
<1>6. QED
  BY <1>3, <1>4, <1>5

(* What is read is a number. *)
LEMMA ReadTyped ==
  ASSUME NEW r \in ModJobKinds, NEW mem \in ModMemories, Served(r)
  PROVE  /\ ReadOf(mem, r) \in Seq(Int) /\ Len(ReadOf(mem, r)) = Quantity(r)
         /\ DecodedRead(r, ReadOf(mem, r)) \in Int
<1>1. /\ r.type \in ModTypes /\ r.address \in Nat /\ r.table \in Tables /\ r.contrib \in BOOLEAN
      /\ ModWord \in Nat \ {0} /\ ModRegs \in Nat
  BY ModAssumption
<1> DEFINE q == Quantity(r)
           s == ReadOf(mem, r)
<1>2. q \in {1, 2, 4}
  BY DEF Quantity, register_count
<1>3. \A i \in 1 .. q : r.address + i - 1 \in 0 .. ModRegs - 1
  BY <1>1, <1>2 DEF Served
<1>4. mem[r.table] \in [0 .. ModRegs - 1 -> Int]
  BY <1>1 DEF ModMemories
<1>5. s = [i \in 1 .. q |-> mem[r.table][r.address + i - 1]]
  BY DEF ReadOf
<1> HIDE DEF s
<1>6. s \in [1 .. q -> Int]
  BY <1>3, <1>4, <1>5
<1>7. s \in Seq(Int) /\ Len(s) = q
  BY <1>2, <1>6
<1>8. Joined(s) \in Int
  <2>1. CASE q = 1
    BY <1>7, <2>1 DEF Joined
  <2>2. CASE q = 2
    <3>1. s[1] \in Int /\ s[2] \in Int
      BY <1>6, <2>2
    <3>2. QED
      BY <1>1, <1>7, <2>2, <3>1 DEF Joined
  <2>3. CASE q = 4
    <3>1. s[1] \in Int /\ s[2] \in Int /\ s[3] \in Int /\ s[4] \in Int
      BY <1>6, <2>3
    <3>2. Joined(s) = ((s[1] * ModWord + s[2]) * ModWord + s[3]) * ModWord + s[4]
      BY <1>7, <2>3 DEF Joined
    <3>3. QED
      BY <1>1, <3>1, <3>2
  <2>4. QED
    BY <1>2, <2>1, <2>2, <2>3
<1>9. DecodedRead(r, s) \in Int
  <2>1. PICK h \in Nat \ {0} : Span(r.type) = 2 * h
    BY <1>1, SpanEven
  <2>2. words_to_variant(r.type, s) \in {Joined(s), Joined(s) - Span(r.type)}
    BY DEF words_to_variant
  <2>3. words_to_variant(r.type, s) \in Int
    BY <1>8, <2>1, <2>2
  <2>4. s[1] \in Int
    BY <1>2, <1>6
  <2>5. QED
    BY <2>3, <2>4 DEF DecodedRead
<1>10. QED
  BY <1>7, <1>9 DEF s

(* What a write does to a memory. *)
LEMMA CellsWritten ==
  ASSUME NEW job \in ModJobKinds, NEW mem \in ModMemories
  PROVE  /\ Written(mem, job) \in ModMemories
         /\ \A t \in Tables : \A a \in 0 .. ModRegs - 1 :
              Written(mem, job)[t][a] =
                IF <<t, a>> \in Cells(job) THEN WordsToWrite(job)[a - job.address + 1] ELSE mem[t][a]
<1>1. job.address \in Nat /\ job.table \in Tables /\ ModRegs \in Nat
  BY ModAssumption
<1>2. Quantity(job) \in {1, 2, 4} /\ WordsToWrite(job) \in Seq(Int) /\ Len(WordsToWrite(job)) = Quantity(job)
  BY WrittenWords
<1> DEFINE at == job.address .. job.address + Quantity(job) - 1
           row == [a \in 0 .. ModRegs - 1 |-> IF a \in at THEN WordsToWrite(job)[a - job.address + 1] ELSE mem[job.table][a]]
<1>3. \A a \in at : WordsToWrite(job)[a - job.address + 1] \in Int
  <2>1. ASSUME NEW a \in at PROVE WordsToWrite(job)[a - job.address + 1] \in Int
    <3>1. a - job.address + 1 \in 1 .. Len(WordsToWrite(job))
      BY <1>1, <1>2
    <3>2. QED
      BY <1>2, <3>1
  <2>2. QED
    BY <2>1
<1>4. mem \in [Tables -> [0 .. ModRegs - 1 -> Int]] /\ DOMAIN mem[job.table] = 0 .. ModRegs - 1
  BY <1>1 DEF ModMemories
<1>5. Written(mem, job) = [mem EXCEPT ![job.table] = row]
  BY <1>4 DEF Written
<1>6. row \in [0 .. ModRegs - 1 -> Int]
  BY <1>1, <1>3, <1>4
<1>7. \A t, a : <<t, a>> \in Cells(job) <=> t = job.table /\ a \in at
  BY DEF Cells
<1>8. Written(mem, job) \in ModMemories
  <2> HIDE DEF row
  <2>1. QED
    BY <1>4, <1>5, <1>6 DEF ModMemories
<1>9. ASSUME NEW t \in Tables, NEW a \in 0 .. ModRegs - 1
      PROVE  Written(mem, job)[t][a] =
               IF <<t, a>> \in Cells(job) THEN WordsToWrite(job)[a - job.address + 1] ELSE mem[t][a]
  <2>1. CASE t = job.table
    <3>1. Written(mem, job)[t] = row
      BY <1>1, <1>4, <1>5, <2>1
    <3>2. QED
      BY <1>7, <2>1, <3>1
  <2>2. CASE t # job.table
    <3>1. Written(mem, job)[t] = mem[t]
      BY <1>4, <1>5, <2>2
    <3>2. QED
      BY <1>7, <2>2, <3>1
  <2>3. QED
    BY <2>1, <2>2
<1>10. QED
  BY <1>8, <1>9

(* What is known of the history and of the memories. *)
HistoryInv == Routed /\ MemInv /\ ReadsInv

(* What the types say of a request, of a serving and of a memory. *)
LEMMA ModFacts ==
  ASSUME ModTyped
  PROVE  /\ Len(modJobs) \in Nat /\ DOMAIN modJobs = 1 .. Len(modJobs)
         /\ \A k \in DOMAIN modJobs : /\ modJobs[k] \in ModRequestSet /\ modJobs[k].ask \in ModJobKinds
                                    /\ modJobs[k].ask.unit \in ModUnits \cup {0} /\ SelectUnit(modJobs[k].ask.unit) \in ModUnits
         /\ Len(modHist) \in Nat /\ DOMAIN modHist = 1 .. Len(modHist)
         /\ \A i \in DOMAIN modHist : modHist[i] \in ModServings /\ modHist[i].at \in ModUnits
         /\ \A u \in ModUnits : MemoryOf(u) \in ModUnits /\ modMem[u] \in ModMemories
<1>1. /\ Len(modJobs) \in Nat /\ DOMAIN modJobs = 1 .. Len(modJobs) /\ \A k \in DOMAIN modJobs : modJobs[k] \in ModRequestSet
  BY DEF ModTyped
<1>2. /\ Len(modHist) \in Nat /\ DOMAIN modHist = 1 .. Len(modHist) /\ \A i \in DOMAIN modHist : modHist[i] \in ModServings
  BY DEF ModTyped
<1>3. \A k \in DOMAIN modJobs : modJobs[k].ask \in ModJobKinds
  BY <1>1 DEF ModRequestSet
<1>4. \A k \in DOMAIN modJobs : modJobs[k].ask.unit \in ModUnits \cup {0}
  BY <1>3, ModAssumption
<1>5. \A k \in DOMAIN modJobs : SelectUnit(modJobs[k].ask.unit) \in ModUnits
  BY <1>4, ModAssumption DEF SelectUnit
<1>6. \A i \in DOMAIN modHist : modHist[i].at \in ModUnits
  BY <1>2 DEF ModServings
<1>7. \A u \in ModUnits : MemoryOf(u) \in ModUnits /\ modMem[u] \in ModMemories
  BY ModAssumption DEF ModTyped, MemoryOf
<1>8. QED
  BY <1>1, <1>2, <1>3, <1>4, <1>5, <1>6, <1>7, Zenon

(* A step that neither reaches the device nor takes a request back keeps the history. *)
LEMMA HistoryStays ==
  ASSUME ModTyped, HistoryInv, UNCHANGED <<modMem, modHist, modDevice>>,
         \A k \in DOMAIN modJobs : k \in DOMAIN modJobs' /\ modJobs'[k].ask = modJobs[k].ask
  PROVE  /\ HistoryInv'
         /\ \A i \in DOMAIN modHist : AskOf(i)' = AskOf(i)
<1>1. \A i \in DOMAIN modHist : AskOf(i)' = AskOf(i) /\ modHist[i].job \in DOMAIN modJobs'
  BY DEF HistoryInv, Routed, AskOf
<1>2. \A i, n \in DOMAIN modHist : Over(i, n)' <=> Over(i, n)
  BY <1>1 DEF Over
<1>3. Routed'
  BY <1>1 DEF HistoryInv, Routed, MemoryOf, SelectUnit
<1>4. Len(modHist) \in Nat /\ DOMAIN modHist = 1 .. Len(modHist)
  BY ModFacts
<1>5. MemInv'
  <2> SUFFICES ASSUME NEW i \in DOMAIN modHist, AskOf(i).write, Served(AskOf(i)),
                      \A n \in i + 1 .. Len(modHist) : ~Over(i, n)'
               PROVE  \A c \in 1 .. Quantity(AskOf(i)) :
                        modMem[modHist[i].at][AskOf(i).table][AskOf(i).address + c - 1] = WordsToWrite(AskOf(i))[c]
    BY <1>1 DEF MemInv
  <2>1. \A n \in i + 1 .. Len(modHist) : ~Over(i, n)
    BY <1>2, <1>4
  <2>2. QED
    BY <2>1 DEF HistoryInv, MemInv
<1>6. ReadsInv'
  <2> SUFFICES ASSUME NEW i \in DOMAIN modHist, NEW k \in DOMAIN modHist,
                      i < k, AskOf(i).write, Served(AskOf(i)), ~AskOf(k).write, Served(AskOf(k)),
                      modHist[i].at = modHist[k].at, Format(AskOf(i)) = Format(AskOf(k)), InReach(AskOf(i)),
                      \A n \in i + 1 .. k - 1 : ~Over(i, n)'
               PROVE  modHist[k].got = Representable(AskOf(i))
    BY <1>1 DEF ReadsInv
  <2>1. \A n \in i + 1 .. k - 1 : ~Over(i, n)
    BY <1>2, <1>4
  <2>2. QED
    BY <2>1 DEF HistoryInv, ReadsInv
<1>7. QED
  BY <1>1, <1>3, <1>5, <1>6 DEF HistoryInv

(* A request that reaches the device of its unit keeps it too. *)
LEMMA ReachKeeps ==
  ASSUME ModTyped, HistoryInv, UNCHANGED modDevice, NEW j \in DOMAIN modJobs, NEW unit \in ModUnits,
         unit = SelectUnit(modJobs[j].ask.unit), Reach(j, unit),
         DOMAIN modJobs' = DOMAIN modJobs, \A k \in DOMAIN modJobs : modJobs'[k].ask = modJobs[k].ask
  PROVE  /\ HistoryInv'
         /\ modMem' \in [ModUnits -> ModMemories]
         /\ modHist' \in Seq(ModServings)
         /\ Len(modHist') = Len(modHist) + 1 /\ modHist'[Len(modHist) + 1].job = j
         /\ \A i \in DOMAIN modHist : modHist'[i] = modHist[i]
<1>0. PICK L \in Nat : L = Len(modHist)
  BY ModFacts
<1> DEFINE job == modJobs[j].ask
           at == MemoryOf(unit)
           got == IF job.write \/ ~Served(job) THEN 0 ELSE DecodedRead(job, ReadOf(modMem[at], job))
           e == [job |-> j, at |-> at, got |-> got]
<1>1. /\ job \in ModJobKinds /\ j \in Nat /\ at \in ModUnits /\ L \in Nat /\ DOMAIN modHist = 1 .. L
      /\ modMem[at] \in ModMemories
  BY <1>0, ModFacts
<1>2. got \in Int
  BY <1>1, ReadTyped
<1>3. /\ modHist' = Append(modHist, e) /\ modHist \in Seq(ModServings)
      /\ modMem' = IF job.write /\ Served(job) THEN [modMem EXCEPT ![at] = Written(modMem[at], job)] ELSE modMem
  BY DEF Reach, ModTyped
<1> HIDE DEF got, at, job
<1>4. e \in ModServings /\ e.job = j /\ e.at = at /\ e.got = got
  BY <1>1, <1>2 DEF ModServings
<1> HIDE DEF e
<1>5. /\ modHist' \in Seq(ModServings)
      /\ Len(modHist') = L + 1 /\ DOMAIN modHist' = 1 .. L + 1
      /\ \A i \in 1 .. L : modHist'[i] = modHist[i]
      /\ modHist'[L + 1] = e /\ L + 1 \in 1 .. L + 1
  BY <1>0, <1>1, <1>3, <1>4, AppendProperties
<1>6. modMem' \in [ModUnits -> ModMemories]
  <2>1. Written(modMem[at], job) \in ModMemories
    BY <1>1, CellsWritten
  <2>2. QED
    BY <1>1, <1>3, <2>1 DEF ModTyped
<1>7. /\ \A i \in 1 .. L : AskOf(i)' = AskOf(i) /\ modHist[i].job \in DOMAIN modJobs /\ AskOf(i) \in ModJobKinds
      /\ AskOf(L + 1)' = job
  <2>1. \A i \in 1 .. L : modHist[i].job \in DOMAIN modJobs
    BY <1>1 DEF HistoryInv, Routed
  <2>2. \A k \in DOMAIN modJobs : modJobs[k].ask \in ModJobKinds
    BY ModFacts
  <2>3. AskOf(L + 1)' = job
    BY <1>4, <1>5 DEF AskOf, job
  <2>4. QED
    BY <1>5, <2>1, <2>2, <2>3 DEF AskOf
<1>8. \A i, n \in 1 .. L : Over(i, n)' <=> Over(i, n)
  BY <1>5, <1>7 DEF Over
<1>9. Routed'
  <2>1. \A i \in 1 .. L : modHist[i].at = MemoryOf(SelectUnit(AskOf(i).unit))
    BY <1>1 DEF HistoryInv, Routed
  <2>2. SUFFICES ASSUME NEW i \in 1 .. L + 1
                 PROVE  modHist'[i].job \in DOMAIN modJobs /\ modHist'[i].at = MemoryOf(SelectUnit(AskOf(i)'.unit))
    BY <1>5 DEF Routed, MemoryOf, SelectUnit
  <2>3. CASE i \in 1 .. L
    BY <1>5, <1>7, <2>1, <2>3
  <2>4. CASE i = L + 1
    BY <1>4, <1>5, <1>7, <2>4 DEF at, job
  <2>5. QED
    BY <1>1, <2>3, <2>4
<1>10. \A i \in 1 .. L : Over(i, L + 1)' <=> job.write /\ at = modHist[i].at /\ Cells(job) \cap Cells(AskOf(i)) # {}
  BY <1>1, <1>4, <1>5, <1>7 DEF Over
<1>11. MemInv'
  <2> SUFFICES ASSUME NEW i \in 1 .. L + 1, AskOf(i)'.write, Served(AskOf(i)'),
                      \A n \in i + 1 .. L + 1 : ~Over(i, n)',
                      NEW c \in 1 .. Quantity(AskOf(i)')
               PROVE  modMem'[modHist'[i].at][AskOf(i)'.table][AskOf(i)'.address + c - 1] = WordsToWrite(AskOf(i)')[c]
    BY <1>5 DEF MemInv
  <2>1. CASE i \in 1 .. L
    <3> DEFINE w == AskOf(i)
               u == modHist[i].at
               a == w.address + c - 1
    <3>1. /\ w \in ModJobKinds /\ w.address \in Nat /\ w.table \in Tables /\ ModRegs \in Nat
          /\ u \in ModUnits /\ AskOf(i)' = w /\ modHist'[i].at = u
      BY <1>1, <1>5, <1>7, <2>1, ModAssumption, ModFacts
    <3>2. Quantity(w) \in {1, 2, 4}
      BY <3>1, WrittenWords
    <3> HIDE DEF w
    <3>3. a \in 0 .. ModRegs - 1 /\ <<w.table, a>> \in Cells(w) /\ c \in 1 .. Quantity(w)
      BY <3>1, <3>2 DEF Served, Cells
    <3>4. modMem[u][w.table][a] = WordsToWrite(w)[c]
      <4>1. \A n \in i + 1 .. L : ~Over(i, n)
        BY <1>1, <1>8, <2>1
      <4>2. QED
        BY <1>0, <1>1, <2>1, <3>1, <3>3, <4>1 DEF HistoryInv, MemInv, w
    <3> HIDE DEF a, u
    <3>5. ~Over(i, L + 1)'
      BY <1>1, <2>1
    <3>6. modMem'[u][w.table][a] = modMem[u][w.table][a]
      <4>1. CASE ~(job.write /\ Served(job)) \/ u # at
        BY <1>1, <1>3, <3>1, <4>1 DEF ModTyped
      <4>2. CASE job.write /\ Served(job) /\ u = at
        <5>1. modMem'[u] = Written(modMem[at], job)
          BY <1>1, <1>3, <4>2 DEF ModTyped
        <5>2. <<w.table, a>> \notin Cells(job)
          BY <1>10, <2>1, <3>3, <3>5, <4>2 DEF u, w
        <5>3. QED
          BY <1>1, <3>1, <3>3, <4>2, <5>1, <5>2, CellsWritten
      <4>3. QED
        BY <4>1, <4>2
    <3>7. QED
      BY <3>1, <3>4, <3>6 DEF a
  <2>2. CASE i = L + 1
    <3>1. AskOf(i)' = job /\ modHist'[i].at = at
      BY <1>4, <1>5, <1>7, <2>2
    <3>2. Quantity(job) \in {1, 2, 4} /\ job.address \in Nat /\ job.table \in Tables /\ ModRegs \in Nat
      BY <1>1, WrittenWords, ModAssumption
    <3>3. c \in 1 .. Quantity(job) /\ job.write /\ Served(job)
      BY <3>1
    <3> DEFINE a == job.address + c - 1
    <3>4. a \in 0 .. ModRegs - 1 /\ <<job.table, a>> \in Cells(job) /\ a - job.address + 1 = c
      BY <3>2, <3>3 DEF Served, Cells
    <3>5. modMem'[at] = Written(modMem[at], job)
      BY <1>1, <1>3, <3>3 DEF ModTyped
    <3> HIDE DEF a
    <3>6. Written(modMem[at], job)[job.table][a] = WordsToWrite(job)[a - job.address + 1]
      BY <1>1, <3>2, <3>4, CellsWritten
    <3>7. QED
      BY <3>1, <3>4, <3>5, <3>6 DEF a
  <2>3. QED
    BY <1>1, <2>1, <2>2
<1>12. ReadsInv'
  <2> SUFFICES ASSUME NEW i \in 1 .. L + 1, NEW k \in 1 .. L + 1,
                      i < k, AskOf(i)'.write, Served(AskOf(i)'), ~AskOf(k)'.write, Served(AskOf(k)'),
                      modHist'[i].at = modHist'[k].at, Format(AskOf(i)') = Format(AskOf(k)'), InReach(AskOf(i)'),
                      \A n \in i + 1 .. k - 1 : ~Over(i, n)'
               PROVE  modHist'[k].got = Representable(AskOf(i)')
    BY <1>5 DEF ReadsInv
  <2>1. i \in 1 .. L
    BY <1>1
  <2>2. AskOf(i)' = AskOf(i) /\ modHist'[i] = modHist[i]
    BY <1>5, <1>7, <2>1
  <2>3. \A n \in i + 1 .. k - 1 : n \in 1 .. L => ~Over(i, n)
    BY <1>8, <2>1
  <2>4. CASE k \in 1 .. L
    <3>1. AskOf(k)' = AskOf(k) /\ modHist'[k] = modHist[k]
      BY <1>5, <1>7, <2>4
    <3>2. \A n \in i + 1 .. k - 1 : ~Over(i, n)
      BY <1>1, <2>1, <2>3, <2>4
    <3>3. QED
      BY <1>1, <2>1, <2>2, <2>4, <3>1, <3>2 DEF HistoryInv, ReadsInv
  <2>5. CASE k = L + 1
    <3> DEFINE w == AskOf(i)
    <3>1. AskOf(k)' = job /\ modHist'[k] = e /\ modHist[i].at = at /\ ~job.write /\ Served(job)
      BY <1>4, <1>5, <1>7, <2>2, <2>5
    <3>2. w \in ModJobKinds /\ w.write /\ Served(w) /\ InReach(w) /\ Format(w) = Format(job)
      BY <1>7, <2>1, <2>2, <3>1
    <3>3. \A n \in i + 1 .. L : ~Over(i, n)
      BY <1>1, <2>1, <2>3, <2>5
    <3>4. \A c \in 1 .. Quantity(w) : modMem[at][w.table][w.address + c - 1] = WordsToWrite(w)[c]
      BY <1>0, <1>1, <2>1, <3>1, <3>2, <3>3 DEF HistoryInv, MemInv
    <3> HIDE DEF w
    <3>5. /\ w.table = job.table /\ w.address = job.address /\ w.contrib = job.contrib
          /\ ~w.contrib => w.type = job.type
      BY <3>2 DEF Format
    <3>6. Quantity(w) = Quantity(job) /\ \A words : DecodedRead(w, words) = DecodedRead(job, words)
      BY <1>1, <3>2, <3>5, ModAssumption DEF Quantity, DecodedRead
    <3>7. WordsToWrite(w) \in Seq(Int) /\ Len(WordsToWrite(w)) = Quantity(w) /\ Quantity(w) \in {1, 2, 4}
      BY <3>2, WrittenWords
    <3>8. ReadOf(modMem[at], job) = [c \in 1 .. Quantity(w) |-> WordsToWrite(w)[c]]
      BY <3>4, <3>5, <3>6 DEF ReadOf
    <3>9. WordsToWrite(w) = [c \in 1 .. Quantity(w) |-> WordsToWrite(w)[c]]
      BY <3>7
    <3>10. got = DecodedRead(w, WordsToWrite(w))
      BY <3>1, <3>6, <3>8, <3>9 DEF got
    <3>11. DecodedRead(w, WordsToWrite(w)) = Representable(w)
      BY <3>2, WrittenWords
    <3>12. QED
      BY <1>4, <2>2, <3>1, <3>10, <3>11 DEF w
  <2>6. QED
    BY <1>1, <2>4, <2>5
<1>13. QED
  BY <1>0, <1>1, <1>4, <1>5, <1>6, <1>9, <1>11, <1>12 DEF HistoryInv

(* How often a request was served, after a step that served request j and after one that served none. *)
LEMMA TimesReached ==
  ASSUME ModTyped, NEW j, modHist' \in Seq(ModServings), Len(modHist') = Len(modHist) + 1,
         modHist'[Len(modHist) + 1].job = j, \A i \in DOMAIN modHist : modHist'[i] = modHist[i]
  PROVE  /\ \A k : k # j => TimesServed(k)' = TimesServed(k)
         /\ TimesServed(j)' = TimesServed(j) + 1
         /\ \A k : TimesServed(k) \in Nat
<1>0. PICK L \in Nat : L = Len(modHist)
  BY ModFacts
<1>1. DOMAIN modHist = 1 .. L /\ DOMAIN modHist' = 1 .. L + 1 /\ modHist'[L + 1].job = j
  BY <1>0, ModFacts
<1> DEFINE S(k) == {i \in 1 .. L : modHist[i].job = k}
<1>2. \A k : TimesServed(k) = Cardinality(S(k))
  BY <1>1 DEF TimesServed
<1>3. \A k : TimesServed(k)' = Cardinality({i \in 1 .. L + 1 : modHist'[i].job = k})
  BY <1>1 DEF TimesServed
<1>4. \A k : IsFiniteSet(S(k)) /\ Cardinality(S(k)) \in Nat
  <2>1. ASSUME NEW k PROVE IsFiniteSet(S(k)) /\ Cardinality(S(k)) \in Nat
    <3>1. IsFiniteSet(1 .. L)
      BY FS_Interval
    <3>2. S(k) \subseteq 1 .. L
      OBVIOUS
    <3>3. IsFiniteSet(S(k))
      BY <3>1, <3>2, FS_Subset
    <3>4. QED
      BY <3>3, FS_CardinalityType
  <2>2. QED
    BY <2>1
<1>5. ASSUME NEW k, k # j PROVE {i \in 1 .. L + 1 : modHist'[i].job = k} = S(k)
  BY <1>1, <1>5
<1>6. {i \in 1 .. L + 1 : modHist'[i].job = j} = S(j) \cup {L + 1} /\ L + 1 \notin S(j)
  BY <1>1
<1> HIDE DEF S
<1>7. Cardinality(S(j) \cup {L + 1}) = Cardinality(S(j)) + 1
  BY <1>4, <1>6, FS_AddElement
<1>8. QED
  BY <1>2, <1>3, <1>4, <1>5, <1>6, <1>7

(* The end of a request, served or not in the same step. *)
LEMMA SettleKeeps ==
  ASSUME ModTyped, TimesInv, NEW j \in DOMAIN modJobs, NEW outcome \in ModOutcomes \ {"waiting"}, NEW got \in Int,
         Settle(j, outcome, got), modHolder \in {0, j},
         \A k \in DOMAIN modJobs : k # j => TimesServed(k)' = TimesServed(k),
         TimesServed(j)' <= 2, outcome = "ok" => TimesServed(j)' >= 1
  PROVE  /\ modJobs' \in Seq(ModRequestSet) /\ modHolder' \in Nat /\ TimesInv' /\ HolderInv'
         /\ DOMAIN modJobs' = DOMAIN modJobs /\ \A k \in DOMAIN modJobs : modJobs'[k].ask = modJobs[k].ask
<1>1. /\ DOMAIN modJobs = 1 .. Len(modJobs) /\ Len(modJobs) \in Nat
      /\ \A k \in DOMAIN modJobs : modJobs[k] \in ModRequestSet
  BY ModFacts
<1> DEFINE new == [modJobs[j] EXCEPT !.outcome = outcome, !.got = got]
<1>2. modJobs' = [modJobs EXCEPT ![j] = new] /\ modHolder' = 0
  BY DEF Settle
<1>3. ASSUME NEW r \in ModRequestSet
      PROVE  /\ [r EXCEPT !.outcome = outcome, !.got = got] \in ModRequestSet
             /\ [r EXCEPT !.outcome = outcome, !.got = got].ask = r.ask
             /\ [r EXCEPT !.outcome = outcome, !.got = got].outcome = outcome
  BY DEF ModRequestSet
<1>4. new \in ModRequestSet /\ new.ask = modJobs[j].ask /\ new.outcome = outcome
  BY <1>1, <1>3
<1> HIDE DEF new
<1>5. modJobs \in Seq(ModRequestSet)
  BY DEF ModTyped
<1>6. /\ modJobs' \in Seq(ModRequestSet) /\ DOMAIN modJobs' = DOMAIN modJobs
      /\ modJobs'[j] = new /\ \A k \in DOMAIN modJobs : k # j => modJobs'[k] = modJobs[k]
  BY <1>2, <1>4, <1>5
<1>7. TimesInv'
  <2> SUFFICES ASSUME NEW k \in DOMAIN modJobs
               PROVE  /\ TimesServed(k)' <= 2
                      /\ modJobs'[k].outcome = "ok" => TimesServed(k)' >= 1
                      /\ modJobs'[k].outcome = "waiting" /\ k # modHolder' => TimesServed(k)' = 0
                      /\ k # modHolder'
    BY <1>6 DEF TimesInv
  <2>1. k # 0
    BY <1>1
  <2>2. CASE k = j
    BY <1>2, <1>4, <1>6, <2>1, <2>2
  <2>3. CASE k # j
    BY <1>2, <1>6, <2>1, <2>3 DEF TimesInv
  <2>4. QED
    BY <2>2, <2>3
<1>8. HolderInv'
  BY <1>2 DEF HolderInv
<1>9. QED
  BY <1>2, <1>4, <1>6, <1>7, <1>8

(* No request has been made yet. *)
LEMMA ModInitial == ModInit => ModInv
<1> SUFFICES ASSUME ModInit PROVE ModInv
  OBVIOUS
<1>1. modMem \in [ModUnits -> ModMemories]
  BY DEF ModInit, ModMemories
<1>2. modConn \in ModConns
  BY ModAssumption DEF ModInit, ModConns
<1>3. modJobs \in Seq(ModRequestSet) /\ DOMAIN modJobs = {} /\ modHist \in Seq(ModServings) /\ DOMAIN modHist = {}
  BY DEF ModInit
<1>4. modHolder = 0
  BY DEF ModInit
<1>5. QED
  BY <1>1, <1>2, <1>3, <1>4 DEF ModInv, ModTyped, ModConns, HolderInv, TimesInv, Routed, MemInv, ReadsInv

(* A new request has not been served. *)
LEMMA JobComesKeeps ==
  ASSUME ModInv, NEW ask \in ModJobKinds, JobComes(ask)
  PROVE  ModInv'
<1> USE DEF ModInv
<1> DEFINE new == [ask |-> ask, outcome |-> "waiting", got |-> 0]
<1>0. PICK L \in Nat : L = Len(modJobs)
  BY ModFacts
<1>1. /\ modJobs' = Append(modJobs, new) /\ modHist' = modHist /\ modHolder' = modHolder /\ modAt' = modAt /\ modConn' = modConn
      /\ modMem' = modMem /\ modDevice' = modDevice
  BY DEF JobComes
<1>2. new \in ModRequestSet /\ new.outcome = "waiting"
  BY DEF ModRequestSet, ModOutcomes
<1> HIDE DEF new
<1>3. modJobs \in Seq(ModRequestSet) /\ DOMAIN modJobs = 1 .. L
  BY <1>0, ModFacts DEF ModTyped
<1>4. /\ modJobs' \in Seq(ModRequestSet) /\ DOMAIN modJobs' = 1 .. L + 1
      /\ \A k \in 1 .. L : modJobs'[k] = modJobs[k]
      /\ modJobs'[L + 1] = new
  <2>1. /\ Append(modJobs, new) \in Seq(ModRequestSet) /\ Len(Append(modJobs, new)) = L + 1
        /\ \A k \in 1 .. L : Append(modJobs, new)[k] = modJobs[k]
        /\ Append(modJobs, new)[L + 1] = new
    BY <1>0, <1>2, <1>3, AppendProperties
  <2>2. QED
    BY <1>0, <1>1, <2>1
<1>5. ModTyped'
  BY <1>1, <1>4 DEF ModTyped
<1>6. HistoryInv'
  BY <1>1, <1>3, <1>4, HistoryStays DEF HistoryInv
<1>7. HolderInv'
  BY <1>1, <1>3, <1>4 DEF HolderInv, SelectUnit
<1>8. TimesInv'
  <2>1. \A k : TimesServed(k)' = TimesServed(k)
    BY <1>1 DEF TimesServed
  <2>2. TimesServed(L + 1) = 0
    <3>1. {i \in DOMAIN modHist : modHist[i].job = L + 1} = {}
      BY <1>3 DEF Routed
    <3>2. QED
      BY <3>1, FS_EmptySet DEF TimesServed
  <2>3. modHolder # L + 1
    BY <1>3 DEF HolderInv
  <2> SUFFICES ASSUME NEW k \in 1 .. L + 1
               PROVE  /\ TimesServed(k) <= 2
                      /\ modJobs'[k].outcome = "ok" => TimesServed(k) >= 1
                      /\ modJobs'[k].outcome = "waiting" /\ k # modHolder => TimesServed(k) = 0
                      /\ k = modHolder => TimesServed(k) <= 1
                      /\ k = modHolder /\ modAt \in {"connect", "first"} => TimesServed(k) = 0
    BY <1>1, <1>4, <2>1 DEF TimesInv
  <2>4. CASE k \in 1 .. L
    BY <1>3, <1>4, <2>4 DEF TimesInv
  <2>5. CASE k = L + 1
    BY <1>2, <1>4, <2>2, <2>3, <2>5
  <2>6. QED
    BY <2>4, <2>5
<1>9. QED
  BY <1>5, <1>6, <1>7, <1>8 DEF HistoryInv

(* The server node is fed before the first request only. *)
LEMMA ServerInputKeeps ==
  ASSUME ModInv, NEW t \in Tables, NEW a, NEW v \in Int, ServerInput(t, a, v)
  PROVE  ModInv'
<1> USE DEF ModInv
<1> DEFINE x == IF t = "coils" THEN Coil(v) ELSE Clamp(v, 0, ModWord - 1)
           row == IF a \in 0 .. ModRegs - 1 THEN [modMem[ModUnit][t] EXCEPT ![a] = x] ELSE modMem[ModUnit][t]
<1>1. UNCHANGED <<modDevice, modConn, modJobs, modHolder, modAt, modHist>> /\ modHist = <<>>
  BY DEF ServerInput
<1>2. x \in Int
  BY ModAssumption DEF Coil, Clamp
<1>3. /\ ModUnit \in ModUnits /\ modMem \in [ModUnits -> ModMemories] /\ modMem[ModUnit] \in [Tables -> [0 .. ModRegs - 1 -> Int]]
      /\ modMem[ModUnit][t] \in [0 .. ModRegs - 1 -> Int] /\ DOMAIN modMem[ModUnit][t] = 0 .. ModRegs - 1
  BY ModAssumption DEF ModTyped, ModMemories
<1>4. modMem' = [modMem EXCEPT ![ModUnit] = [modMem[ModUnit] EXCEPT ![t] = row]]
  BY <1>3 DEF ServerInput
<1> HIDE DEF x
<1>5. row \in [0 .. ModRegs - 1 -> Int]
  BY <1>2, <1>3
<1> HIDE DEF row
<1>6. [modMem[ModUnit] EXCEPT ![t] = row] \in ModMemories
  BY <1>3, <1>5 DEF ModMemories
<1>7. modMem' \in [ModUnits -> ModMemories]
  BY <1>3, <1>4, <1>6
<1>8. ModTyped'
  BY <1>1, <1>7 DEF ModTyped
<1>9. HolderInv' /\ TimesInv'
  BY <1>1 DEF HolderInv, TimesInv, TimesServed, SelectUnit
<1>10. Routed' /\ MemInv' /\ ReadsInv'
  BY <1>1 DEF Routed, MemInv, ReadsInv
<1>11. QED
  BY <1>8, <1>9, <1>10

(* The parts of the invariant put together again. *)
LEMMA ModParts ==
  ASSUME modMem' \in [ModUnits -> ModMemories], modConn' \in ModConns, modJobs' \in Seq(ModRequestSet),
         modHist' \in Seq(ModServings), modHolder' \in Nat, HolderInv', TimesInv', HistoryInv'
  PROVE  ModInv'
BY DEF ModInv, ModTyped, ModConns, HistoryInv

(* A request that ends without being served in the same step. *)
LEMMA EndsUnserved ==
  ASSUME ModInv, NEW j \in DOMAIN modJobs, modHolder \in {0, j}, NEW outcome \in {"failed", "aborted"},
         Settle(j, outcome, 0), modConn' \in ModConns, UNCHANGED <<modMem, modHist, modDevice>>
  PROVE  ModInv'
<1>1. \A k : TimesServed(k)' = TimesServed(k)
  BY DEF TimesServed
<1>2. TimesServed(j)' <= 2
  BY <1>1 DEF ModInv, TimesInv
<1>3. outcome \in ModOutcomes \ {"waiting"} /\ outcome # "ok"
  BY DEF ModOutcomes
<1>4. /\ modJobs' \in Seq(ModRequestSet) /\ modHolder' \in Nat /\ TimesInv' /\ HolderInv'
      /\ DOMAIN modJobs' = DOMAIN modJobs /\ \A k \in DOMAIN modJobs : modJobs'[k].ask = modJobs[k].ask
  BY <1>1, <1>2, <1>3, SettleKeeps DEF ModInv
<1>5. HistoryInv'
  BY <1>4, HistoryStays DEF ModInv, HistoryInv
<1>6. QED
  BY <1>4, <1>5, ModParts DEF ModInv, ModTyped

(* A request that ends in the step that serves it. *)
LEMMA EndsServed ==
  ASSUME ModInv, NEW j \in DOMAIN modJobs, modHolder = j, NEW outcome \in ModOutcomes \ {"waiting"}, NEW got \in Int,
         Settle(j, outcome, got), modConn' \in ModConns, Reach(j, modConn.unit), UNCHANGED modDevice
  PROVE  ModInv'
<1>1. modConn.unit = SelectUnit(modJobs[j].ask.unit) /\ modConn.unit \in ModUnits
  BY ModFacts DEF ModInv, HolderInv
<1>2. modJobs \in Seq(ModRequestSet) /\ \A k \in DOMAIN modJobs : modJobs[k] \in ModRequestSet
  BY ModFacts DEF ModInv, ModTyped
<1>3. DOMAIN modJobs' = DOMAIN modJobs /\ \A k \in DOMAIN modJobs : modJobs'[k].ask = modJobs[k].ask
  <2>1. \A r \in ModRequestSet : [r EXCEPT !.outcome = outcome, !.got = got].ask = r.ask
    BY DEF ModRequestSet
  <2>2. modJobs' = [modJobs EXCEPT ![j] = [modJobs[j] EXCEPT !.outcome = outcome, !.got = got]]
    BY DEF Settle
  <2>3. QED
    BY <1>2, <2>1, <2>2
<1>4. /\ HistoryInv' /\ modMem' \in [ModUnits -> ModMemories] /\ modHist' \in Seq(ModServings)
      /\ Len(modHist') = Len(modHist) + 1 /\ modHist'[Len(modHist) + 1].job = j
      /\ \A i \in DOMAIN modHist : modHist'[i] = modHist[i]
  BY <1>1, <1>3, ReachKeeps DEF ModInv, HistoryInv
<1>5. /\ \A k : k # j => TimesServed(k)' = TimesServed(k)
      /\ TimesServed(j)' = TimesServed(j) + 1
      /\ TimesServed(j) \in Nat
  BY <1>4, TimesReached DEF ModInv
<1>6. TimesServed(j)' <= 2 /\ TimesServed(j)' >= 1
  BY <1>5 DEF ModInv, TimesInv
<1>7. modJobs' \in Seq(ModRequestSet) /\ modHolder' \in Nat /\ TimesInv' /\ HolderInv'
  BY <1>5, <1>6, SettleKeeps DEF ModInv
<1>8. QED
  BY <1>4, <1>7, ModParts

(* The holder goes on, and is not served in this step. *)
LEMMA GoesOn ==
  ASSUME ModInv, NEW j \in DOMAIN modJobs, modHolder' = j, modJobs[j].outcome = "waiting", UNCHANGED modJobs,
         modHolder \in {0, j}, modConn' \in ModConns, modConn'.unit = SelectUnit(modJobs[j].ask.unit),
         UNCHANGED <<modMem, modHist, modDevice>>,
         modAt' \in {"connect", "first"} => modHolder = 0 \/ modAt \in {"connect", "first"}
  PROVE  ModInv'
<1>1. \A k : TimesServed(k)' = TimesServed(k)
  BY DEF TimesServed
<1>2. HistoryInv'
  BY HistoryStays DEF ModInv, HistoryInv
<1>3. HolderInv'
  BY DEF HolderInv, SelectUnit
<1>4. DOMAIN modJobs = 1 .. Len(modJobs) /\ Len(modJobs) \in Nat /\ j # 0 /\ j \in Nat
  BY ModFacts DEF ModInv
<1>5. TimesServed(j) <= 1 /\ (modAt' \in {"connect", "first"} => TimesServed(j) = 0)
  BY <1>4 DEF ModInv, TimesInv
<1>6. TimesInv'
  <2> SUFFICES ASSUME NEW k \in DOMAIN modJobs
               PROVE  /\ TimesServed(k) <= 2
                      /\ modJobs[k].outcome = "ok" => TimesServed(k) >= 1
                      /\ modJobs[k].outcome = "waiting" /\ k # j => TimesServed(k) = 0
                      /\ k = j => TimesServed(k) <= 1
                      /\ k = j /\ modAt' \in {"connect", "first"} => TimesServed(k) = 0
    BY <1>1 DEF TimesInv
  <2>1. k # 0
    BY <1>4
  <2>2. QED
    BY <1>5, <2>1 DEF ModInv, TimesInv
<1>7. QED
  BY <1>2, <1>3, <1>4, <1>6, ModParts DEF ModInv, ModTyped

(* The first call was served and its answer lost. *)
LEMMA ServedAndLost ==
  ASSUME ModInv, NEW j \in DOMAIN modJobs, modHolder = j, modAt = "first", Reach(j, modConn.unit),
         modAt' = "reconnect", modConn' \in ModConns, modConn'.unit = modConn.unit,
         UNCHANGED <<modJobs, modHolder, modDevice>>
  PROVE  ModInv'
<1>0. DOMAIN modJobs = 1 .. Len(modJobs) /\ Len(modJobs) \in Nat /\ j # 0 /\ j \in Nat
  BY ModFacts DEF ModInv
<1>1. modConn.unit = SelectUnit(modJobs[j].ask.unit) /\ modConn.unit \in ModUnits
  BY <1>0, ModFacts DEF ModInv, HolderInv
<1>2. /\ HistoryInv' /\ modMem' \in [ModUnits -> ModMemories] /\ modHist' \in Seq(ModServings)
      /\ Len(modHist') = Len(modHist) + 1 /\ modHist'[Len(modHist) + 1].job = j
      /\ \A i \in DOMAIN modHist : modHist'[i] = modHist[i]
  BY <1>1, ReachKeeps DEF ModInv, HistoryInv
<1>3. /\ \A k : k # j => TimesServed(k)' = TimesServed(k)
      /\ TimesServed(j)' = TimesServed(j) + 1
  BY <1>2, TimesReached DEF ModInv
<1>4. TimesServed(j)' = 1 /\ modJobs[j].outcome = "waiting"
  BY <1>0, <1>3 DEF ModInv, TimesInv, HolderInv
<1>5. HolderInv'
  BY <1>1 DEF ModInv, HolderInv, SelectUnit
<1>6. TimesInv'
  <2> SUFFICES ASSUME NEW k \in DOMAIN modJobs
               PROVE  /\ TimesServed(k)' <= 2
                      /\ modJobs[k].outcome = "ok" => TimesServed(k)' >= 1
                      /\ modJobs[k].outcome = "waiting" /\ k # j => TimesServed(k)' = 0
                      /\ k = j => TimesServed(k)' <= 1
    BY DEF TimesInv
  <2>1. CASE k = j
    BY <1>4, <2>1
  <2>2. CASE k # j
    BY <1>3, <2>2 DEF ModInv, TimesInv
  <2>3. QED
    BY <2>1, <2>2
<1>7. QED
  BY <1>2, <1>5, <1>6, ModParts DEF ModInv, ModTyped

(* Every step of a request. *)
LEMMA ModStepKeeps ==
  ASSUME ModInv, NEW j \in DOMAIN modJobs, ModStep(j)
  PROVE  ModInv'
<1>0. /\ modConn \in ModConns /\ DOMAIN modJobs = 1 .. Len(modJobs) /\ Len(modJobs) \in Nat /\ j # 0
      /\ SelectUnit(modJobs[j].ask.unit) \in ModUnits /\ modConn.unit \in ModUnits
      /\ modJobs[j].ask \in ModJobKinds
  BY ModFacts DEF ModInv, ModTyped, ModConns
<1>1. modHolder = j => modJobs[j].outcome = "waiting" /\ modConn.unit = SelectUnit(modJobs[j].ask.unit)
  BY <1>0 DEF ModInv, HolderInv
<1>2. Connected \in ModConns /\ Connected.unit = modConn.unit /\ ApplyUnit \in ModConns /\ ApplyUnit.unit = modConn.unit
      /\ ApplyUnit.slave = modConn.unit
  BY <1>0 DEF Connected, ApplyUnit, ModConns
<1>3. ASSUME JobLocks(j) PROVE ModInv'
  <2> DEFINE c == [modConn EXCEPT !.unit = SelectUnit(modJobs[j].ask.unit)]
  <2>1. c \in ModConns /\ c.unit = SelectUnit(modJobs[j].ask.unit)
    BY <1>0 DEF ModConns
  <2>2. modConn' = c /\ modHolder = 0 /\ modJobs[j].outcome = "waiting" /\ UNCHANGED <<modMem, modHist, modDevice>>
    BY <1>3 DEF JobLocks
  <2> HIDE DEF c
  <2>3. CASE modHolder' = j /\ modAt' = "connect" /\ UNCHANGED modJobs
    BY <2>1, <2>2, <2>3, GoesOn
  <2>4. CASE Settle(j, "failed", 0)
    BY <2>1, <2>2, <2>4, EndsUnserved
  <2>5. QED
    BY <1>3, <2>3, <2>4 DEF JobLocks
<1>4. ASSUME EnsureConnected(j) PROVE ModInv'
  <2>1. modHolder = j /\ modAt = "connect" /\ UNCHANGED <<modMem, modHist, modDevice>>
    BY <1>4 DEF EnsureConnected
  <2>2. CASE modConn' \in {modConn, Connected} /\ modAt' = "first" /\ UNCHANGED <<modJobs, modHolder>>
    <3>1. modConn' \in ModConns /\ modConn'.unit = SelectUnit(modJobs[j].ask.unit)
      BY <1>0, <1>1, <1>2, <2>1, <2>2
    <3>2. QED
      BY <1>1, <2>1, <2>2, <3>1, GoesOn
  <2>3. CASE Settle(j, "failed", 0) /\ UNCHANGED modConn
    BY <1>0, <2>1, <2>3, EndsUnserved
  <2>4. QED
    BY <1>4, <2>2, <2>3 DEF EnsureConnected
<1>5. ASSUME CallAnswered(j) PROVE ModInv'
  <2> DEFINE got == modHist'[Len(modHist')].got
  <2>1. modHolder = j /\ modConn' = ApplyUnit /\ Reach(j, modConn.unit) /\ UNCHANGED modDevice
    BY <1>2, <1>5 DEF CallAnswered
  <2>2. Settle(j, "ok", got) \/ Settle(j, "failed", 0)
    BY <1>5 DEF CallAnswered
  <2>3. got \in Int
    <3> DEFINE job == modJobs[j].ask
               at == MemoryOf(modConn.unit)
               e == [job |-> j, at |-> at, got |-> IF job.write \/ ~Served(job) THEN 0 ELSE DecodedRead(job, ReadOf(modMem[at], job))]
    <3>1. modHist' = Append(modHist, e) /\ modHist \in Seq(ModServings) /\ modMem[at] \in ModMemories
      BY <1>0, <2>1, ModFacts DEF Reach, ModInv, ModTyped
    <3>2. e.got \in Int
      BY <1>0, <3>1, ReadTyped
    <3> HIDE DEF e
    <3>3. modHist'[Len(modHist')] = e
      BY <3>1
    <3>4. QED
      BY <3>2, <3>3
  <2> HIDE DEF got
  <2>4. {"ok", "failed"} \subseteq ModOutcomes \ {"waiting"}
    BY DEF ModOutcomes
  <2>5. QED
    BY <1>2, <2>1, <2>2, <2>3, <2>4, EndsServed
<1>6. ASSUME CallFails(j) PROVE ModInv'
  <2>1. modHolder = j /\ modAt \in {"first", "second"} /\ UNCHANGED modDevice
    BY <1>6 DEF CallFails
  <2>2. PICK served \in BOOLEAN :
          /\ IF served THEN Reach(j, modConn.unit) ELSE UNCHANGED <<modMem, modHist>>
          /\ IF modAt = "first"
             THEN /\ modAt' = "reconnect" /\ modConn' = [ApplyUnit EXCEPT !.up = FALSE, !.pending = FALSE]
                  /\ UNCHANGED <<modJobs, modHolder>>
             ELSE /\ modConn' = [ApplyUnit EXCEPT !.pending = served]
                  /\ Settle(j, "failed", 0)
    BY <1>6 DEF CallFails
  <2>3. /\ [ApplyUnit EXCEPT !.up = FALSE, !.pending = FALSE] \in ModConns
        /\ [ApplyUnit EXCEPT !.up = FALSE, !.pending = FALSE].unit = modConn.unit
        /\ [ApplyUnit EXCEPT !.pending = served] \in ModConns
    BY <1>2 DEF ModConns
  <2>4. "failed" \in ModOutcomes \ {"waiting"}
    BY DEF ModOutcomes
  <2>5. CASE modAt = "first" /\ served
    BY <2>1, <2>2, <2>3, <2>5, ServedAndLost
  <2>6. CASE modAt = "first" /\ ~served
    <3>1. modConn' \in ModConns /\ modConn'.unit = SelectUnit(modJobs[j].ask.unit)
      BY <1>1, <2>1, <2>2, <2>3, <2>6
    <3>2. QED
      BY <1>1, <2>1, <2>2, <2>6, <3>1, GoesOn
  <2>7. CASE modAt # "first" /\ served
    <3>1. Reach(j, modConn.unit) /\ modConn' \in ModConns /\ Settle(j, "failed", 0)
      BY <2>2, <2>3, <2>7
    <3>2. QED
      BY <2>1, <2>4, <3>1, EndsServed
  <2>8. CASE modAt # "first" /\ ~served
    BY <2>1, <2>2, <2>3, <2>8, EndsUnserved
  <2>9. QED
    BY <2>5, <2>6, <2>7, <2>8
<1>7. ASSUME TryReconnect(j) PROVE ModInv'
  <2>1. modHolder = j /\ UNCHANGED <<modMem, modHist, modDevice>>
    BY <1>7 DEF TryReconnect
  <2>2. CASE modConn' = Connected /\ modAt' = "second" /\ UNCHANGED <<modJobs, modHolder>>
    BY <1>1, <1>2, <2>1, <2>2, GoesOn
  <2>3. CASE Settle(j, "failed", 0) /\ UNCHANGED modConn
    BY <1>0, <2>1, <2>3, EndsUnserved
  <2>4. QED
    BY <1>7, <2>2, <2>3 DEF TryReconnect
<1>8. ASSUME PollAborted(j) PROVE ModInv'
  <2>1. modHolder = j /\ Settle(j, "aborted", 0) /\ UNCHANGED modDevice
    BY <1>8 DEF PollAborted
  <2>2. PICK sent \in BOOLEAN :
          /\ IF sent THEN Reach(j, modConn.unit) ELSE UNCHANGED <<modMem, modHist>>
          /\ modConn' = [modConn EXCEPT !.pending = @ \/ sent]
    BY <1>8 DEF PollAborted
  <2>3. modConn' \in ModConns
    BY <1>0, <2>2 DEF ModConns
  <2>4. "aborted" \in ModOutcomes \ {"waiting"}
    BY DEF ModOutcomes
  <2>5. CASE sent
    BY <2>1, <2>2, <2>3, <2>4, <2>5, EndsServed
  <2>6. CASE ~sent
    BY <2>1, <2>2, <2>3, <2>6, EndsUnserved
  <2>7. QED
    BY <2>5, <2>6
<1>9. QED
  BY <1>3, <1>4, <1>5, <1>6, <1>7, <1>8 DEF ModStep

(* A step of another component. *)
LEMMA ModStutters ==
  ASSUME ModInv, UNCHANGED modVars
  PROVE  ModInv'
<1>1. UNCHANGED <<modMem, modConn, modJobs, modHist, modHolder, modAt, modDevice>>
  BY DEF modVars
<1>2. HistoryInv'
  BY <1>1, HistoryStays DEF ModInv, HistoryInv
<1>3. HolderInv' /\ TimesInv'
  BY <1>1 DEF ModInv, HolderInv, TimesInv, TimesServed, SelectUnit
<1>4. QED
  BY <1>1, <1>2, <1>3 DEF ModInv, ModTyped, HistoryInv

(* The invariant says more than the property. *)
LEMMA ModInvFaithful == ModInv => ModbusFaithful
<1> SUFFICES ASSUME ModInv PROVE ModbusFaithful
  OBVIOUS
<1>1. \A i \in DOMAIN modHist :
        modHist[i].at = MemoryOf(IF modJobs[modHist[i].job].ask.unit = 0 THEN ModUnit ELSE modJobs[modHist[i].job].ask.unit)
  BY DEF ModInv, Routed, AskOf, SelectUnit
<1>2. \A j \in DOMAIN modJobs :
        LET times == Cardinality({i \in DOMAIN modHist : modHist[i].job = j}) IN
        times <= 2 /\ (modJobs[j].outcome = "ok" => times >= 1)
  BY DEF ModInv, TimesInv, TimesServed
<1>3. \A i, k \in DOMAIN modHist :
        (/\ i < k /\ AskOf(i).write /\ Served(AskOf(i)) /\ ~AskOf(k).write /\ Served(AskOf(k))
         /\ modHist[i].at = modHist[k].at /\ Format(AskOf(i)) = Format(AskOf(k))
         /\ (AskOf(i).type = "int64" => AskOf(i).value \in 0 .. Span("int64") \div 2 - 1)
         /\ ~\E n \in i + 1 .. k - 1 :
               AskOf(n).write /\ modHist[n].at = modHist[i].at /\ Cells(AskOf(n)) \cap Cells(AskOf(i)) # {})
        => modHist[k].got = Representable(AskOf(i))
  BY DEF ModInv, ReadsInv, Over, InReach
<1>4. QED
  BY <1>1, <1>2, <1>3 DEF ModbusFaithful, AskOf

(* Every request of a node that shares a modbus connection reaches the unit its node names, at
   most twice and at least once when it is reported as done, and a read gives the number the
   latest write of its registers put there (modbus_op!, select_unit, variant_to_words),
   whatever the units, the registers, the requests and the size of a word.  *)
THEOREM ModbusIsFaithful == ModSpec => []ModbusFaithful
<1>1. ModInit => ModInv
  BY ModInitial
<1>2. ModInv /\ [ModNext]_modVars => ModInv'
  <2> SUFFICES ASSUME ModInv, [ModNext]_modVars PROVE ModInv'
    OBVIOUS
  <2>1. ASSUME NEW ask \in ModJobKinds, JobComes(ask) PROVE ModInv'
    BY <2>1, JobComesKeeps
  <2>2. ASSUME NEW t \in Tables, NEW a \in {0, ModRegs}, NEW v \in {1, ModWord}, ServerInput(t, a, v) PROVE ModInv'
    <3>1. v \in Int
      BY ModAssumption
    <3>2. QED
      BY <2>2, <3>1, ServerInputKeeps
  <2>3. ASSUME NEW j \in DOMAIN modJobs, ModStep(j) PROVE ModInv'
    BY <2>3, ModStepKeeps
  <2>4. CASE UNCHANGED modVars
    BY <2>4, ModStutters
  <2>5. QED
    BY <2>1, <2>2, <2>3, <2>4 DEF ModNext
<1>3. QED
  BY <1>1, <1>2, ModInvFaithful, PTL DEF ModSpec

=============================================================================
