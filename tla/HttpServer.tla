----------------------------- MODULE HttpServer -----------------------------
(* ginx.Server (rivetxcore/ginx/server.go): Listen makes the http.Server    *)
(* and serves; Stop shuts down the one it sees, for ten seconds; and        *)
(* HttpJsonResp answers a request: it reads the body, calls back, and turns *)
(* what the callback returned, set on the way or panicked with into JSON.   *)
(*                                                                          *)
(* net/http is modelled as it is used here: after Shutdown it accepts no    *)
(* request, ListenAndServe returns, and Shutdown returns when no request is *)
(* running or its context is done.                                          *)
EXTENDS Integers

CONSTANTS
    Requests,
    Stops,      \* calls of Stop
    Codes,      \* what a callback may set req.Code to
    None        \* no callback was called

VARIABLES
    lpc,        \* where Listen is
    httpServer, \* server.httpServer is set
    shut,       \* Shutdown was called on it
    spc,        \* where each Stop is
    rpc,        \* where each request is
    readBody,   \* HttpJsonResp's isReadBody
    done,       \* what the callback did
    reply       \* what was answered

vars == <<lpc, httpServer, shut, spc, rpc, readBody, done, reply>>

\* whether there was an error, and what the callback set req.Code to before it
\* returned or panicked
Outcomes == [failed : BOOLEAN, code : Codes]
NotCalled == [failed |-> TRUE, code |-> 0]

Init ==
    /\ lpc = "idle" /\ httpServer = FALSE /\ shut = FALSE
    /\ spc = [s \in Stops |-> "idle"]
    /\ rpc = [q \in Requests |-> "new"]
    /\ readBody \in [Requests -> BOOLEAN]
    /\ done = [q \in Requests |-> None]
    /\ reply = [q \in Requests |-> None]

-----------------------------------------------------------------------------
(* Listen and Stop *)

ListenMakes ==
    /\ lpc = "idle" /\ lpc' = "made"
    /\ httpServer' = TRUE
    /\ UNCHANGED <<shut, spc, rpc, readBody, done, reply>>

\* ListenAndServe, which may fail at once.
ListenServes ==
    /\ lpc = "made" /\ lpc' \in (IF shut THEN {"returned"} ELSE {"serving", "failed"})
    /\ UNCHANGED <<httpServer, shut, spc, rpc, readBody, done, reply>>

ListenReturns ==
    /\ lpc = "serving" /\ shut /\ lpc' = "returned"
    /\ UNCHANGED <<httpServer, shut, spc, rpc, readBody, done, reply>>

\* a mutant: Stop waits for the requests before it shuts the server down
StopWaitsFirst(s) ==
    /\ spc[s] = "idle"
    /\ spc' = [spc EXCEPT ![s] = IF httpServer THEN "waiting" ELSE "missed"]
    /\ UNCHANGED <<lpc, httpServer, shut, rpc, readBody, done, reply>>

\* Stop reads httpServer without a lock: it may not see what Listen has set.
StopLooks(s) ==
    /\ spc[s] = "idle"
    /\ \/ /\ httpServer /\ shut' = TRUE
          /\ spc' = [spc EXCEPT ![s] = "waiting"]
       \/ spc' = [spc EXCEPT ![s] = "missed"] /\ UNCHANGED shut
    /\ UNCHANGED <<lpc, httpServer, rpc, readBody, done, reply>>

Busy == \E q \in Requests : rpc[q] \in {"reading", "calling", "answering"}

\* Shutdown returns, in the end because ten seconds have passed.
StopReturns(s) ==
    /\ spc[s] = "waiting"
    /\ spc' = [spc EXCEPT ![s] = IF Busy THEN "timed out" ELSE "returned"]
    /\ UNCHANGED <<lpc, httpServer, shut, rpc, readBody, done, reply>>

-----------------------------------------------------------------------------
(* A request *)

Goto(q, from, to) == rpc[q] = from /\ rpc' = [rpc EXCEPT ![q] = to]

Accept(q) ==
    /\ lpc = "serving" /\ ~shut
    /\ Goto(q, "new", IF readBody[q] THEN "reading" ELSE "calling")
    /\ UNCHANGED <<lpc, httpServer, shut, spc, readBody, done, reply>>

\* The body is read, or is too long or breaks off: no callback is called.
ReadBody(q) ==
    /\ \/ Goto(q, "reading", "calling") /\ UNCHANGED done
       \/ Goto(q, "reading", "answering") /\ done' = [done EXCEPT ![q] = NotCalled]
    /\ UNCHANGED <<lpc, httpServer, shut, spc, readBody, reply>>

\* doFunc returns or panics; a panic leaves what it has set, and no data.
Callback(q) ==
    /\ Goto(q, "calling", "answering")
    /\ \E o \in Outcomes : done' = [done EXCEPT ![q] = o]
    /\ UNCHANGED <<lpc, httpServer, shut, spc, readBody, reply>>

\* a mutant: the code of a callback that failed is not looked at
CodeAsSet(o) == o.code

\* the code of the answer: what was set, or -1 for an error
Code(o) == IF o.failed /\ o.code = 0 THEN -1 ELSE o.code

\* FormatData panics, outside the recover, and gin.Recovery answers without
\* JSON; or what the callback returned, DataMsg or FormatData made of it can be
\* marshalled; or not, and an answer without data is written, or nothing if
\* that cannot be marshalled either.
Answer(q) ==
    /\ Goto(q, "answering", "written")
    /\ \E r \in {[code |-> -1, body |-> "recovered"], [code |-> Code(done[q]), body |-> "data"],
                 [code |-> -1, body |-> "no data"], [code |-> -1, body |-> "nothing"]} :
          reply' = [reply EXCEPT ![q] = r]
    /\ UNCHANGED <<lpc, httpServer, shut, spc, readBody, done>>

Request(q) == Accept(q) \/ ReadBody(q) \/ Callback(q) \/ Answer(q)

Next ==
    \/ ListenMakes \/ ListenServes \/ ListenReturns
    \/ \E s \in Stops : StopLooks(s) \/ StopReturns(s)
    \/ \E q \in Requests : Request(q)

Spec == Init /\ [][Next]_vars

-----------------------------------------------------------------------------
(* Properties *)

\* success (a code of no less than 0) is told only when the callback was called
\* and returned no error, or chose a positive code itself before it failed.
SuccessIsHonest ==
    \A q \in Requests :
        rpc[q] = "written" /\ reply[q].code >= 0 /\ done[q].failed => done[q].code > 0

\* A Stop that returned in time has seen the server: no request runs any more,
\* nor will one.
StopIsFinal ==
    [][\A s \in Stops : spc[s] = "returned" =>
        ~Busy' /\ (lpc' = "serving" => lpc = "serving")]_vars
=============================================================================
