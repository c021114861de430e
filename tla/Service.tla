------------------------------ MODULE Service -------------------------------
(* Service, ListenTcp and DoConnectTcp (rivetxcore/tcpx/tcp.go): listeners  *)
(* with their acceptor goroutines, the connections they accept and those    *)
(* that are dialled, and Service.Close, which waits for all that run on the *)
(* WaitGroup of the service.  ListenTcp leaves the context and WaitGroup of *)
(* its service in the Config it was given, where the connections that were  *)
(* accepted or dialled with that Config look for them, each when it gets    *)
(* there.  All listeners and connections here have one Config.              *)
(*                                                                          *)
(* What a connection does is ConnService's; here it starts, may end at any  *)
(* time, ends when the context it waits for is cancelled, and has returned  *)
(* from Run some time after that.                                           *)
EXTENDS Integers, FiniteSets

CONSTANTS
    Services,       \* the listeners
    Conns,          \* the connections
    Closers,        \* the goroutines that call Close, on every listener
    CallFuncPanics, \* callFunc may panic
    None            \* no service: the Config before any ListenTcp

ASSUME NoneIsNoService == None \notin Services
ASSUME ConnsAreFinite == IsFiniteSet(Conns)
ASSUME PanicsIsBoolean == CallFuncPanics \in BOOLEAN

VARIABLES
    config,     \* whose Ctx and WaitGroup the Config holds
    listen,     \* where each ListenTcp, then its acceptor goroutine, is, see TypeOK
    IsQuit,     \* services whose QuitFunc ran: IsQuit is set, Ctx cancelled
    open,       \* services whose listener is open
    WaitGroup,  \* the counter of each service's WaitGroup
    close,      \* where each call of Close is, see TypeOK
    conn,       \* where each connection is, see TypeOK
    added,      \* the group a connection was added to: its accepter's, or the Config's
    release,    \* the group it will be taken off again
    waitsFor,   \* whose context its Run waits for, besides its own
    dialled,    \* connections that were dialled
    late        \* history: those dialled on the group of a service that had quit

serviceVars == <<config, listen, IsQuit, open>>
groupVars == <<WaitGroup, close>>
connVars == <<conn, added, release, waitsFor, dialled, late>>
vars == <<serviceVars, groupVars, connVars>>

Init ==
    /\ config = None
    /\ listen = [s \in Services |-> "no"]
    /\ IsQuit = {} /\ open = {}
    /\ WaitGroup = [s \in Services |-> 0]
    /\ close = [s \in Services |-> [k \in Closers |-> "no"]]
    /\ conn = [c \in Conns |-> "no"]
    /\ added = [c \in Conns |-> None]
    /\ release = [c \in Conns |-> None]
    /\ waitsFor = [c \in Conns |-> None]
    /\ dialled = {} /\ late = {}

-----------------------------------------------------------------------------
(* sync.WaitGroup.  Add changes the counter, wakes all that wait when it    *)
(* has become zero, and panics when it has become negative.                 *)

\* no service stands for a WaitGroup that is nil
Count(s, n) ==
    IF s \in Services
    THEN /\ WaitGroup' = [WaitGroup EXCEPT ![s] = @ + n]
         /\ close' = IF WaitGroup[s] + n = 0
                     THEN [close EXCEPT ![s] = [k \in Closers |->
                              IF close[s][k] = "parked" THEN "woken" ELSE close[s][k]]]
                     ELSE close
    ELSE UNCHANGED groupVars

AddPanics(s) == s \in Services /\ WaitGroup[s] + 1 < 0

-----------------------------------------------------------------------------
(* The listener is open, and its context and WaitGroup are in the Config    *)
(* (stored one after the other; who reads the context in between might as   *)
(* well read it after).                                                     *)
ListenTcp(s) ==
    /\ listen[s] = "no"
    /\ config' = s
    /\ listen' = [listen EXCEPT ![s] = "given"]
    /\ open' = open \cup {s}
    /\ UNCHANGED <<IsQuit, groupVars, connVars>>

(* Add, and the acceptor starts.  Connections that took the group from the  *)
(* Config may have called Done on it before.  When Add panics the caller    *)
(* gets no Service to close.                                                *)
Listening(s) ==
    /\ listen[s] = "given"
    /\ listen' = [listen EXCEPT ![s] = IF AddPanics(s) THEN "failed" ELSE "accepting"]
    /\ Count(s, 1)
    /\ UNCHANGED <<config, IsQuit, open, connVars>>

(* Add(1) on the group of s comes before the goroutine of a connection.     *)
(* When it panics nobody has the connection.                                *)
Begun(c, s) ==
    /\ conn[c] = "no"
    /\ conn' = [conn EXCEPT ![c] = IF AddPanics(s) THEN "done" ELSE "spawned"]
    /\ added' = [added EXCEPT ![c] = s]
    /\ UNCHANGED <<release, waitsFor>>

\* a mutant: the goroutine itself is to call Add
AcceptUncounted(s, c) ==
    /\ listen[s] = "accepting" /\ s \in open
    /\ Begun(c, s)
    /\ UNCHANGED <<serviceVars, groupVars, dialled, late>>

(* Accept returns a connection.  The acceptor holds a count of its own; if  *)
(* Add panics it ends, and its Done changes the counter back.               *)
Accept(s, c) ==
    /\ listen[s] = "accepting" /\ s \in open
    /\ Begun(c, s)
    /\ IF AddPanics(s)
       THEN listen' = [listen EXCEPT ![s] = "ended"] /\ UNCHANGED groupVars
       ELSE Count(s, 1) /\ UNCHANGED listen
    /\ UNCHANGED <<config, IsQuit, open, dialled, late>>

(* Accept returns an error, because the listener was closed or any other.   *)
(* The acceptor goes on (and changes nothing) unless its service has quit.  *)
AcceptErr(s) ==
    /\ listen[s] = "accepting"
    /\ s \in IsQuit
    /\ listen' = [listen EXCEPT ![s] = "ended"]
    /\ Count(s, -1)
    /\ UNCHANGED <<config, IsQuit, open, connVars>>

\* DoConnectTcp has dialled, and reads the Config's WaitGroup for Add
Dial(c) ==
    /\ Begun(c, config)
    /\ dialled' = dialled \cup {c}
    /\ late' = IF config \in IsQuit THEN late \cup {c} ELSE late
    /\ Count(config, 1)
    /\ UNCHANGED serviceVars

(* Its goroutine, or in ConnectTcpSync its caller, reads the WaitGroup of   *)
(* the Config again, for Done.  An accepted connection has its listener's.  *)
Begin(c) ==
    /\ conn[c] = "spawned"
    /\ conn' = [conn EXCEPT ![c] = "begun"]
    /\ release' = [release EXCEPT ![c] = IF c \in dialled THEN config ELSE added[c]]
    /\ UNCHANGED <<serviceVars, groupVars, added, waitsFor, dialled, late>>

(* NewConnService and callFunc: without a Servicer Run skips to its end.    *)
CallFunc(c) ==
    /\ conn[c] = "begun"
    /\ \E to \in {"run", "ending"} : conn' = [conn EXCEPT ![c] = to]
    /\ UNCHANGED <<serviceVars, groupVars, added, release, waitsFor, dialled, late>>

\* nobody closes the connection of a callFunc that panicked
CallFuncPanic(c) ==
    /\ CallFuncPanics
    /\ conn[c] = "begun"
    /\ conn' = [conn EXCEPT ![c] = "done"]
    /\ Count(release[c], -1)
    /\ UNCHANGED <<serviceVars, added, release, waitsFor, dialled, late>>

\* Run has started its goroutines and looks for the context to wait for;
\* or the servicer's Init or Start has failed
Run(c) ==
    /\ conn[c] = "run"
    /\ \/ conn' = [conn EXCEPT ![c] = "waits"] /\ waitsFor' = [waitsFor EXCEPT ![c] = config]
       \/ conn' = [conn EXCEPT ![c] = "ending"] /\ UNCHANGED waitsFor
    /\ UNCHANGED <<serviceVars, groupVars, added, release, dialled, late>>

\* the connection has quit, or the service whose context it waits for
End(c) ==
    /\ conn[c] = "waits"
    /\ conn' = [conn EXCEPT ![c] = "ending"]
    /\ waitsFor' = [waitsFor EXCEPT ![c] = None]
    /\ UNCHANGED <<serviceVars, groupVars, added, release, dialled, late>>

\* Run has closed the connection and returns, and Done is called
Return(c) ==
    /\ conn[c] = "ending"
    /\ conn' = [conn EXCEPT ![c] = "done"]
    /\ Count(release[c], -1)
    /\ UNCHANGED <<serviceVars, added, release, waitsFor, dialled, late>>

-----------------------------------------------------------------------------
(* Close, by someone who has the Service from ListenTcp.                    *)
CloseStep(s, k, from, to) ==
    /\ close[s][k] = from
    /\ close' = [close EXCEPT ![s][k] = to]
    /\ UNCHANGED <<config, listen, WaitGroup, connVars>>

CallClose(s, k) ==
    /\ listen[s] \in {"accepting", "ended"}
    /\ CloseStep(s, k, "no", "quit")
    /\ UNCHANGED <<IsQuit, open>>

\* a mutant: QuitFunc is left out, the listener's error is to end the acceptor
QuitNothing(s, k) ==
    /\ CloseStep(s, k, "quit", "listener")
    /\ UNCHANGED <<IsQuit, open>>

\* QuitFunc, whose body runs once
QuitFunc(s, k) ==
    /\ CloseStep(s, k, "quit", "listener")
    /\ IsQuit' = IsQuit \cup {s}
    /\ UNCHANGED open

CloseListener(s, k) ==
    /\ CloseStep(s, k, "listener", "wait")
    /\ open' = open \ {s}
    /\ UNCHANGED IsQuit

Wait(s, k) ==
    /\ CloseStep(s, k, "wait", IF WaitGroup[s] = 0 THEN "back" ELSE "parked")
    /\ UNCHANGED <<IsQuit, open>>

\* Wait panics when it is woken and the counter is no longer zero
Woken(s, k) ==
    /\ CloseStep(s, k, "woken", IF WaitGroup[s] = 0 THEN "back" ELSE "panicked")
    /\ UNCHANGED <<IsQuit, open>>

CloseSteps(s, k) == QuitFunc(s, k) \/ CloseListener(s, k) \/ Wait(s, k) \/ Woken(s, k)

ConnSteps(c) == Begin(c) \/ CallFunc(c) \/ CallFuncPanic(c) \/ Run(c) \/ Return(c)

Next ==
    \/ \E s \in Services :
          \/ ListenTcp(s) \/ Listening(s) \/ AcceptErr(s)
          \/ \E c \in Conns : Accept(s, c)
          \/ \E k \in Closers : CallClose(s, k) \/ CloseSteps(s, k)
    \/ \E c \in Conns : ConnSteps(c) \/ End(c) \/ Dial(c)

Spec == Init /\ [][Next]_vars

(* Goroutines run; Accept fails once its listener is closed; a connection   *)
(* obeys the context it waits for and need not end without it.              *)
FairSpec ==
    /\ Spec
    /\ \A s \in Services :
          /\ WF_vars(Listening(s))
          /\ WF_vars(s \notin open /\ AcceptErr(s))
          /\ \A k \in Closers : WF_vars(CloseSteps(s, k))
    /\ \A c \in Conns : WF_vars(ConnSteps(c)) /\ WF_vars(waitsFor[c] \in IsQuit /\ End(c))

-----------------------------------------------------------------------------
Running(c) == conn[c] \in {"spawned", "begun", "run", "waits", "ending"}

\* those for which Add, and those for which Done was called on the group of s
Adds(s) == {c \in Conns : added[c] = s}
Dones(s) == {c \in Conns : conn[c] = "done" /\ release[c] = s}

\* connections that were added to s and run
Holders(s) == {c \in Adds(s) : Running(c)}

(* The connections that took s for their Done and another group, or none,   *)
(* for their Add: the Config was given to a ListenTcp in between.           *)
Stolen(s) == Dones(s) \ Adds(s)

\* an acceptor's own count
Acceptor(s) == IF listen[s] = "accepting" THEN 1 ELSE 0

\* its own Add may have panicked
AcceptorAdded(s) == IF listen[s] \in {"accepting", "failed"} THEN 1 ELSE 0

(* Types; and the counter of each WaitGroup is what was added to it less    *)
(* the Dones, whosoever called them.                                        *)
TypeOK ==
    /\ config \in Services \cup {None}
    /\ listen \in [Services -> {"no", "given", "accepting", "ended", "failed"}]
    /\ IsQuit \subseteq Services /\ open \subseteq Services
    /\ close \in [Services -> [Closers -> {"no", "quit", "listener", "wait", "parked", "woken",
                                           "back", "panicked"}]]
    /\ conn \in [Conns -> {"no", "spawned", "begun", "run", "waits", "ending", "done"}]
    /\ {added, release, waitsFor} \subseteq [Conns -> Services \cup {None}]
    /\ dialled \subseteq Conns /\ late \subseteq Conns
    /\ WaitGroup \in [Services -> Int]
    /\ \A s \in Services :
          WaitGroup[s] = AcceptorAdded(s) + Cardinality(Adds(s)) - Cardinality(Dones(s))

(* What a Close of s has to wait for: connections that it accepted, also    *)
(* while Close was under way, and that were dialled before the service quit.*)
OnTime(s) == Holders(s) \ late

(* A Close that returns has waited for the acceptor and for every           *)
(* connection it has to wait for, but for as many as had their count taken  *)
(* away by a Done of a connection that was added to another group.  While   *)
(* no Config changes between two reads nothing is left, in any order of     *)
(* Accept, Add, Close and Wait.                                             *)
CloseIsFinal ==
    \A s \in Services, k \in Closers :
        close[s][k] = "back" => Cardinality(OnTime(s)) + Acceptor(s) <= Cardinality(Stolen(s))

\* a connection's Add or its Done, but not both, is on the group of s
Crossed(s) == \E c \in Conns :
    /\ conn[c] \notin {"no", "spawned"}
    /\ added[c] # release[c] /\ s \in {added[c], release[c]}

DialledLate(s) == \E c \in late : added[c] = s

(* If every listener is closed in the end, every Close returns: the         *)
(* acceptor sees its listener closed, and the connections the context they  *)
(* wait for cancelled, also one that was accepted after it was or that      *)
(* found it cancelled before it waited, and also one that waits for the     *)
(* context of another listener.  Two things hinder it, and no others: the   *)
(* Config changed between the two reads of a connection, so that the counter*)
(* is off by one for good; or a connection was dialled on the group after   *)
(* the service had quit, and raised the counter between the wake-up of Wait *)
(* and its last look.                                                       *)
CloseReturns ==
    <>[](\A s \in Services : listen[s] # "no" => \E k \in Closers : close[s][k] # "no") =>
        \A s \in Services, k \in Closers :
            close[s][k] = "quit" ~>
                \/ close[s][k] = "back"
                \/ Crossed(s)
                \/ close[s][k] = "panicked" /\ DialledLate(s)
=============================================================================
