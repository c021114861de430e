------------------------------- MODULE Spawns -------------------------------
(* The three ways of gox to serve a name with a goroutine: UniqSpawns,      *)
(* BatchSpawns and ListSpawns.  They do not interact: which says whose turn *)
(* this behavior is, and the others stand still.                            *)
EXTENDS UniqSpawns

CONSTANTS
  BatchItems, BatchFlushes, BatchCloses,  \* the calls of BatchSpawns
  BatchSize, ChanSize,                    \* its batches and its signal channel
  ListItems, ListCloses,                  \* the calls of ListSpawns
  ListSizes,                              \* the capacities its channel may have
  MayPanic                                \* Func may panic

VARIABLES
  which,
  ipc, spc, named, Datas, Chan, bwpc, flag, batch, handled, added, before, got, lastSent,
  lpc, lnamed, LSize, LChan, lwpc, data, lhandled, accepted, earlier

batchVars == <<ipc, spc, named, Datas, Chan, bwpc, flag, batch, handled, added, before, got, lastSent>>
listVars == <<lpc, lnamed, LSize, LChan, lwpc, data, lhandled, accepted, earlier>>
benchVars == <<which, vars, batchVars, listVars>>

Batch == INSTANCE BatchSpawns WITH
       Items <- BatchItems, Flushes <- BatchFlushes, Closes <- BatchCloses, wpc <- bwpc
List == INSTANCE ListSpawns WITH
       Items <- ListItems, Closes <- ListCloses, Sizes <- ListSizes, cpc <- lpc,
       named <- lnamed, Size <- LSize, Chan <- LChan, wpc <- lwpc, handled <- lhandled

\* A call is a BatchAdd, a Flush or a Close; batches and channels have a size.
ASSUME BatchAssumption ==
  /\ BatchItems \cap (BatchFlushes \cup BatchCloses) = {}
  /\ BatchFlushes \cap BatchCloses = {}
  /\ "tick" \notin BatchItems \cup BatchFlushes \cup BatchCloses
  /\ BatchSize \in Nat \ {0} /\ ChanSize \in Nat \ {0}
ASSUME ListAssumption ==
  /\ ListItems \cap ListCloses = {} /\ "none" \notin ListItems \cup ListCloses
  /\ ListSizes \subseteq Nat

BenchInit ==
  /\ which \in {"uniq", "batch", "list"}
  /\ Init /\ Batch!Init /\ List!Init
  /\ which # "list" => LSize = CHOOSE n \in ListSizes : TRUE

UniqDoes(step) == which = "uniq" /\ step /\ UNCHANGED <<which, batchVars, listVars>>
BatchDoes(step) == which = "batch" /\ step /\ UNCHANGED <<which, vars, listVars>>
ListDoes(step) == which = "list" /\ step /\ UNCHANGED <<which, vars, batchVars>>

BenchNext == UniqDoes(Next) \/ BatchDoes(Batch!Next) \/ ListDoes(List!Next)

\* The fairness of each, when it is its turn.
BenchSpec ==
  /\ BenchInit /\ [][BenchNext]_benchVars
  /\ WF_benchVars(UniqDoes(GoesOn))
  /\ WF_benchVars(BatchDoes(Batch!CallersGoOn)) /\ WF_benchVars(BatchDoes(Batch!WorkerGoesOn))
  /\ SF_benchVars(BatchDoes(Batch!Receive))
  /\ WF_benchVars(ListDoes(List!WorkerGoesOn)) /\ SF_benchVars(ListDoes(List!SendersGoOn))

\* BatchSpawns: no datum is lost, handed over twice or overtaken.
InOrderOnce == Batch!InOrderOnce
\* BatchSpawns: a Flush or Close covers what was appended before it.
FlushCovers == Batch!FlushCovers
\* BatchSpawns: what is appended is handed to Func, unless the goroutine ends.
AddedIsHandled == Batch!AddedIsHandled
\* BatchSpawns: a Close that no signal follows ends the goroutine.
LastCloseEnds == Batch!LastCloseEnds
\* ListSpawns: a Close cuts the data in the order they were accepted.
CloseIsACut == List!CloseIsACut
\* ListSpawns: what is sent is accepted and handed to Func, unless the goroutine ends.
SentIsHandled == List!SentIsHandled
=============================================================================
