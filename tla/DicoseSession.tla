---------------------------- MODULE DicoseSession ----------------------------
(***************************************************************************)
(* The DiCoSe stem splitter (src/packages/dicose): the page's client       *)
(* (api.ts), which numbers its requests and keeps their promises, and the  *)
(* worker (worker.ts), which handles them one after the other on one       *)
(* separator.  A request is its number; audio, stems and progress are left *)
(* out, and so is the worker's disposed flag, which guards it against      *)
(* requests this client does not make.                                     *)
(*                                                                         *)
(* A worker whose script cannot be loaded says so in one error event, the  *)
(* same as for an uncaught error, and never handles anything.              *)
(***************************************************************************)
EXTENDS Naturals, Sequences, FiniteSets

CONSTANTS
  Callers,     \* separatePcm() calls a page makes on one client
  MaxFaults    \* bound: operations that throw, messages that cannot be read, errors

VARIABLES
  caller,      \* where each call stands
  disposing,   \* where dispose() stands
  initialized, \* the request of the memoised initialize(), 0 before
  request,     \* the requests made: type, caller and how the promise stands
  terminated,  \* the client has terminated the worker
  script,      \* the worker's script: "loading", "running" or "failed"
  inbox,       \* requests posted to the worker, oldest first
  handling,    \* the request the worker handles, 0 if none
  separator,   \* the worker's separator
  events,      \* answers on their way to the page
  faults       \* what is left of MaxFaults

clientVars == <<caller, disposing, initialized, request, terminated>>
workerVars == <<script, inbox, handling, separator>>
vars == <<clientVars, workerVars, events, faults>>

Request ==
  [type : {"initialize", "separate", "dispose"}, promise : {"pending", "resolved", "rejected"}]

TypeOK ==
  /\ caller \in [Callers -> [at : {"new", "initializing", "separating", "done", "failed"},
                             id : Nat]]
  /\ disposing \in [at : {"no", "waiting", "done"}, id : Nat]
  /\ initialized \in 0..Len(request)
  /\ request \in Seq(Request)
  /\ terminated \in BOOLEAN
  /\ script \in {"loading", "running", "failed"}
  /\ inbox \in Seq(DOMAIN request)
  /\ handling \in 0..Len(request)
  /\ separator \in {"none", "ready", "released"}
  /\ events \in Seq([id : DOMAIN request, ok : BOOLEAN])
  /\ faults \in 0..MaxFaults

Init ==
  /\ caller = [c \in Callers |-> [at |-> "new", id |-> 0]]
  /\ disposing = [at |-> "no", id |-> 0]
  /\ initialized = 0
  /\ request = <<>>
  /\ terminated = FALSE
  /\ script \in {"loading", "running"}   \* by the time of the first call
  /\ inbox = <<>> /\ handling = 0 /\ separator = "none"
  /\ events = <<>>
  /\ faults = MaxFaults

Fault == faults > 0 /\ faults' = faults - 1

Alive == disposing.at = "no"

Promise(id) == request[id].promise

(***************************************************************************)
(* The client.                                                             *)
(***************************************************************************)
NewId == Len(request) + 1

Post(type) ==
  /\ request' = Append(request, [type |-> type, promise |-> "pending"])
  /\ inbox' = Append(inbox, NewId)

\* separatePcm, up to its first await: initialize() is asked for once.
Separate(c) ==
  /\ caller[c].at = "new" /\ Alive
  /\ IF initialized = 0
     THEN /\ Post("initialize") /\ initialized' = NewId
          /\ caller' = [caller EXCEPT ![c] = [at |-> "initializing", id |-> NewId]]
     ELSE /\ UNCHANGED <<request, inbox, initialized>>
          /\ caller' = [caller EXCEPT ![c] = [at |-> "initializing", id |-> initialized]]
  /\ UNCHANGED <<disposing, terminated, script, handling, separator, events, faults>>

\* initialize() resolved; the client may have been disposed of meanwhile.
Initialized(c) ==
  /\ caller[c].at = "initializing" /\ Promise(caller[c].id) = "resolved"
  /\ IF Alive
     THEN /\ Post("separate")
          /\ caller' = [caller EXCEPT ![c] = [at |-> "separating", id |-> NewId]]
     ELSE /\ UNCHANGED <<request, inbox>>
          /\ caller' = [caller EXCEPT ![c].at = "failed"]
  /\ UNCHANGED <<disposing, initialized, terminated, script, handling, separator, events, faults>>

Separated(c) ==
  /\ \/ /\ caller[c].at = "separating" /\ Promise(caller[c].id) = "resolved"
        /\ caller' = [caller EXCEPT ![c].at = "done"]
     \/ /\ caller[c].at \in {"initializing", "separating"}
        /\ Promise(caller[c].id) = "rejected"
        /\ caller' = [caller EXCEPT ![c].at = "failed"]
  /\ UNCHANGED <<disposing, initialized, request, terminated, workerVars, events, faults>>

\* dispose(): the request queues behind what the worker has.
Dispose ==
  /\ Alive
  /\ Post("dispose")
  /\ disposing' = [at |-> "waiting", id |-> NewId]
  /\ UNCHANGED <<caller, initialized, terminated, script, handling, separator, events, faults>>

RejectAll ==
  request' = [id \in DOMAIN request |->
                IF Promise(id) = "pending" THEN [request[id] EXCEPT !.promise = "rejected"]
                ELSE request[id]]

\* The finally of dispose(), whether the worker answered or not.
Disposed ==
  /\ disposing.at = "waiting" /\ Promise(disposing.id) # "pending"
  /\ disposing' = [disposing EXCEPT !.at = "done"]
  /\ terminated' = TRUE
  /\ RejectAll
  /\ inbox' = <<>> /\ handling' = 0 /\ events' = <<>>
  /\ UNCHANGED <<caller, initialized, script, separator, faults>>

\* handleMessage: the answer settles the promise of its number.
HandleMessage ==
  /\ events # <<>> /\ events' = Tail(events)
  /\ LET m == Head(events)
     IN  request' = IF Promise(m.id) = "pending"
                    THEN [request EXCEPT ![m.id].promise = IF m.ok THEN "resolved" ELSE "rejected"]
                    ELSE request
  /\ UNCHANGED <<caller, disposing, initialized, terminated, workerVars, faults>>

\* Mutant: an unreadable answer is dropped.
DropMessage ==
  /\ events # <<>> /\ Fault /\ events' = Tail(events)
  /\ UNCHANGED <<clientVars, workerVars>>

\* handleMessageError: nobody can say whose answer it was.
HandleMessageError ==
  /\ events # <<>> /\ Fault /\ events' = Tail(events)
  /\ RejectAll
  /\ UNCHANGED <<caller, disposing, initialized, terminated, workerVars>>

\* handleWorkerError: the worker keeps running over an uncaught error; one whose script does not load or
\* throws before it listens is never heard of again, but the page keeps it.
HandleWorkerError ==
  /\ ~terminated /\ Fault
  /\ \/ script = "running" /\ UNCHANGED script
     \/ script = "loading" /\ script' = "failed"
  /\ RejectAll
  /\ UNCHANGED <<caller, disposing, initialized, terminated, inbox, handling, separator, events>>

(***************************************************************************)
(* The worker.                                                             *)
(***************************************************************************)
\* The script has run and listens; what was posted before is delivered now.
Listen ==
  /\ script = "loading" /\ ~terminated
  /\ script' = "running"
  /\ UNCHANGED <<clientVars, inbox, handling, separator, events, faults>>

Handle ==
  /\ script = "running" /\ handling = 0 /\ inbox # <<>>
  /\ handling' = Head(inbox) /\ inbox' = Tail(inbox)
  /\ UNCHANGED <<clientVars, script, separator, events, faults>>

Answer(ok) == events' = Append(events, [id |-> handling, ok |-> ok]) /\ handling' = 0

Asked(types) == handling # 0 /\ request[handling].type \in types

\* initialize(): the separator is created on the first use that succeeds.
Create ==
  /\ Asked({"initialize", "separate"}) /\ separator = "none"
  /\ separator' = "ready"
  /\ IF request[handling].type = "initialize" THEN Answer(TRUE)
     ELSE UNCHANGED <<handling, events>>
  /\ UNCHANGED <<clientVars, script, inbox, faults>>

\* The separator is there: initialize() is done, a separation runs to its end.
Serve ==
  /\ Asked({"initialize", "separate"}) /\ separator = "ready"
  /\ Answer(TRUE)
  /\ UNCHANGED <<clientVars, script, inbox, separator, faults>>

\* Whatever throws in a handler is answered with an error.
HandlerThrows ==
  /\ handling # 0 /\ Fault
  /\ Answer(FALSE)
  /\ UNCHANGED <<clientVars, script, inbox, separator>>

Release ==
  /\ Asked({"dispose"})
  /\ separator' = IF separator = "ready" THEN "released" ELSE separator
  /\ Answer(TRUE)
  /\ UNCHANGED <<clientVars, script, inbox, faults>>

Client == (\E c \in Callers : Initialized(c) \/ Separated(c)) \/ Disposed \/ HandleMessage

Worker == Listen \/ Handle \/ Create \/ Serve \/ HandlerThrows \/ Release

Next ==
  \/ \E c \in Callers : Separate(c)
  \/ Dispose
  \/ Client
  \/ HandleMessageError
  \/ HandleWorkerError
  \/ Worker

\* The page's thread takes its turns; the worker's script runs or its failure is reported; a worker that
\* runs ends what it handles, and one that has failed is obliged to nothing.
Fairness ==
  /\ \A c \in Callers : WF_vars(Initialized(c) \/ Separated(c))
  /\ WF_vars(Disposed) /\ WF_vars(HandleMessage)
  /\ WF_vars(Worker)

Spec == Init /\ [][Next]_vars /\ Fairness

(***************************************************************************)
(* Properties.                                                             *)
(***************************************************************************)
\* Every call that was accepted before the worker is known to have failed ends, whatever is thrown, lost
\* or disposed of around it, the failure of the worker's script included, and dispose() ends with the worker
\* terminated and no promise of the client left open (api.ts: rejectAll, the memoised initialize()).
CallsSettle ==
  /\ \A c \in Callers :
       (caller[c].at = "initializing" /\ script # "failed") ~> caller[c].at \in {"done", "failed"}
  /\ (disposing.at = "waiting" /\ script # "failed") ~>
       (terminated /\ \A id \in DOMAIN request : Promise(id) # "pending")

\* dispose(): "Release the worker's GPU buffers and terminate its isolated thread" (api.ts 134).
DisposeTerminates == (disposing.at = "waiting") ~> terminated
==============================================================================
