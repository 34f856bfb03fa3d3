--------------------------- MODULE ResourceSession --------------------------
(***************************************************************************)
(* The owner of one disposable resource: src/core/resource-session.ts.     *)
(* The playground keeps its engine in it.  load, run and clear exclude     *)
(* each other; close waits for the one in flight, disposes what is left    *)
(* and lets nothing start again.  Every await is a step of its own.        *)
(***************************************************************************)
CONSTANTS
  Resources,  \* what the factories may construct
  None        \* no resource

\* What the constants must be.
SessionConstants == None \notin Resources

VARIABLES
  resource,  \* this.resource
  made,      \* the resource a load has constructed and not yet installed
  op,        \* the pending operation, at the await where it stands
  using,     \* the resource an initialize or a run was given and has not finished with
  close,     \* close(): "open", "waiting" for the pending operation, "releasing", "closed"
  state      \* of each resource: "new", "live", "disposing", "disposed"

vars == <<resource, made, op, using, close, state>>

Ops == {"none", "load", "release", "factory", "initialize", "undo", "run", "running", "clear",
        "clearing"}

TypeOK ==
  /\ resource \in Resources \cup {None}
  /\ made \in Resources \cup {None}
  /\ op \in Ops
  /\ using \in Resources \cup {None}
  /\ close \in {"open", "waiting", "releasing", "closed"}
  /\ state \in [Resources -> {"new", "live", "disposing", "disposed"}]

Init ==
  /\ resource = None /\ made = None /\ using = None
  /\ op = "none"
  /\ close = "open"
  /\ state = [r \in Resources |-> "new"]

\* Mutant: a closed session is not busy.
BusyWhilePending == op # "none"

\* The getter busy.
Busy == op # "none" \/ close # "open"

\* exclusive(): refused while busy; the operation itself begins a turn later.
Start(name) ==
  /\ ~Busy
  /\ op' = name
  /\ UNCHANGED <<resource, made, using, close, state>>

\* release(): nothing to dispose, or dispose() is called and awaited at the place next.
Release(next, after) ==
  IF resource = None
  THEN op' = after /\ UNCHANGED state
  ELSE op' = next /\ state' = [state EXCEPT ![resource] = "disposing"]

-----------------------------------------------------------------------------
(* load                                                                     *)

LoadBegins ==
  /\ op = "load"
  /\ Release("release", "factory")
  /\ UNCHANGED <<resource, made, using, close>>

\* The old resource is disposed; when its dispose() rejects it stays in place.
LoadReleases ==
  /\ op = "release"
  /\ \/ /\ resource' = None /\ op' = "factory"
        /\ state' = [state EXCEPT ![resource] = "disposed"]
     \/ op' = "none" /\ UNCHANGED <<resource, state>>
  /\ UNCHANGED <<made, using, close>>

\* The factory resolves.  A session closed meanwhile disposes the resource unused.
Construct(r) ==
  /\ op = "factory" /\ state[r] = "new"
  /\ made' = r
  /\ IF close = "open"
     THEN /\ op' = "initialize" /\ using' = r
          /\ state' = [state EXCEPT ![r] = "live"]
     ELSE /\ op' = "undo" /\ UNCHANGED using
          /\ state' = [state EXCEPT ![r] = "disposing"]
  /\ UNCHANGED <<resource, close>>

FactoryFails ==
  /\ op = "factory"
  /\ op' = "none"
  /\ UNCHANGED <<resource, made, using, close, state>>

\* initialize resolves, and the page is still open.
Install ==
  /\ op = "initialize" /\ close = "open"
  /\ op' = "none" /\ resource' = made /\ made' = None /\ using' = None
  /\ UNCHANGED <<close, state>>

\* initialize rejects, or resolves after close() was called.
Undo ==
  /\ op = "initialize"
  /\ op' = "undo" /\ using' = None
  /\ state' = [state EXCEPT ![made] = "disposing"]
  /\ UNCHANGED <<resource, made, close>>

\* The catch has disposed what was constructed (or its dispose() rejected), and the load rejects.
Undone ==
  /\ op = "undo"
  /\ op' = "none" /\ made' = None
  /\ \E outcome \in {"disposing", "disposed"} : state' = [state EXCEPT ![made] = outcome]
  /\ UNCHANGED <<resource, using, close>>

-----------------------------------------------------------------------------
(* run and clear                                                            *)

RunBegins ==
  /\ op = "run"
  /\ IF resource = None THEN op' = "none" /\ UNCHANGED using
                        ELSE op' = "running" /\ using' = resource
  /\ UNCHANGED <<resource, made, close, state>>

RunEnds ==
  /\ op = "running"
  /\ op' = "none" /\ using' = None
  /\ UNCHANGED <<resource, made, close, state>>

ClearBegins ==
  /\ op = "clear"
  /\ Release("clearing", "none")
  /\ UNCHANGED <<resource, made, using, close>>

ClearEnds ==
  /\ op = "clearing"
  /\ op' = "none"
  /\ \/ resource' = None /\ state' = [state EXCEPT ![resource] = "disposed"]
     \/ UNCHANGED <<resource, state>>
  /\ UNCHANGED <<made, using, close>>

-----------------------------------------------------------------------------
(* close                                                                    *)

Close ==
  /\ close = "open"
  /\ close' = "waiting"
  /\ UNCHANGED <<resource, made, op, using, state>>

\* Mutant: close() does not wait for the pending operation.
CloseReleasesNow ==
  /\ close = "waiting"
  /\ close' = "releasing"
  /\ state' = IF resource = None THEN state ELSE [state EXCEPT ![resource] = "disposing"]
  /\ UNCHANGED <<resource, made, op, using>>

\* The pending operation has settled.
CloseReleases ==
  /\ close = "waiting" /\ op = "none"
  /\ close' = "releasing"
  /\ state' = IF resource = None THEN state ELSE [state EXCEPT ![resource] = "disposing"]
  /\ UNCHANGED <<resource, made, op, using>>

\* dispose() resolves, or rejects and leaves the resource in place.
Closed ==
  /\ close = "releasing"
  /\ close' = "closed"
  /\ \/ /\ resource' = None
        /\ state' = IF resource = None THEN state ELSE [state EXCEPT ![resource] = "disposed"]
     \/ resource # None /\ UNCHANGED <<resource, state>>
  /\ UNCHANGED <<made, op, using>>

Operation ==
  \/ LoadBegins \/ LoadReleases \/ FactoryFails \/ Install \/ Undo \/ Undone
  \/ RunBegins \/ RunEnds \/ ClearBegins \/ ClearEnds \/ CloseReleases \/ Closed
  \/ \E r \in Resources : Construct(r)

Next == Operation \/ Close \/ \E name \in {"load", "run", "clear"} : Start(name)

Spec == Init /\ [][Next]_vars

-----------------------------------------------------------------------------
\* When close() has resolved nothing is left alive and nothing is in flight; a resource whose
\* dispose() rejected has at least been told (resource-session.ts:44).
ClosedIsEmpty ==
  close = "closed" => op = "none" /\ using = None /\ \A r \in Resources : state[r] # "live"

\* dispose() is never called on a resource that a run or an initialize still uses, whichever of
\* load, clear and close calls it (the class comment: no overlapping operations).
DisposesUnused ==
  \A r \in Resources : state[r] = "live" /\ state'[r] = "disposing" => using' # r

NotDisposedInUse == [][DisposesUnused]_vars
=============================================================================
