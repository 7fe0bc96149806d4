--------------------------- MODULE HashClassifier ---------------------------
(***************************************************************************)
(* HashClassifierCallback: the callback that hands each event to the data  *)
(* handler registered for its identifier or, failing that, to the control  *)
(* handler registered for a prefix of it.                                  *)
(*                                                                         *)
(* The library's worker thread runs eventReceived; application threads,    *)
(* and the handlers themselves, register and unregister.  Each registry    *)
(* has a lock (synchronized), and a handler runs inside the lock of the    *)
(* registry it was found in; between the two registries the worker holds   *)
(* none.  The locks are reentrant: a handler may change the registries.    *)
(***************************************************************************)
EXTENDS LPMTree

CONSTANTS
  DataHandlers,   \* BAPushDataEventHandlers; Values are the BAPushControlEventHandlers
  Rids,           \* identifiers, as sequences of chunks
  DataKey         \* DataKey[rid]: Arrays.hashCode of the whole identifier

ASSUME DataHandlersAssumption == NoValue \notin DataHandlers
ASSUME DataKeyAssumption == DOMAIN DataKey = Rids
ASSUME RidsAssumption == \A rid \in Rids : rid \in Seq({rid[i] : i \in DOMAIN rid})

ControlHandlers == Values
Handlers == DataHandlers \union ControlHandlers
Keys == {DataKey[rid] : rid \in Rids}

\* BAEventType, or null for a code that is none of them.
DataType == "PUBLISHED_DATA"
ControlType == "SCOPE_PUBLISHED"
UnknownType == "null"
EventTypes == {DataType, ControlType, UnknownType}

NoEvent == [type |-> UnknownType, rid |-> Root]

VARIABLES
  dataHandlerMap,          \* by key; NoValue where there is no entry
  controlEventHandlerLPM,
  worker_pc,               \* "idle", "data", "data_handler", "control", "control_handler"
  event,                   \* the event being dispatched
  handler,                 \* the handler that runs
  registered,              \* what the calls so far have registered as control handlers (history)
  stable,                  \* the registries that have matched the event ever since it came (history)
  self_changed             \* has the running handler changed a registry? (history)

registries == <<dataHandlerMap, controlEventHandlerLPM, registered>>
dispatch == <<worker_pc, event, handler>>
vars == <<registries, dispatch, stable, self_changed>>

Init ==
  /\ dataHandlerMap = [key \in Keys |-> NoValue]
  /\ controlEventHandlerLPM = EmptyTree
  /\ worker_pc = "idle"
  /\ event = NoEvent
  /\ handler = NoValue
  /\ registered = [rid \in Rids |-> NoValue]
  /\ stable = {}
  /\ self_changed = FALSE

\* Which registries would take the event?
Matching(e, dataMap, tree) ==
  {r \in {"data", "control"} :
    IF r = "data"
    THEN e.type = DataType /\ dataMap[DataKey[e.rid]] /= NoValue
    ELSE SearchPrefix(tree, e.rid) /= NoValue}

(***************************************************************************)
(* Registration, by an application thread or by the running handler        *)
(***************************************************************************)

Callers == {"application", "worker"}

\* Fault: handlers run outside the locks.
MayTakeAlways(lock, caller) == caller = "worker" => worker_pc \in {"data_handler", "control_handler"}

\* Can the caller take the lock of this registry?
MayTake(lock, caller) ==
  IF caller = "worker"
  THEN worker_pc \in {"data_handler", "control_handler"}
  ELSE worker_pc /= (IF lock = "data" THEN "data_handler" ELSE "control_handler")

\* The bookkeeping of the history variables, the same for every change.
Changed(caller) ==
  /\ stable' = stable \intersect Matching(event, dataHandlerMap', controlEventHandlerLPM')
  /\ self_changed' = (self_changed \/ caller = "worker")
  /\ UNCHANGED dispatch

RegisterDataEventHandler(caller, rid, h) ==
  /\ MayTake("data", caller)
  /\ dataHandlerMap' = [dataHandlerMap EXCEPT ![DataKey[rid]] = h]
  /\ UNCHANGED <<controlEventHandlerLPM, registered>>
  /\ Changed(caller)

UnregisterDataEventHandler(caller, rid) ==
  /\ MayTake("data", caller)
  /\ dataHandlerMap' = [dataHandlerMap EXCEPT ![DataKey[rid]] = NoValue]
  /\ UNCHANGED <<controlEventHandlerLPM, registered>>
  /\ Changed(caller)

RegisterControlEventHandler(caller, rid, h) ==
  /\ MayTake("control", caller)
  /\ controlEventHandlerLPM' = Add(controlEventHandlerLPM, rid, h)
  /\ registered' = [registered EXCEPT ![rid] = h]
  /\ UNCHANGED dataHandlerMap
  /\ Changed(caller)

UnregisterControlEventHandler(caller, rid) ==
  /\ MayTake("control", caller)
  /\ controlEventHandlerLPM' = Delete(controlEventHandlerLPM, rid)
  /\ registered' = [registered EXCEPT ![rid] = NoValue]
  /\ UNCHANGED dataHandlerMap
  /\ Changed(caller)

(***************************************************************************)
(* eventReceived, by the worker thread                                     *)
(***************************************************************************)

\* The event is the worker's local variable.
GoTo(stage, h) ==
  /\ worker_pc' = stage
  /\ handler' = h
  /\ event' = IF stage = "idle" THEN NoEvent ELSE event
  /\ stable' = IF stage = "idle" THEN {} ELSE stable
  /\ self_changed' = FALSE
  /\ UNCHANGED registries

EventReceived(e) ==
  /\ worker_pc = "idle"
  /\ event' = e
  /\ worker_pc' = IF e.type = DataType THEN "data" ELSE "control"
  /\ stable' = Matching(e, dataHandlerMap, controlEventHandlerLPM)
  /\ UNCHANGED <<registries, handler, self_changed>>

\* Fault: checkControlQueue stays false for published data.
LookupDataOnly ==
  /\ worker_pc = "data"
  /\ LET h == dataHandlerMap[DataKey[event.rid]]
     IN GoTo(IF h = NoValue THEN "idle" ELSE "data_handler", h)

\* Fault: containsKey (line 34) is not asked.
LookupDataUnchecked ==
  /\ worker_pc = "data"
  /\ GoTo("data_handler", dataHandlerMap[DataKey[event.rid]])

\* With the data registry locked: the handler of the identifier runs, or the
\* control registry is asked next.
LookupData ==
  /\ worker_pc = "data"
  /\ LET h == dataHandlerMap[DataKey[event.rid]]
     IN GoTo(IF h = NoValue THEN "control" ELSE "data_handler", h)

\* With the control registry locked: the handler found runs; without one the
\* event is dropped; an unknown type makes the switch throw.
LookupControl ==
  /\ worker_pc = "control"
  /\ LET h == SearchPrefix(controlEventHandlerLPM, event.rid)
     IN IF h = NoValue \/ event.type = UnknownType
        THEN GoTo("idle", NoValue)
        ELSE GoTo("control_handler", h)

HandlerReturns ==
  /\ worker_pc \in {"data_handler", "control_handler"}
  /\ GoTo("idle", NoValue)

Next ==
  \/ \E caller \in Callers, rid \in Rids, h \in DataHandlers :
       RegisterDataEventHandler(caller, rid, h)
  \/ \E caller \in Callers, rid \in Rids : UnregisterDataEventHandler(caller, rid)
  \/ \E caller \in Callers, rid \in Rids, h \in ControlHandlers :
       RegisterControlEventHandler(caller, rid, h)
  \/ \E caller \in Callers, rid \in Rids : UnregisterControlEventHandler(caller, rid)
  \/ \E type \in EventTypes, rid \in Rids : EventReceived([type |-> type, rid |-> rid])
  \/ LookupData
  \/ LookupControl
  \/ HandlerReturns

Spec == Init /\ [][Next]_vars

(***************************************************************************)
(* Properties                                                              *)
(***************************************************************************)

\* The values the variables range over; a handler is at hand exactly while one
\* runs.
TypeOK ==
  /\ dataHandlerMap \in [Keys -> DataHandlers \union {NoValue}]
  /\ Root \in DOMAIN controlEventHandlerLPM
  /\ \A node \in DOMAIN controlEventHandlerLPM :
       controlEventHandlerLPM[node] \in ControlHandlers \union {NoValue}
  /\ worker_pc \in {"idle", "data", "data_handler", "control", "control_handler"}
  /\ event \in [type : EventTypes, rid : Rids \union {Root}]
  /\ handler \in Handlers \union {NoValue}
  /\ handler /= NoValue <=> worker_pc \in {"data_handler", "control_handler"}
  /\ registered \in [Rids -> ControlHandlers \union {NoValue}]
  /\ stable \subseteq {"data", "control"}
  /\ self_changed \in BOOLEAN

\* The tree holds what the calls of add and delete have left registered, no
\* matter in which order identifiers were added above, below and beside each
\* other: deleting one prunes no other (LPMTree.java:73-90).
TreeHoldsTheRegistered ==
  /\ \A rid \in Rids : registered[rid] /= NoValue =>
       rid \in DOMAIN controlEventHandlerLPM /\ controlEventHandlerLPM[rid] = registered[rid]
  /\ \A node \in DOMAIN controlEventHandlerLPM : controlEventHandlerLPM[node] /= NoValue =>
       node \in Rids /\ registered[node] /= NoValue

\* delete leaves no dead branch behind (LPMTree.java:213, "a node is valid
\* if..."): every node but the root leads to a registered identifier, so
\* a program that registers and unregisters for ever does not grow the tree.
TreeHasNoDeadBranch ==
  \A node \in DOMAIN controlEventHandlerLPM \ {Root} :
    \E rid \in Rids : registered[rid] /= NoValue /\ node \in Prefixes(rid)

\* The registered identifiers that are prefixes of rid, by their length.
RegisteredPrefixLengths(rid) ==
  {n \in 0..Len(rid) : SubSeq(rid, 1, n) \in Rids /\ registered[SubSeq(rid, 1, n)] /= NoValue}

\* What searchPrefix answers, in terms of the registered identifiers alone: the
\* handler of the longest registered prefix, or nothing; and nothing, although
\* there is a registered prefix, only when some registered identifier shares
\* more chunks with rid than that prefix and so leads the walk astray.
SearchFindsTheLongestPrefix ==
  \A rid \in Rids :
    LET found == SearchPrefix(controlEventHandlerLPM, rid)
        lengths == RegisteredPrefixLengths(rid)
    IN IF found /= NoValue
       THEN lengths /= {} /\ found = registered[SubSeq(rid, 1, Max(lengths))]
       ELSE \A n \in lengths : \E other \in Rids :
              /\ registered[other] /= NoValue
              /\ n < Len(rid)
              /\ SubSeq(rid, 1, n + 1) \in Prefixes(other)

\* A handler that runs is the one registered at that moment for the event,
\* unless it has changed the registries itself: so when an application thread's
\* unregister call returns, the handler neither runs nor is called any more.
RunningHandlerIsRegistered ==
  /\ worker_pc = "data_handler" /\ ~self_changed => dataHandlerMap[DataKey[event.rid]] = handler
  /\ worker_pc = "control_handler" /\ ~self_changed =>
       SearchPrefix(controlEventHandlerLPM, event.rid) = handler

\* No event is lost, and no published data goes to a control handler, while the
\* registry that should take it matches from the arrival of the event to the
\* end: the gap between the two locks only loses an event whose handler is
\* moved from one registry to the other meanwhile.
StableHandlerGetsTheEvent ==
  [][ /\ worker_pc = "control" => "data" \notin stable
      /\ worker_pc \in {"data", "control"} /\ worker_pc' = "idle" =>
           stable = {} \/ event.type = UnknownType ]_vars
=============================================================================
