----------------------------- MODULE EventDispatcher -----------------------------
(***************************************************************************)
(* packages/domain/src/events/event-dispatcher.ts: the handlers of one     *)
(* event type and the steps dispatch takes through them.                   *)
(*                                                                         *)
(* dispatch iterates over the live JavaScript Set and awaits each handler, *)
(* so that handlers come and go while it runs.  A Set keeps its entries in *)
(* the order they were added; one that is deleted leaves a hole, one added *)
(* again is a new entry at the end, and an iterator is a position.         *)
(***************************************************************************)
EXTENDS Naturals, Sequences, FiniteSets

CONSTANTS Handlers,         \* the functions that may be subscribed
          MaxSubscriptions  \* bound on the entries ever added

VARIABLES entries,    \* the Set's entries: [handler, live], in order
          eventLog,   \* the events dispatched since the process started
          delivered   \* delivered[h]: the events handler h was called with

dispatcher == <<entries, eventLog, delivered>>

ASSUME DispatcherAssumption == MaxSubscriptions \in Nat

DispatcherInit == /\ entries = << >>
                  /\ eventLog = << >>
                  /\ delivered = [h \in Handlers |-> << >>]

liveEntries == { i \in DOMAIN entries : entries[i].live }

(* Slip: a handler takes the first hole an earlier one has left.           *)
subscribeInHole(h) ==
  /\ \A i \in liveEntries : entries[i].handler # h
  /\ Len(entries) < MaxSubscriptions
  /\ LET holes == DOMAIN entries \ liveEntries
         new   == [handler |-> h, live |-> TRUE]
     IN  \/ /\ holes = {}
            /\ entries' = Append(entries, new)
         \/ \E i \in holes : /\ \A j \in holes : i <= j
                             /\ entries' = [entries EXCEPT ![i] = new]
  /\ UNCHANGED <<eventLog, delivered>>

(* Adding a handler that is there already changes nothing.                 *)
subscribe(h) ==
  /\ \A i \in liveEntries : entries[i].handler # h
  /\ Len(entries) < MaxSubscriptions
  /\ entries' = Append(entries, [handler |-> h, live |-> TRUE])
  /\ UNCHANGED <<eventLog, delivered>>

unsubscribe(h) ==
  /\ \E i \in liveEntries :
       /\ entries[i].handler = h
       /\ entries' = [entries EXCEPT ![i] = [handler |-> h, live |-> FALSE]]
  /\ UNCHANGED <<eventLog, delivered>>

(* Slip: the handler at the iterator's position is called again.           *)
aheadOrHere(position) == { i \in liveEntries : i >= position }

(* What an iterator at this position has still to visit.                   *)
ahead(position) == { i \in liveEntries : i > position }

(* The event is given to the handler of entry i.                           *)
call(i, event) ==
  delivered' = [delivered EXCEPT ![entries[i].handler] = Append(@, event)]
===================================================================================
