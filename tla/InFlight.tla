------------------------------ MODULE InFlight ------------------------------
(***************************************************************************)
(* What the publish state engine promises for one direction: a bounded set *)
(* of publishes in flight, each going once through the handshake of its    *)
(* QoS, kept in the order in which their handshakes have to be repeated.   *)
(*                                                                         *)
(* There are no slots here, no holes and no compaction.  StateEngine       *)
(* implements this module twice: by the table of outgoing publishes and by *)
(* the table of incoming ones.                                             *)
(***************************************************************************)
EXTENDS Naturals, FiniteSets

CONSTANTS
  Ids,       \* the packet identifiers
  Capacity,  \* the number of publishes that may be in flight
  Absent,    \* the flight of an identifier that is not in flight
  Flights,   \* the [qos, state] records of the handshake
  Starts,    \* the flights a handshake may start in
  Steps,     \* the pairs of flights that are one step of the handshake
  Moves,     \* those of Steps that send the publish to the end of the order
  Ends,      \* the flights after which the handshake may be complete
  Abandons   \* whether the application can forget a publish in flight

VARIABLES
  flight,   \* flight[id]: how far the publish with identifier id has got
  before    \* the pairs <<a, b>> in flight with a ahead of b

vars == <<flight, before>>

Present == {id \in Ids : flight[id] # Absent}

\* The order in which id follows everything else in flight.
Behind(id) == (Present \ {id}) \X {id}

Without(id) == {p \in before : p[1] # id /\ p[2] # id}

Init ==
  /\ flight = [id \in Ids |-> Absent]
  /\ before = {}

\* A new publish takes its place at the end, if there is room for it.
Start(id) ==
  /\ id \notin Present
  /\ Cardinality(Present) < Capacity
  /\ \E f \in Starts : flight' = [flight EXCEPT ![id] = f]
  /\ before' = before \cup Behind(id)

\* One step of the handshake, in place.
Advance(id) ==
  /\ \E f \in Flights :
       /\ <<flight[id], f>> \in Steps \ Moves
       /\ flight' = [flight EXCEPT ![id] = f]
  /\ UNCHANGED before

\* One step of the handshake that puts the publish at the end.
Requeue(id) ==
  /\ \E f \in Flights :
       /\ <<flight[id], f>> \in Moves
       /\ flight' = [flight EXCEPT ![id] = f]
  /\ before' = Without(id) \cup Behind(id)

\* The last acknowledgement of the handshake.
Finish(id) ==
  /\ flight[id] \in Ends
  /\ flight' = [flight EXCEPT ![id] = Absent]
  /\ before' = Without(id)

\* The application forgets the publish, whatever it was waiting for.
Abandon(id) ==
  /\ Abandons
  /\ id \in Present
  /\ flight' = [flight EXCEPT ![id] = Absent]
  /\ before' = Without(id)

\* A new session starts with nothing in flight.
Reset ==
  /\ flight' = [id \in Ids |-> Absent]
  /\ before' = {}

\* An operation that is refused, or that only moves records to other slots.
Refuse == UNCHANGED vars

Next ==
  \/ Refuse
  \/ \E id \in Ids : \/ Start(id) \/ Advance(id) \/ Requeue(id)
                     \/ Finish(id) \/ Abandon(id)
  \/ Reset

Spec == Init /\ [][Next]_vars
=============================================================================
