----------------------------- MODULE Whereabouts -----------------------------
(***************************************************************************)
(* What the adventure promises: every object is in one place, every entity *)
(* at one location.  In its turn an entity moves one object that is within *)
(* its reach, or itself through an exit, to a place that has room, or it   *)
(* moves nothing.  A place is an entity or a location.                     *)
(***************************************************************************)
EXTENDS Integers, FiniteSets

CONSTANTS Objects, Entities, Locations,
          reachable,  \* the locations the exits of a location lead to
          EntityRoom, LocationRoom,   \* for objects
          Crowd                       \* entities at a location

VARIABLES place,     \* of an object: <<"entity", id>> or <<"location", id>>
          location,  \* of an entity
          turn

vars == <<place, location, turn>>

entity_at(e)   == <<"entity", e>>
location_at(l) == <<"location", l>>
Places == {entity_at(e) : e \in Entities} \cup {location_at(l) : l \in Locations}

TypeOK == /\ place \in [Objects -> Places]
          /\ location \in [Entities -> Locations]
          /\ turn \in Entities

\* the room of a place, which what is moved within it needs as well
has_room(p) == Cardinality({o \in Objects : place[o] = p})
               < IF p[1] = "entity" THEN EntityRoom ELSE LocationRoom

Move(from, to) == /\ has_room(to)
                  /\ \E o \in Objects : place[o] = from /\ place' = [place EXCEPT ![o] = to]
                  /\ UNCHANGED location

Take == Move(location_at(location[turn]), entity_at(turn))
Drop == Move(entity_at(turn), location_at(location[turn]))
Give == \E e \in Entities : /\ location[e] = location[turn]
                            /\ Move(entity_at(turn), entity_at(e))
Go   == \E l \in reachable[location[turn]] :
          /\ Cardinality({e \in Entities : location[e] = l}) < Crowd
          /\ location' = [location EXCEPT ![turn] = l]
          /\ UNCHANGED place
Stay == UNCHANGED <<place, location>>

Next == /\ Take \/ Drop \/ Give \/ Go \/ Stay
        /\ \E e \in Entities \ {turn} : turn' = e

Spec == TypeOK /\ [][Next]_vars
=============================================================================
