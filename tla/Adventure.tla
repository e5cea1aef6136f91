------------------------------ MODULE Adventure ------------------------------
(***************************************************************************)
(* The adventure of os_common.hpp: two entities that take turns at one     *)
(* terminal.  run() prints what is at the location of the entity, reads a  *)
(* line and lets handle_input carry it out.  Every object is in the list   *)
(* of an entity or of a location, every entity in the list of a location   *)
(* and at the location it says itself.  A move is an add to one list and a *)
(* remove from another, and the add is refused when the list is full.      *)
(***************************************************************************)
EXTENDS Words

CONSTANTS Objects, Entities, Locations,  \* ids; 0 is the element at index 0
          object_name, entity_name,      \* as strings
          exits,                         \* links of a location: its list in order
          InitialEntities, InitialLocations,
          location_max_objects, location_max_entities, entity_max_objects,
          Lines                          \* what the players type

ASSUME AdventureAssumption ==
  /\ Entities = {1, 2} /\ Objects \subseteq Nat \ {0} /\ Locations \subseteq Nat \ {0}
  /\ {location_max_objects, location_max_entities, entity_max_objects} \subseteq Nat
  /\ exits \in [Locations -> Seq([link : 1 .. 4, location : Locations])]

\* the names of the source are words, no two objects or entities have the same,
\* and no location has two exits of a kind
is_word(name) == /\ name \in Seq(STRING) /\ name # <<>>
                 /\ \A i \in 1 .. Len(name) : name[i] # " "

ASSUME NamesAssumption ==
  /\ \A o \in Objects : /\ is_word(object_name[o])
                        /\ \A p \in Objects \ {o} : object_name[p] # object_name[o]
  /\ \A e \in Entities : /\ is_word(entity_name[e])
                         /\ \A f \in Entities \ {e} : entity_name[f] # entity_name[e]
  /\ \A l \in Locations : \A i \in DOMAIN exits[l] :
       \A j \in DOMAIN exits[l] \ {i} : exits[l][j].link # exits[l][i].link

VARIABLES entities, locations,  \* the tables
          active_entity,
          pc,                   \* where run() is: it prints or waits for a line
          told                  \* what print_location has shown

vars == <<entities, locations, active_entity, pc, told>>

-----------------------------------------------------------------------------
\* list.hpp: a list in an array of Size elements and a length.  Removing shifts
\* the rest of the list down; what was behind the new end stays in the array.
\* A position is an index of the array, or the length when nothing was found.

\* the arrays of Size elements of a set: what is listed is one of them
Lists(Elements, Size) ==
  {l \in [data : [0 .. Size - 1 -> Elements \cup {0}], len : 0 .. Size - 1] :
     \A i \in 0 .. l.len - 1 : l.data[i] # 0}

\* a list as it is initialised: the elements, zeros behind them
list_of(elems, Size, zero) ==
  [data |-> [i \in 0 .. Size - 1 |-> IF i < Len(elems) THEN elems[i + 1] ELSE zero],
   len  |-> Len(elems)]

is_at_end(l, pos) == pos = l.len

is_full(l, Size) == l.len = Size - 1

\* add, when it is not refused
add(l, elem) == [data |-> [l.data EXCEPT ![l.len] = elem], len |-> l.len + 1]

\* for_each_until_false: the first position with an element that is looked for
position(l, looked_for) ==
  CHOOSE i \in 0 .. l.len : /\ i < l.len => l.data[i] \in looked_for
                            /\ \A j \in 0 .. i - 1 : l.data[j] \notin looked_for

remove_at(l, pos) ==
  IF pos >= l.len THEN l
  ELSE [data |-> [i \in DOMAIN l.data |->
                    IF i \in pos .. l.len - 2 THEN l.data[i + 1] ELSE l.data[i]],
        len  |-> l.len - 1]

remove(l, elem) == remove_at(l, position(l, {elem}))

at(l, pos, zero) == IF pos >= l.len THEN zero ELSE l.data[pos]

\* mutant: the element behind the end is shown
elements_and_next(l) == {l.data[i] : i \in 0 .. l.len}

\* for_each: the elements, whose order is the layout of the output
elements(l) == {l.data[i] : i \in 0 .. l.len - 1}

-----------------------------------------------------------------------------
\* The tables.  A place of an object is an entity or a location.
EntityTables == [Entities -> [location : Locations,
                              objects  : Lists(Objects, entity_max_objects)]]
LocationTables == [Locations -> [objects  : Lists(Objects, location_max_objects),
                                 entities : Lists(Entities, location_max_entities)]]

Places == {<<"entity", e>> : e \in Entities} \cup {<<"location", l>> : l \in Locations}

list_in(ents, locs, p) == IF p[1] = "entity" THEN ents[p[2]].objects ELSE locs[p[2]].objects

\* the positions of an element in a list
occurrences(l, elem) == {i \in 0 .. l.len - 1 : l.data[i] = elem}

once(l, elem)   == \E i \in occurrences(l, elem) : occurrences(l, elem) = {i}
absent(l, elem) == occurrences(l, elem) = {}

objects_in_one_place(ents, locs) ==
  \A o \in Objects : \E p \in Places :
    /\ once(list_in(ents, locs, p), o)
    /\ \A q \in Places \ {p} : absent(list_in(ents, locs, q), o)

entities_where_they_say(ents, locs) ==
  \A e \in Entities : \A l \in Locations :
    IF ents[e].location = l THEN once(locs[l].entities, e) ELSE absent(locs[l].entities, e)

in_order(ents, locs) ==
  /\ ents \in EntityTables /\ locs \in LocationTables
  /\ objects_in_one_place(ents, locs) /\ entities_where_they_say(ents, locs)

\* as the tables of the source are at the start
ASSUME WorldAssumption == in_order(InitialEntities, InitialLocations)

-----------------------------------------------------------------------------
here(eid) == locations[entities[eid].location]

Nobody == [location |-> 0, objects |-> {}, entities |-> {}, links |-> <<>>]

Init == /\ entities = InitialEntities /\ locations = InitialLocations
        /\ active_entity = 1
        /\ pc = "print_location" /\ told = Nobody

-----------------------------------------------------------------------------
\* print_location: the objects, the others that are here and the exits
print_location(lid, eid_excluded_from_output) ==
  [location |-> lid,
   objects  |-> elements(locations[lid].objects),
   entities |-> elements(locations[lid].entities) \ {eid_excluded_from_output},
   links    |-> [i \in DOMAIN exits[lid] |-> exits[lid][i].link]]

Prompt == /\ pc = "print_location" /\ pc' = "input"
          /\ told' = print_location(entities[active_entity].location, active_entity)
          /\ UNCHANGED <<entities, locations, active_entity>>

-----------------------------------------------------------------------------
\* The commands.  One that is not understood, that names what is not there or
\* that meets a full list changes nothing.
nothing_moves == UNCHANGED <<entities, locations>>

object_position(l, args) ==
  position(l, {id \in Objects : string_equals_cstr(args, object_name[id])})

\* mutant: the object leaves the location although the entity cannot hold it
action_take_drops_object(eid, args) ==
  LET lso == here(eid).objects
      pos == object_position(lso, args)
  IN IF args = <<>> \/ is_at_end(lso, pos)
       THEN nothing_moves
       ELSE /\ entities' = IF is_full(entities[eid].objects, entity_max_objects)
                           THEN entities
                           ELSE [entities EXCEPT ![eid].objects = add(@, at(lso, pos, 0))]
            /\ locations' = [locations EXCEPT ![entities[eid].location].objects =
                                                remove_at(@, pos)]

\* mutant: the room of the list that is taken from is looked at
action_take_wrong_room(eid, args) ==
  LET lso == here(eid).objects
      pos == object_position(lso, args)
  IN IF \/ args = <<>> \/ is_at_end(lso, pos) \/ is_full(lso, location_max_objects)
       THEN nothing_moves
       ELSE /\ entities' = [entities EXCEPT ![eid].objects = add(@, at(lso, pos, 0))]
            /\ locations' = [locations EXCEPT ![entities[eid].location].objects =
                                                remove_at(@, pos)]

action_take(eid, args) ==
  LET lso == here(eid).objects
      pos == object_position(lso, args)
  IN IF \/ args = <<>> \/ is_at_end(lso, pos)
        \/ is_full(entities[eid].objects, entity_max_objects)
       THEN nothing_moves
       ELSE /\ entities' = [entities EXCEPT ![eid].objects = add(@, at(lso, pos, 0))]
            /\ locations' = [locations EXCEPT ![entities[eid].location].objects =
                                                remove_at(@, pos)]

action_drop(eid, args) ==
  LET lso == entities[eid].objects
      pos == object_position(lso, args)
  IN IF \/ args = <<>> \/ is_at_end(lso, pos)
        \/ is_full(here(eid).objects, location_max_objects)
       THEN nothing_moves
       ELSE /\ locations' = [locations EXCEPT ![entities[eid].location].objects =
                                                add(@, at(lso, pos, 0))]
            /\ entities' = [entities EXCEPT ![eid].objects = remove_at(@, pos)]

link_position(lid, link_id) ==
  CHOOSE i \in 1 .. Len(exits[lid]) + 1 :
    /\ i <= Len(exits[lid]) => exits[lid][i].link = link_id
    /\ \A j \in 1 .. i - 1 : exits[lid][j].link # link_id

\* mutant: the entity has moved when it is removed from the location it is at
action_go_removes_from_new(eid, link_id) ==
  LET from == entities[eid].location
      pos  == link_position(from, link_id)
      to   == exits[from][pos].location
  IN IF \/ pos > Len(exits[from])
        \/ is_full(locations[to].entities, location_max_entities)
       THEN nothing_moves
       ELSE /\ LET added == [locations EXCEPT ![to].entities = add(@, eid)]
               IN locations' = [added EXCEPT ![to].entities = remove(@, eid)]
            /\ entities' = [entities EXCEPT ![eid].location = to]

\* the add is first: an exit that leads back to the same location works too
action_go(eid, link_id) ==
  LET from == entities[eid].location
      pos  == link_position(from, link_id)
      to   == exits[from][pos].location
  IN IF \/ pos > Len(exits[from])
        \/ is_full(locations[to].entities, location_max_entities)
       THEN nothing_moves
       ELSE /\ LET added == [locations EXCEPT ![to].entities = add(@, eid)]
               IN locations' = [added EXCEPT ![from].entities = remove(@, eid)]
            /\ entities' = [entities EXCEPT ![eid].location = to]

\* mutant: the receiver need not be where the giver is
action_give_over_distance(eid, args) ==
  LET w1 == string_next_word(args)
      w2 == string_next_word(w1.rem)
      obj_pos == object_position(entities[eid].objects, w1.word)
      obj     == at(entities[eid].objects, obj_pos, 0)
  IN IF is_at_end(entities[eid].objects, obj_pos)
       THEN nothing_moves
       ELSE /\ \E to \in Entities :
                 /\ string_equals_cstr(w2.word, entity_name[to])
                 /\ ~is_full(entities[to].objects, entity_max_objects)
                 /\ LET added == [entities EXCEPT ![to].objects = add(@, obj)]
                    IN entities' = [added EXCEPT ![eid].objects = remove_at(@, obj_pos)]
            /\ UNCHANGED locations

\* an entity may give to itself
action_give(eid, args) ==
  LET w1 == string_next_word(args)
      w2 == string_next_word(w1.rem)
      lse     == here(eid).entities
      to_pos  == position(lse, {id \in Entities : string_equals_cstr(w2.word, entity_name[id])})
      to      == at(lse, to_pos, 0)
      obj_pos == object_position(entities[eid].objects, w1.word)
      obj     == at(entities[eid].objects, obj_pos, 0)
  IN IF \/ w1.word = <<>> \/ w2.word = <<>>
        \/ is_at_end(lse, to_pos) \/ is_at_end(entities[eid].objects, obj_pos)
        \/ is_full(entities[to].objects, entity_max_objects)
       THEN nothing_moves
       ELSE /\ LET added == [entities EXCEPT ![to].objects = add(@, obj)]
               IN entities' = [added EXCEPT ![eid].objects = remove_at(@, obj_pos)]
            /\ UNCHANGED locations

-----------------------------------------------------------------------------
go_command == <<<<"n">>, <<"e">>, <<"s">>, <<"w">>>>  \* by link id

\* handle_input: the other commands of the source do not touch the tables
handle_input(eid, line) ==
  LET w1  == string_next_word(line)
      Is(s) == string_equals_cstr(w1.word, s)
  IN \/ Is(<<"t">>) /\ action_take(eid, w1.rem)
     \/ Is(<<"d">>) /\ action_drop(eid, w1.rem)
     \/ Is(<<"g">>) /\ action_give(eid, w1.rem)
     \/ \E link_id \in 1 .. 4 : Is(go_command[link_id]) /\ action_go(eid, link_id)
     \/ /\ \A cmd \in {<<"t">>, <<"d">>, <<"g">>} \cup {go_command[i] : i \in 1 .. 4} : ~Is(cmd)
        /\ nothing_moves

Command(line) == /\ pc = "input" /\ pc' = "print_location"
                 /\ handle_input(active_entity, line)
                 /\ active_entity' = IF active_entity = 1 THEN 2 ELSE 1
                 /\ told' = Nobody

Next == Prompt \/ \E line \in Lines : Command(line)

Spec == Init /\ [][Next]_vars

-----------------------------------------------------------------------------
TypeOK == /\ entities \in EntityTables /\ locations \in LocationTables
          /\ active_entity \in Entities
          /\ pc \in {"print_location", "input"}

\* the place of an object: where its list is
place_in(ents, locs) ==
  [o \in Objects |-> CHOOSE p \in Places : ~absent(list_in(ents, locs, p), o)]

place == place_in(entities, locations)

W == INSTANCE Whereabouts WITH
       location   <- [e \in Entities |-> entities[e].location],
       turn       <- active_entity,
       reachable  <- [l \in Locations |-> {exits[l][i].location : i \in DOMAIN exits[l]}],
       EntityRoom <- entity_max_objects - 1, LocationRoom <- location_max_objects - 1,
       Crowd      <- location_max_entities - 1

\* The tables are well formed, no list longer than its array, and no object is
\* lost or doubled: it is in one list, once, and in no other, whatever adds were
\* refused and whatever was left behind in the arrays.
ObjectInOnePlace == TypeOK /\ objects_in_one_place(entities, locations)

\* An entity is listed once, at the location it says it is at and at no other.
EntityWhereItSays == entities_where_they_say(entities, locations)

\* What the player was told when the line is typed is how things are.
ToldAsItIs ==
  pc = "input" =>
    /\ told.location = entities[active_entity].location
    /\ told.objects = {o \in Objects : place[o] = <<"location", told.location>>}
    /\ told.entities = {e \in Entities \ {active_entity} : entities[e].location = told.location}

\* The tables move as Whereabouts allows: one thing at a time, by the entity whose
\* turn it is, from and to what is within its reach, and nowhere past the room.
MovesAreLegal == W!Spec

entity_has_room(e) == ~is_full(entities[e].objects, entity_max_objects)

\* the line that names what was shown does what it says
told_works ==
  pc = "input" =>
    /\ \A o \in told.objects :
         /\ entity_has_room(active_entity)
         /\ Command(<<"t", " ">> \o object_name[o])
         => place'[o] = <<"entity", active_entity>>
    /\ \A o \in Objects, e \in told.entities :
         /\ place[o] = <<"entity", active_entity>> /\ entity_has_room(e)
         /\ Command(<<"g", " ">> \o object_name[o] \o <<" ">> \o entity_name[e])
         => place'[o] = <<"entity", e>>
    /\ \A i \in DOMAIN told.links :
         LET to == exits[told.location][i].location
         IN /\ ~is_full(locations[to].entities, location_max_entities)
            /\ Command(go_command[told.links[i]])
            => entities'[active_entity].location = to

\* What the player was told can be used: what is shown can be taken, given to who
\* is shown and every exit gone through, unless the list it has to go to is full.
WhatIsToldWorks == [][told_works]_vars
=============================================================================
