----------------------------- MODULE MCAdventure -----------------------------
(***************************************************************************)
(* Adventure in the world of os_common.hpp, with lists that can fill and   *)
(* shortened names, and an exit more that leads back to where it begins:   *)
(* with both entities there it is the way to a full list of entities.      *)
(***************************************************************************)
EXTENDS Adventure

MCObjects   == {1, 2, 3}
MCEntities  == {1, 2}
MCLocations == {1, 2, 3, 4}

\* notebook, mirror, lighter; one name is the beginning of another
object_names == <<<<"o">>, <<"m">>, <<"o", "m">>>>
entity_names == <<<<"m", "e">>, <<"u">>>>

link(id, to) == [link |-> id, location |-> to]
MCExits == <<<<link(1, 2), link(2, 3), link(4, 4), link(3, 1)>>, <<link(3, 1)>>, <<>>, <<link(2, 1)>>>>

entity(l, objs) == [location |-> l, objects |-> list_of(objs, entity_max_objects, 0)]
location(objs, ents) == [objects  |-> list_of(objs, location_max_objects, 0),
                         entities |-> list_of(ents, location_max_entities, 0)]

StartEntities  == <<entity(1, <<2>>), entity(2, <<>>)>>
StartLocations == <<location(<<>>, <<1>>), location(<<1, 3>>, <<2>>),
                    location(<<>>, <<>>), location(<<>>, <<>>)>>

names == {object_names[o] : o \in Objects}
MCLines == {<<>>, <<"i">>, <<" ", "n">>, <<"t">>, <<"g", " ", "m">>, <<"t", "o">>,
            <<"g", " ", "m", " ", " ", "u", " ">>, <<"t", " ", " ", "o">>,
            <<"t", " ", "o", " ">>}
           \cup {go_command[i] : i \in 1 .. 4}
           \cup {<<c, " ">> \o n : c \in {"t", "d"}, n \in names}
           \cup {<<"g", " ">> \o n \o <<" ">> \o entity_names[e] : n \in names, e \in MCEntities}

\* without what is left behind the end of the lists: nothing reads it
used(l)    == [i \in 0 .. l.len - 1 |-> l.data[i]]
used_lists == <<[e \in Entities |-> [entities[e] EXCEPT !.objects = used(@)]],
                [l \in Locations |-> [objects  |-> used(locations[l].objects),
                                      entities |-> used(locations[l].entities)]],
                active_entity, pc, told>>
=============================================================================
