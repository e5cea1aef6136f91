---------------------------- MODULE AdventureProofs ----------------------------
(***************************************************************************)
(* Proofs about Adventure, for every world that starts in order: the lists *)
(* of list.hpp; where an object is when its list has changed; each command *)
(* against Whereabouts; how a line is split into words; and that a line    *)
(* with the names that were shown does what it says.                       *)
(***************************************************************************)
EXTENDS Adventure, FiniteSetTheorems, SequenceTheorems, WellFoundedInduction, TLAPS

(* The lists. *)

\* A set of numbers that is not empty has a least one.
LEMMA Least ==
  ASSUME NEW S \in SUBSET Nat, S # {}
  PROVE  \E i \in S : \A j \in S : i <= j
<1> DEFINE R == {ss \in Nat \X Nat : ss[1] < ss[2]}
<1>1. IsWellFoundedOn(R, Nat)
  BY NatLessThanWellFounded DEF OpToRel
<1>2. \A i, j \in S : j < i => <<j, i>> \in R
  OBVIOUS
<1> HIDE DEF R
<1>3. PICK i \in S : \A j \in S : ~(<<j, i>> \in R)
  BY <1>1, WFMin
<1>4. S \subseteq Nat
  OBVIOUS
<1>5. \A j \in S : ~(j < i)
  BY <1>2, <1>3
<1>6. \A j \in S : i <= j
  BY <1>4, <1>5
<1> QED
  BY <1>6

\* position() is the first position with an element that is looked for, or the length.
LEMMA Position ==
  ASSUME NEW l, l.len \in Nat, NEW ids
  PROVE  /\ position(l, ids) \in 0 .. l.len
         /\ position(l, ids) < l.len => l.data[position(l, ids)] \in ids
         /\ \A j \in 0 .. position(l, ids) - 1 : l.data[j] \notin ids
<1> DEFINE S == {i \in 0 .. l.len : i < l.len => l.data[i] \in ids}
<1>1. l.len \in S /\ S \subseteq Nat
  OBVIOUS
<1>2. PICK i \in S : \A j \in S : i <= j
  <2> HIDE DEF S
  <2> QED
    BY <1>1, Least
<1>3. i \in 0 .. l.len /\ (i < l.len => l.data[i] \in ids)
  BY <1>2
<1>4. ASSUME NEW j \in 0 .. i - 1 PROVE l.data[j] \notin ids
  <2>1. j \in 0 .. l.len /\ j < i
    BY <1>3
  <2>2. j \notin S
    BY <1>1, <1>2, <2>1
  <2> QED
    BY <2>1, <2>2
<1> QED
  BY <1>3, <1>4 DEF position

\* What is known of a list of the tables.
LEMMA ListTypes ==
  ASSUME NEW Size \in Nat, NEW E, NEW l \in Lists(E, Size)
  PROVE  /\ l = [data |-> l.data, len |-> l.len]
         /\ l.data \in [0 .. Size - 1 -> E \cup {0}]
         /\ l.len \in 0 .. Size - 1
         /\ \A i \in 0 .. l.len - 1 : l.data[i] \in E /\ l.data[i] # 0
BY DEF Lists

\* An array and a length make a list if what is listed is not the null id.
LEMMA MakeList ==
  ASSUME NEW Size \in Nat, NEW E, NEW d \in [0 .. Size - 1 -> E \cup {0}],
         NEW n \in 0 .. Size - 1, \A i \in 0 .. n - 1 : d[i] # 0
  PROVE  [data |-> d, len |-> n] \in Lists(E, Size)
BY DEF Lists

\* What add() leaves: the list, one longer, with the element behind the others.
LEMMA Added ==
  ASSUME NEW Size \in Nat, NEW E, NEW l \in Lists(E, Size), ~is_full(l, Size),
         NEW elem \in E, elem # 0
  PROVE  /\ add(l, elem) \in Lists(E, Size)
         /\ add(l, elem).len = l.len + 1
         /\ \A i \in 0 .. l.len :
              add(l, elem).data[i] = IF i = l.len THEN elem ELSE l.data[i]
         /\ occurrences(add(l, elem), elem) = occurrences(l, elem) \cup {l.len}
         /\ \A e : e # elem => occurrences(add(l, elem), e) = occurrences(l, e)
<1> DEFINE d == [l.data EXCEPT ![l.len] = elem]
           n == l.len + 1
<1>1. l.data \in [0 .. Size - 1 -> E \cup {0}] /\ l.len \in 0 .. Size - 1
      /\ \A i \in 0 .. l.len - 1 : l.data[i] \in E /\ l.data[i] # 0
  BY ListTypes
<1>2. n \in 0 .. Size - 1
  BY <1>1 DEF is_full
<1>3. d \in [0 .. Size - 1 -> E \cup {0}]
  BY <1>1
<1>4. \A i \in 0 .. l.len : d[i] = IF i = l.len THEN elem ELSE l.data[i]
  BY <1>1
<1>5. \A i \in 0 .. n - 1 : d[i] # 0
  BY <1>1, <1>4
<1>6. add(l, elem) = [data |-> d, len |-> n]
  BY DEF add
<1> HIDE DEF d
<1>7. add(l, elem) \in Lists(E, Size)
  BY <1>2, <1>3, <1>5, <1>6, MakeList
<1>8. add(l, elem).data = d /\ add(l, elem).len = n
  BY <1>6
<1>9. occurrences(add(l, elem), elem) = occurrences(l, elem) \cup {l.len}
  BY <1>1, <1>4, <1>8 DEF occurrences
<1>10. ASSUME NEW e, e # elem PROVE occurrences(add(l, elem), e) = occurrences(l, e)
  BY <1>1, <1>4, <1>8, <1>10 DEF occurrences
<1> QED
  BY <1>4, <1>7, <1>8, <1>9, <1>10

\* What remove_at() leaves: the list, one shorter, the rest moved down.
LEMMA Removed ==
  ASSUME NEW Size \in Nat, NEW E, NEW l \in Lists(E, Size), NEW pos \in 0 .. l.len - 1
  PROVE  /\ remove_at(l, pos) \in Lists(E, Size)
         /\ remove_at(l, pos).len = l.len - 1
         /\ \A i \in 0 .. l.len - 2 :
              remove_at(l, pos).data[i] = IF i < pos THEN l.data[i] ELSE l.data[i + 1]
<1> DEFINE d == [i \in DOMAIN l.data |->
                   IF i \in pos .. l.len - 2 THEN l.data[i + 1] ELSE l.data[i]]
           n == l.len - 1
<1>1. l.data \in [0 .. Size - 1 -> E \cup {0}] /\ l.len \in 0 .. Size - 1
      /\ \A i \in 0 .. l.len - 1 : l.data[i] \in E /\ l.data[i] # 0
  BY ListTypes
<1>2. n \in 0 .. Size - 1
  BY <1>1
<1>3. d \in [0 .. Size - 1 -> E \cup {0}]
  BY <1>1
<1>4. \A i \in 0 .. l.len - 2 : d[i] = IF i < pos THEN l.data[i] ELSE l.data[i + 1]
  BY <1>1
<1>5. \A i \in 0 .. n - 1 : d[i] # 0
  BY <1>1, <1>4
<1>6. remove_at(l, pos) = [data |-> d, len |-> n]
  BY <1>1 DEF remove_at
<1> HIDE DEF d
<1>7. remove_at(l, pos) \in Lists(E, Size)
  BY <1>2, <1>3, <1>5, <1>6, MakeList
<1> QED
  BY <1>4, <1>6, <1>7

\* where the elements are when one of them is gone
down(i, pos) == IF i < pos THEN i ELSE i - 1

\* Where an element is listed when another position has been removed.
LEMMA StillListed ==
  ASSUME NEW Size \in Nat, NEW E, NEW l \in Lists(E, Size), NEW pos \in 0 .. l.len - 1,
         NEW e
  PROVE  /\ absent(l, e) => absent(remove_at(l, pos), e)
         /\ \A i \in 0 .. l.len - 1 :
              /\ i # pos
              /\ occurrences(l, e) \in {{i}, {i, pos}}
              => occurrences(remove_at(l, pos), e) = {down(i, pos)}
         /\ occurrences(l, e) = {pos} => absent(remove_at(l, pos), e)
<1> DEFINE r == remove_at(l, pos)
<1>1. /\ r.len = l.len - 1
      /\ \A i \in 0 .. l.len - 2 : r.data[i] = IF i < pos THEN l.data[i] ELSE l.data[i + 1]
  BY Removed
<1>2. l.len \in Nat
  BY ListTypes
<1> HIDE DEF r
<1>3. \A i \in 0 .. l.len - 2 :
        i \in occurrences(r, e) <=> (IF i < pos THEN i ELSE i + 1) \in occurrences(l, e)
  BY <1>1, <1>2 DEF occurrences
<1>4. occurrences(r, e) \subseteq 0 .. l.len - 2 /\ occurrences(l, e) \subseteq 0 .. l.len - 1
  BY <1>1, <1>2 DEF occurrences
<1>5. absent(l, e) => absent(r, e)
  BY <1>3, <1>4 DEF absent
<1>6. occurrences(l, e) = {pos} => absent(r, e)
  BY <1>2, <1>3, <1>4 DEF absent
<1>7. ASSUME NEW i \in 0 .. l.len - 1, i # pos, occurrences(l, e) \in {{i}, {i, pos}}
      PROVE  occurrences(r, e) = {down(i, pos)}
  <2>1. down(i, pos) \in 0 .. l.len - 2
    BY <1>2, <1>7 DEF down
  <2>2. down(i, pos) \in occurrences(r, e)
    BY <1>2, <1>3, <1>7, <2>1 DEF down
  <2>3. ASSUME NEW k \in occurrences(r, e) PROVE k = down(i, pos)
    <3>1. k \in 0 .. l.len - 2
      BY <1>4
    <3>2. (IF k < pos THEN k ELSE k + 1) \in {i, pos}
      BY <1>3, <1>7, <3>1
    <3> QED
      BY <1>2, <3>1, <3>2 DEF down
  <2> QED
    BY <2>2, <2>3
<1> QED
  BY <1>5, <1>6, <1>7 DEF r

\* an element that goes behind the others and then is taken out where it was
LEMMA MovedToEnd ==
  ASSUME NEW Size \in Nat, NEW E, NEW l \in Lists(E, Size), ~is_full(l, Size),
         NEW pos \in 0 .. l.len - 1, NEW o, o = l.data[pos], once(l, o)
  PROVE  /\ remove_at(add(l, o), pos) \in Lists(E, Size)
         /\ once(remove_at(add(l, o), pos), o)
         /\ \A e : e # o =>
              /\ once(l, e)   => once(remove_at(add(l, o), pos), e)
              /\ absent(l, e) => absent(remove_at(add(l, o), pos), e)
<1> DEFINE a == add(l, o)
<1>1. l.len \in Nat /\ o \in E /\ o # 0
  BY ListTypes
<1>2. /\ a \in Lists(E, Size) /\ a.len = l.len + 1
      /\ occurrences(a, o) = occurrences(l, o) \cup {l.len}
      /\ \A e : e # o => occurrences(a, e) = occurrences(l, e)
  BY <1>1, Added
<1>3. pos \in 0 .. a.len - 1 /\ l.len \in 0 .. a.len - 1 /\ l.len # pos
  BY <1>1, <1>2
<1>4. occurrences(l, o) = {pos}
  BY DEF once, occurrences
<1> HIDE DEF a
<1>5. remove_at(a, pos) \in Lists(E, Size)
  BY <1>2, <1>3, Removed
<1>6. occurrences(remove_at(a, pos), o) = {down(l.len, pos)}
  <2>1. occurrences(a, o) = {l.len, pos}
    BY <1>2, <1>4
  <2> QED
    BY <1>2, <1>3, <2>1, StillListed
<1>7. ASSUME NEW e, e # o
      PROVE  /\ once(l, e)   => once(remove_at(a, pos), e)
             /\ absent(l, e) => absent(remove_at(a, pos), e)
  <2>1. occurrences(a, e) = occurrences(l, e)
    BY <1>2, <1>7
  <2>2. ASSUME absent(l, e) PROVE absent(remove_at(a, pos), e)
    <3>1. absent(a, e)
      BY <2>1, <2>2 DEF absent
    <3> QED
      BY <1>2, <1>3, <3>1, StillListed
  <2>3. ASSUME once(l, e) PROVE once(remove_at(a, pos), e)
    <3>1. PICK i \in 0 .. l.len - 1 : occurrences(l, e) = {i} /\ l.data[i] = e
      BY <2>3 DEF once, occurrences
    <3>2. i # pos /\ i \in 0 .. a.len - 1
      BY <1>1, <1>2, <1>7, <3>1
    <3>3. occurrences(a, e) = {i}
      BY <2>1, <3>1
    <3>4. occurrences(remove_at(a, pos), e) = {down(i, pos)}
      BY <1>2, <1>3, <3>2, <3>3, StillListed
    <3> QED
      BY <3>4 DEF once
  <2> QED
    BY <2>2, <2>3
<1>8. once(remove_at(a, pos), o)
  BY <1>6 DEF once
<1> QED
  BY <1>5, <1>7, <1>8 DEF a

\* An element that was not listed is listed once after add(), the others as before.
LEMMA AddedOnce ==
  ASSUME NEW Size \in Nat, NEW E, NEW l \in Lists(E, Size), ~is_full(l, Size),
         NEW o \in E, o # 0, absent(l, o)
  PROVE  /\ add(l, o) \in Lists(E, Size)
         /\ once(add(l, o), o)
         /\ \A e : e # o => /\ once(l, e)   => once(add(l, o), e)
                            /\ absent(l, e) => absent(add(l, o), e)
<1>1. /\ add(l, o) \in Lists(E, Size)
      /\ occurrences(add(l, o), o) = occurrences(l, o) \cup {l.len}
      /\ \A e : e # o => occurrences(add(l, o), e) = occurrences(l, e)
  BY Added
<1>2. occurrences(add(l, o), o) = {l.len}
  BY <1>1 DEF absent
<1> QED
  BY <1>1, <1>2 DEF once, absent

\* An element that was listed once is gone after remove_at(), the others as before.
LEMMA RemovedOnce ==
  ASSUME NEW Size \in Nat, NEW E, NEW l \in Lists(E, Size),
         NEW pos \in 0 .. l.len - 1, NEW o \in E, o = l.data[pos], once(l, o)
  PROVE  /\ remove_at(l, pos) \in Lists(E, Size)
         /\ absent(remove_at(l, pos), o)
         /\ \A e : e # o => /\ once(l, e)   => once(remove_at(l, pos), e)
                            /\ absent(l, e) => absent(remove_at(l, pos), e)
<1>1. l.len \in Nat
  BY ListTypes
<1>2. occurrences(l, o) = {pos}
  BY DEF once, occurrences
<1>3. absent(remove_at(l, pos), o)
  BY <1>2, StillListed
<1>4. ASSUME NEW e, e # o, once(l, e) PROVE once(remove_at(l, pos), e)
  <2>1. PICK i \in 0 .. l.len - 1 : occurrences(l, e) = {i} /\ l.data[i] = e
    BY <1>4 DEF once, occurrences
  <2>2. i # pos
    BY <1>4, <2>1
  <2>3. occurrences(remove_at(l, pos), e) = {down(i, pos)}
    BY <2>1, <2>2, StillListed
  <2> QED
    BY <2>3 DEF once
<1>5. \A e : absent(l, e) => absent(remove_at(l, pos), e)
  BY StillListed
<1> QED
  BY <1>3, <1>4, <1>5, Removed

\* as many places in a list as elements it has, at least
LEMMA ElementsFit ==
  ASSUME NEW Size \in Nat, NEW E, NEW l \in Lists(E, Size),
         NEW S, S \subseteq elements(l)
  PROVE  IsFiniteSet(S) /\ Cardinality(S) <= l.len
<1>1. l.len \in Nat
  BY ListTypes
<1>2. IsFiniteSet(0 .. l.len - 1) /\ Cardinality(0 .. l.len - 1) = l.len
  <2> DEFINE n == l.len - 1
  <2>1. n \in Int /\ 0 \in Int
    BY <1>1
  <2>2. IsFiniteSet(0 .. n) /\ Cardinality(0 .. n) = IF 0 > n THEN 0 ELSE n - 0 + 1
    <3> HIDE DEF n
    <3> QED
      BY <2>1, FS_Interval
  <2> QED
    BY <1>1, <2>2
<1> DEFINE f == [i \in 0 .. l.len - 1 |-> l.data[i]]
<1>3. f \in Surjection(0 .. l.len - 1, elements(l))
  BY DEF Surjection, elements
<1>4. IsFiniteSet(elements(l)) /\ Cardinality(elements(l)) <= l.len
  BY <1>2, <1>3, FS_Surjection DEF ExistsSurjection
<1>5. IsFiniteSet(S) /\ Cardinality(S) <= Cardinality(elements(l))
  BY <1>4, FS_Subset
<1>6. Cardinality(S) \in Nat /\ Cardinality(elements(l)) \in Nat
  BY <1>4, <1>5, FS_CardinalityType
<1> QED
  BY <1>1, <1>4, <1>5, <1>6

\* The elements of a list are those that are not absent from it.
LEMMA Elements ==
  ASSUME NEW l, l.len \in Nat, NEW e
  PROVE  e \in elements(l) <=> ~absent(l, e)
BY DEF elements, absent, occurrences

(* The places. *)

room_of(p) == IF p[1] = "entity" THEN entity_max_objects ELSE location_max_objects

\* The places, the lists that belong to them and their room.
LEMMA PlaceNames ==
  /\ \A e \in Entities : <<"entity", e>> \in Places
  /\ \A l \in Locations : <<"location", l>> \in Places
  /\ \A p \in Places : \/ p[1] = "entity" /\ p[2] \in Entities /\ p = <<"entity", p[2]>>
                       \/ p[1] = "location" /\ p[2] \in Locations /\ p = <<"location", p[2]>>
  /\ \A ents, locs, e : list_in(ents, locs, <<"entity", e>>) = ents[e].objects
  /\ \A ents, locs, l : list_in(ents, locs, <<"location", l>>) = locs[l].objects
  /\ \A e : room_of(<<"entity", e>>) = entity_max_objects
  /\ \A l : room_of(<<"location", l>>) = location_max_objects
BY DEF Places, list_in, room_of

\* The sizes of the arrays are numbers.
LEMMA Sizes == /\ location_max_objects \in Nat /\ location_max_entities \in Nat
               /\ entity_max_objects \in Nat
BY AdventureAssumption

\* What the tables hold.
LEMMA TableTypes ==
  ASSUME NEW ents \in EntityTables, NEW locs \in LocationTables
  PROVE  /\ \A e \in Entities : /\ ents[e].location \in Locations
                                /\ ents[e].objects \in Lists(Objects, entity_max_objects)
         /\ \A l \in Locations :
              /\ locs[l].objects \in Lists(Objects, location_max_objects)
              /\ locs[l].entities \in Lists(Entities, location_max_entities)
         /\ \A p \in Places : /\ room_of(p) \in Nat
                              /\ list_in(ents, locs, p) \in Lists(Objects, room_of(p))
                              /\ list_in(ents, locs, p).len \in 0 .. room_of(p) - 1
<1>1. /\ \A e \in Entities : /\ ents[e].location \in Locations
                             /\ ents[e].objects \in Lists(Objects, entity_max_objects)
      /\ \A l \in Locations :
           /\ locs[l].objects \in Lists(Objects, location_max_objects)
           /\ locs[l].entities \in Lists(Entities, location_max_entities)
  BY DEF EntityTables, LocationTables
<1>2. ASSUME NEW p \in Places
      PROVE  room_of(p) \in Nat /\ list_in(ents, locs, p) \in Lists(Objects, room_of(p))
  BY <1>1, PlaceNames, Sizes DEF list_in, room_of
<1>3. \A p \in Places : list_in(ents, locs, p).len \in 0 .. room_of(p) - 1
  BY <1>2, ListTypes
<1> QED
  BY <1>1, <1>2, <1>3

\* The place of an object is the one place where it is listed.
LEMMA PlaceOf ==
  ASSUME NEW ents, NEW locs, objects_in_one_place(ents, locs), NEW o \in Objects
  PROVE  /\ place_in(ents, locs)[o] \in Places
         /\ once(list_in(ents, locs, place_in(ents, locs)[o]), o)
         /\ \A p \in Places : /\ ~absent(list_in(ents, locs, p), o) => place_in(ents, locs)[o] = p
                              /\ place_in(ents, locs)[o] # p => absent(list_in(ents, locs, p), o)
<1>1. PICK p \in Places : /\ once(list_in(ents, locs, p), o)
                          /\ \A q \in Places \ {p} : absent(list_in(ents, locs, q), o)
  BY DEF objects_in_one_place
<1>2. ~absent(list_in(ents, locs, p), o)
  BY <1>1 DEF once, absent
<1>3. \A q \in Places : ~absent(list_in(ents, locs, q), o) <=> q = p
  BY <1>1, <1>2
<1>4. place_in(ents, locs)[o] = CHOOSE q \in Places : ~absent(list_in(ents, locs, q), o)
  BY DEF place_in
<1>5. place_in(ents, locs)[o] = p
  BY <1>3, <1>4
<1> QED
  BY <1>1, <1>3, <1>5

\* A list holds the objects whose place it is, and no more than its length.
LEMMA ElementsOfPlace ==
  ASSUME NEW ents \in EntityTables, NEW locs \in LocationTables,
         objects_in_one_place(ents, locs), NEW p \in Places
  PROVE  /\ elements(list_in(ents, locs, p)) = {o \in Objects : place_in(ents, locs)[o] = p}
         /\ Cardinality({o \in Objects : place_in(ents, locs)[o] = p})
              <= list_in(ents, locs, p).len
<1> DEFINE l == list_in(ents, locs, p)
<1>1. room_of(p) \in Nat /\ l \in Lists(Objects, room_of(p)) /\ l.len \in Nat
  BY TableTypes
<1>2. \A o \in elements(l) : o \in Objects
  BY <1>1, ListTypes DEF elements
<1>3. \A o \in Objects : o \in elements(l) <=> place_in(ents, locs)[o] = p
  <2> TAKE o \in Objects
  <2>1. o \in elements(l) <=> ~absent(l, o)
    BY <1>1, Elements
  <2>2. once(l, o) => ~absent(l, o)
    BY DEF once, absent
  <2> QED
    BY <2>1, <2>2, PlaceOf
<1>4. elements(l) = {o \in Objects : place_in(ents, locs)[o] = p}
  BY <1>2, <1>3
<1> HIDE DEF l
<1>5. Cardinality({o \in Objects : place_in(ents, locs)[o] = p}) <= l.len
  BY <1>1, <1>4, ElementsFit
<1> QED
  BY <1>4, <1>5 DEF l

\* what becomes of the others when one object comes or goes
others_stay(l, l2, o) ==
  \A e \in Objects \ {o} : /\ once(l, e)   => once(l2, e)
                           /\ absent(l, e) => absent(l2, e)

object_moves(ents, locs, ents2, locs2, o, p, q) ==
  /\ place_in(ents, locs)[o] = p
  /\ \A r \in Places \ {p, q} : list_in(ents2, locs2, r) = list_in(ents, locs, r)
  /\ \A r \in {p, q} : others_stay(list_in(ents, locs, r), list_in(ents2, locs2, r), o)
  /\ once(list_in(ents2, locs2, q), o)
  /\ p # q => absent(list_in(ents2, locs2, p), o)

\* An object that left one list for another has moved, and the objects are in one place
\* each.
LEMMA ObjectMoved ==
  ASSUME NEW ents, NEW locs, NEW ents2, NEW locs2, objects_in_one_place(ents, locs),
         NEW o \in Objects, NEW p \in Places, NEW q \in Places,
         object_moves(ents, locs, ents2, locs2, o, p, q)
  PROVE  /\ objects_in_one_place(ents2, locs2)
         /\ place_in(ents2, locs2) = [place_in(ents, locs) EXCEPT ![o] = q]
<1> USE DEF object_moves
<1>1. \A r \in Places : others_stay(list_in(ents, locs, r), list_in(ents2, locs2, r), o)
  BY DEF others_stay
<1>2. \A r \in Places \ {q} : absent(list_in(ents2, locs2, r), o)
  <2> TAKE r \in Places \ {q}
  <2>1. CASE r = p
    BY <2>1
  <2>2. CASE r # p
    <3>1. absent(list_in(ents, locs, r), o)
      BY <2>2, PlaceOf
    <3> QED
      BY <2>2, <3>1
  <2> QED
    BY <2>1, <2>2
<1>3. ASSUME NEW e \in Objects \ {o}
      PROVE  /\ once(list_in(ents2, locs2, place_in(ents, locs)[e]), e)
             /\ \A r \in Places \ {place_in(ents, locs)[e]} : absent(list_in(ents2, locs2, r), e)
  BY <1>1, PlaceOf DEF others_stay
<1>4. objects_in_one_place(ents2, locs2)
  <2> SUFFICES ASSUME NEW e \in Objects
               PROVE  \E r \in Places : /\ once(list_in(ents2, locs2, r), e)
                                        /\ \A s \in Places \ {r} : absent(list_in(ents2, locs2, s), e)
    BY DEF objects_in_one_place
  <2>1. CASE e = o
    BY <1>2, <2>1
  <2>2. CASE e # o
    BY <1>3, <2>2, PlaceOf
  <2> QED
    BY <2>1, <2>2
<1>5. \A l, e : once(l, e) => ~absent(l, e)
  BY DEF once, absent
<1>6. \A e \in Objects : place_in(ents2, locs2)[e] = IF e = o THEN q ELSE place_in(ents, locs)[e]
  BY <1>3, <1>4, <1>5, PlaceOf
<1>7. /\ DOMAIN place_in(ents, locs) = Objects /\ DOMAIN place_in(ents2, locs2) = Objects
      /\ place_in(ents, locs) = [e \in Objects |-> place_in(ents, locs)[e]]
      /\ place_in(ents2, locs2) = [e \in Objects |-> place_in(ents2, locs2)[e]]
  BY DEF place_in
<1> QED
  BY <1>4, <1>6, <1>7

(* The commands. *)

InOrder == in_order(entities, locations)

\* Cardinality in Whereabouts is that of the library.
LEMMA SameCardinality == ASSUME NEW S PROVE W!Cardinality(S) = Cardinality(S)
BY Zenon DEF W!Cardinality, Cardinality, W!IsFiniteSet, IsFiniteSet

\* A command that moves an object from a list to one with room is a move of Whereabouts.
LEMMA ObjectMoves ==
  ASSUME InOrder, entities' \in EntityTables, locations' \in LocationTables,
         \A e \in Entities : entities'[e].location = entities[e].location,
         \A l \in Locations : locations'[l].entities = locations[l].entities,
         NEW o \in Objects, NEW p \in Places, NEW q \in Places,
         object_moves(entities, locations, entities', locations', o, p, q),
         ~is_full(list_in(entities, locations, q), room_of(q))
  PROVE  InOrder' /\ W!Move(p, q)
<1>1. /\ objects_in_one_place(entities, locations)
      /\ entities_where_they_say(entities, locations)
      /\ entities \in EntityTables /\ locations \in LocationTables
  BY DEF InOrder, in_order
<1>2. /\ objects_in_one_place(entities', locations')
      /\ place_in(entities', locations') = [place_in(entities, locations) EXCEPT ![o] = q]
  BY <1>1, ObjectMoved
<1>3. entities_where_they_say(entities', locations')
  BY <1>1 DEF entities_where_they_say
<1>4. place' = [place EXCEPT ![o] = q] /\ place[o] = p
  BY <1>2 DEF place, object_moves
<1>5. W!has_room(q)
  <2>1. list_in(entities, locations, q).len \in 0 .. room_of(q) - 1 /\ room_of(q) \in Nat
    BY <1>1, TableTypes
  <2>2. list_in(entities, locations, q).len < room_of(q) - 1
    BY <2>1 DEF is_full
  <2>3. Cardinality({e \in Objects : place[e] = q}) <= list_in(entities, locations, q).len
    BY <1>1, ElementsOfPlace DEF place
  <2>4. IsFiniteSet({e \in Objects : place[e] = q})
    <3>1. /\ room_of(q) \in Nat /\ list_in(entities, locations, q) \in Lists(Objects, room_of(q))
          /\ elements(list_in(entities, locations, q)) = {e \in Objects : place[e] = q}
      BY <1>1, TableTypes, ElementsOfPlace DEF place
    <3> QED
      BY <3>1, ElementsFit
  <2>5. Cardinality({e \in Objects : place[e] = q}) \in Nat
    BY <2>4, FS_CardinalityType
  <2>6. Cardinality({e \in Objects : place[e] = q}) < room_of(q) - 1
    BY <2>1, <2>2, <2>3, <2>5
  <2> DEFINE N == Cardinality({e \in Objects : place[e] = q})
  <2>7. W!has_room(q) <=> N < IF q[1] = "entity" THEN entity_max_objects - 1
                                                ELSE location_max_objects - 1
    BY SameCardinality DEF W!has_room
  <2>8. N < room_of(q) - 1
    BY <2>6
  <2> HIDE DEF N
  <2> QED
    BY <2>7, <2>8 DEF room_of
<1>6. [e \in Entities |-> entities[e].location]' = [e \in Entities |-> entities[e].location]
  OBVIOUS
<1>7. W!Move(p, q)
  BY <1>4, <1>5, <1>6 DEF W!Move
<1> QED
  BY <1>2, <1>3, <1>7 DEF InOrder, in_order

\* A command that moves nothing is a stay.
LEMMA Stays == InOrder /\ nothing_moves => InOrder' /\ W!Stay
BY DEF InOrder, nothing_moves, W!Stay, place

\* the object a command names, when the list has one of that name
LEMMA Named ==
  ASSUME InOrder, NEW p \in Places, NEW args,
         ~is_at_end(list_in(entities, locations, p),
                    object_position(list_in(entities, locations, p), args))
  PROVE  LET l   == list_in(entities, locations, p)
             pos == object_position(l, args)
         IN /\ pos \in 0 .. l.len - 1 /\ at(l, pos, 0) = l.data[pos]
            /\ l.data[pos] \in Objects /\ l.data[pos] # 0
            /\ once(l, l.data[pos]) /\ place[l.data[pos]] = p
            /\ \A q \in Places \ {p} : absent(list_in(entities, locations, q), l.data[pos])
<1> DEFINE l   == list_in(entities, locations, p)
           pos == object_position(l, args)
           o   == l.data[pos]
<1>1. /\ objects_in_one_place(entities, locations)
      /\ entities \in EntityTables /\ locations \in LocationTables
  BY DEF InOrder, in_order
<1>2. room_of(p) \in Nat /\ l \in Lists(Objects, room_of(p)) /\ l.len \in Nat
  BY <1>1, TableTypes
<1>3. pos \in 0 .. l.len
  BY <1>2, Position DEF object_position
<1>4. pos \in 0 .. l.len - 1
  BY <1>2, <1>3 DEF is_at_end
<1>5. at(l, pos, 0) = o
  BY <1>4, <1>2 DEF at
<1>6. o \in Objects /\ o # 0
  BY <1>2, <1>4, ListTypes
<1>7. ~absent(l, o)
  BY <1>4 DEF absent, occurrences
<1>8. place[o] = p /\ once(l, o)
  BY <1>1, <1>6, <1>7, PlaceOf DEF place
<1>9. \A q \in Places \ {p} : absent(list_in(entities, locations, q), o)
  BY <1>1, <1>6, <1>8, PlaceOf DEF place
<1> QED
  BY <1>4, <1>5, <1>6, <1>8, <1>9

\* the object leaves one list and is put into another
LEMMA FromListToList ==
  ASSUME InOrder, NEW p \in Places, NEW q \in Places, p # q, NEW args, NEW lp, NEW lq,
         lp = list_in(entities, locations, p), lq = list_in(entities, locations, q),
         NEW pos, pos = object_position(lp, args),
         ~is_at_end(lp, pos), ~is_full(lq, room_of(q))
  PROVE  /\ remove_at(lp, pos) \in Lists(Objects, room_of(p))
         /\ add(lq, at(lp, pos, 0)) \in Lists(Objects, room_of(q))
         /\ \E o \in Objects : /\ place[o] = p
                               /\ absent(remove_at(lp, pos), o)
                               /\ others_stay(lp, remove_at(lp, pos), o)
                               /\ once(add(lq, at(lp, pos, 0)), o)
                               /\ others_stay(lq, add(lq, at(lp, pos, 0)), o)
<1>1. /\ room_of(p) \in Nat /\ lp \in Lists(Objects, room_of(p))
      /\ room_of(q) \in Nat /\ lq \in Lists(Objects, room_of(q))
  BY TableTypes DEF InOrder, in_order
<1> DEFINE o == lp.data[pos]
<1>2. /\ pos \in 0 .. lp.len - 1 /\ at(lp, pos, 0) = o
      /\ o \in Objects /\ o # 0 /\ once(lp, o) /\ place[o] = p /\ absent(lq, o)
  BY Named
<1>3. o = lp.data[pos]
  OBVIOUS
<1> HIDE DEF o
<1>4. /\ remove_at(lp, pos) \in Lists(Objects, room_of(p))
      /\ absent(remove_at(lp, pos), o)
      /\ \A x : x # o => /\ once(lp, x)   => once(remove_at(lp, pos), x)
                         /\ absent(lp, x) => absent(remove_at(lp, pos), x)
  BY <1>1, <1>2, <1>3, RemovedOnce
<1>5. /\ add(lq, o) \in Lists(Objects, room_of(q))
      /\ once(add(lq, o), o)
      /\ \A x : x # o => /\ once(lq, x)   => once(add(lq, o), x)
                         /\ absent(lq, x) => absent(add(lq, o), x)
  BY <1>1, <1>2, AddedOnce
<1>6. others_stay(lp, remove_at(lp, pos), o) /\ others_stay(lq, add(lq, o), o)
  BY <1>4, <1>5 DEF others_stay
<1> QED
  BY <1>2, <1>4, <1>5, <1>6

\* action_take is a take of Whereabouts or moves nothing.
LEMMA TakeMoves ==
  ASSUME InOrder, active_entity \in Entities, NEW args, action_take(active_entity, args)
  PROVE  InOrder' /\ (W!Take \/ W!Stay)
<1> DEFINE e   == active_entity
           lid == entities[active_entity].location
           p   == <<"location", lid>>
           q   == <<"entity", e>>
           lso == list_in(entities, locations, p)
           leo == list_in(entities, locations, q)
           pos == object_position(lso, args)
           lso2 == remove_at(lso, pos)
           leo2 == add(leo, at(lso, pos, 0))
<1>1. CASE nothing_moves
  BY <1>1, Stays
<1>2. CASE ~nothing_moves
  <2>1. /\ entities \in EntityTables /\ locations \in LocationTables
        /\ e \in Entities /\ lid \in Locations /\ p \in Places /\ q \in Places /\ p # q
        /\ lso = locations[lid].objects /\ leo = entities[e].objects
        /\ room_of(p) = location_max_objects /\ room_of(q) = entity_max_objects
    BY TableTypes, PlaceNames DEF InOrder, in_order
  <2>2. /\ ~is_at_end(lso, pos) /\ ~is_full(leo, room_of(q))
        /\ entities' = [entities EXCEPT ![e].objects = leo2]
        /\ locations' = [locations EXCEPT ![lid].objects = lso2]
    BY <1>2, <2>1 DEF action_take, here
  <2> HIDE DEF p, q, lso, leo, pos
  <2>3. PICK o \in Objects :
          /\ lso2 \in Lists(Objects, room_of(p)) /\ leo2 \in Lists(Objects, room_of(q))
          /\ place[o] = p
          /\ absent(lso2, o) /\ others_stay(lso, lso2, o)
          /\ once(leo2, o) /\ others_stay(leo, leo2, o)
    BY <2>1, <2>2, FromListToList DEF lso, leo, pos
  <2> HIDE DEF lso2, leo2
  <2>4. entities' \in EntityTables /\ locations' \in LocationTables
    BY <2>1, <2>2, <2>3 DEF EntityTables, LocationTables
  <2>5. /\ \A x \in Entities : /\ entities'[x].location = entities[x].location
                               /\ entities'[x].objects = IF x = e THEN leo2 ELSE entities[x].objects
        /\ \A l \in Locations : /\ locations'[l].entities = locations[l].entities
                                /\ locations'[l].objects = IF l = lid THEN lso2 ELSE locations[l].objects
    BY <2>1, <2>2 DEF EntityTables, LocationTables
  <2>6. /\ list_in(entities', locations', p) = lso2
        /\ list_in(entities', locations', q) = leo2
        /\ \A r \in Places \ {p, q} :
             list_in(entities', locations', r) = list_in(entities, locations, r)
    BY <2>1, <2>5, PlaceNames DEF p, q
  <2>7. object_moves(entities, locations, entities', locations', o, p, q)
    BY <2>3, <2>6 DEF lso, leo, object_moves, place
  <2>8. InOrder' /\ W!Move(p, q)
    BY <2>1, <2>2, <2>4, <2>5, <2>7, ObjectMoves DEF leo
  <2>9. [x \in Entities |-> entities[x].location][active_entity] = lid
    OBVIOUS
  <2> QED
    BY <2>8, <2>9 DEF W!Take, W!entity_at, W!location_at, p, q
<1> QED
  BY <1>1, <1>2

\* action_drop is a drop or moves nothing.
LEMMA DropMoves ==
  ASSUME InOrder, active_entity \in Entities, NEW args, action_drop(active_entity, args)
  PROVE  InOrder' /\ (W!Drop \/ W!Stay)
<1> DEFINE e   == active_entity
           lid == entities[active_entity].location
           p   == <<"entity", e>>
           q   == <<"location", lid>>
           lso == list_in(entities, locations, p)
           llo == list_in(entities, locations, q)
           pos == object_position(lso, args)
           lso2 == remove_at(lso, pos)
           llo2 == add(llo, at(lso, pos, 0))
<1>1. CASE nothing_moves
  BY <1>1, Stays
<1>2. CASE ~nothing_moves
  <2>1. /\ entities \in EntityTables /\ locations \in LocationTables
        /\ e \in Entities /\ lid \in Locations /\ p \in Places /\ q \in Places /\ p # q
        /\ llo = locations[lid].objects /\ lso = entities[e].objects
        /\ room_of(q) = location_max_objects /\ room_of(p) = entity_max_objects
    BY TableTypes, PlaceNames DEF InOrder, in_order
  <2>2. /\ ~is_at_end(lso, pos) /\ ~is_full(llo, room_of(q))
        /\ locations' = [locations EXCEPT ![lid].objects = llo2]
        /\ entities' = [entities EXCEPT ![e].objects = lso2]
    BY <1>2, <2>1 DEF action_drop, here
  <2> HIDE DEF p, q, lso, llo, pos
  <2>3. PICK o \in Objects :
          /\ lso2 \in Lists(Objects, room_of(p)) /\ llo2 \in Lists(Objects, room_of(q))
          /\ place[o] = p
          /\ absent(lso2, o) /\ others_stay(lso, lso2, o)
          /\ once(llo2, o) /\ others_stay(llo, llo2, o)
    BY <2>1, <2>2, FromListToList DEF lso, llo, pos
  <2> HIDE DEF lso2, llo2
  <2>4. entities' \in EntityTables /\ locations' \in LocationTables
    BY <2>1, <2>2, <2>3 DEF EntityTables, LocationTables
  <2>5. /\ \A x \in Entities : /\ entities'[x].location = entities[x].location
                               /\ entities'[x].objects = IF x = e THEN lso2 ELSE entities[x].objects
        /\ \A l \in Locations : /\ locations'[l].entities = locations[l].entities
                                /\ locations'[l].objects = IF l = lid THEN llo2 ELSE locations[l].objects
    BY <2>1, <2>2 DEF EntityTables, LocationTables
  <2>6. /\ list_in(entities', locations', p) = lso2
        /\ list_in(entities', locations', q) = llo2
        /\ \A r \in Places \ {p, q} :
             list_in(entities', locations', r) = list_in(entities, locations, r)
    BY <2>1, <2>5, PlaceNames DEF p, q
  <2>7. object_moves(entities, locations, entities', locations', o, p, q)
    BY <2>3, <2>6 DEF lso, llo, object_moves, place
  <2>8. InOrder' /\ W!Move(p, q)
    BY <2>1, <2>2, <2>4, <2>5, <2>7, ObjectMoves DEF llo
  <2>9. [x \in Entities |-> entities[x].location][active_entity] = lid
    OBVIOUS
  <2> QED
    BY <2>8, <2>9 DEF W!Drop, W!entity_at, W!location_at, p, q
<1> QED
  BY <1>1, <1>2

\* An entity in the list of a location is at that location.
LEMMA WhoIsHere ==
  ASSUME InOrder, NEW l \in Locations, NEW pos \in 0 .. locations[l].entities.len - 1
  PROVE  /\ locations[l].entities.data[pos] \in Entities
         /\ entities[locations[l].entities.data[pos]].location = l
<1> DEFINE le == locations[l].entities
           e  == le.data[pos]
<1>1. location_max_entities \in Nat /\ le \in Lists(Entities, location_max_entities)
      /\ entities_where_they_say(entities, locations)
  BY TableTypes, Sizes DEF InOrder, in_order
<1>2. e \in Entities
  BY <1>1, ListTypes
<1>3. ~absent(le, e)
  BY DEF absent, occurrences
<1> QED
  BY <1>1, <1>2, <1>3 DEF entities_where_they_say

\* action_give is a gift to an entity at the same location, to itself as well, or moves
\* nothing.
LEMMA GiveMoves ==
  ASSUME InOrder, active_entity \in Entities, NEW args, action_give(active_entity, args)
  PROVE  InOrder' /\ (W!Give \/ W!Stay)
<1> DEFINE e   == active_entity
           lid == entities[active_entity].location
           w1  == string_next_word(args)
           w2  == string_next_word(w1.rem)
           lse == locations[lid].entities
           to_pos == position(lse, {id \in Entities : string_equals_cstr(w2.word, entity_name[id])})
           to  == lse.data[to_pos]
           p   == <<"entity", e>>
           q   == <<"entity", to>>
           lso == list_in(entities, locations, p)
           lto == list_in(entities, locations, q)
           pos == object_position(lso, w1.word)
           lso2 == remove_at(lso, pos)
           lto2 == add(lto, at(lso, pos, 0))
           both == remove_at(add(lso, at(lso, pos, 0)), pos)
<1>1. CASE nothing_moves
  BY <1>1, Stays
<1>2. CASE ~nothing_moves
  <2>1. /\ entities \in EntityTables /\ locations \in LocationTables
        /\ e \in Entities /\ lid \in Locations /\ p \in Places
        /\ lso = entities[e].objects
        /\ lse \in Lists(Entities, location_max_entities) /\ lse.len \in Nat
    BY TableTypes, PlaceNames, Sizes, ListTypes DEF InOrder, in_order
  <2>2. /\ to_pos # lse.len
        /\ to_pos \in 0 .. lse.len
    <3>1. to_pos # lse.len
      <4>1. \/ nothing_moves \/ ~is_at_end(lse, to_pos)
        BY Zenon DEF action_give, here
      <4> QED
        BY <1>2, <4>1 DEF is_at_end
    <3>2. to_pos \in 0 .. lse.len
      <4> HIDE DEF lse
      <4> QED
        BY <2>1, Position
    <3> QED
      BY <3>1, <3>2
  <2>3. /\ to_pos \in 0 .. lse.len - 1 /\ at(lse, to_pos, 0) = to
    <3> HIDE DEF to_pos, lse
    <3> QED
      BY <2>1, <2>2 DEF at
  <2>4. /\ to \in Entities /\ entities[to].location = lid
    <3> HIDE DEF to_pos
    <3> QED
      BY <2>1, <2>3, WhoIsHere
  <2>5. /\ q \in Places /\ lto = entities[to].objects
        /\ room_of(p) = entity_max_objects /\ room_of(q) = entity_max_objects
    <3> HIDE DEF to
    <3> QED
      BY <2>1, <2>4, TableTypes, PlaceNames
  <2>6. /\ ~is_at_end(lso, pos) /\ ~is_full(lto, room_of(q))
        /\ entities' = [[entities EXCEPT ![to].objects = add(@, at(lso, pos, 0))]
                          EXCEPT ![e].objects = remove_at(@, pos)]
        /\ locations' = locations
    <3> HIDE DEF w1, w2
    <3> QED
      BY <1>2, <2>1, <2>3, <2>5 DEF action_give, here, w1, w2
  <2> DEFINE word == w1.word
  <2>7. pos = object_position(lso, word)
    OBVIOUS
  <2> HIDE DEF w1, w2, word, to_pos, to, lse, lso, lto, pos, p, q
  <2>8. PICK o \in Objects :
          /\ entities' \in EntityTables
          /\ \A x \in Entities : entities'[x].location = entities[x].location
          /\ object_moves(entities, locations, entities', locations', o, p, q)
    <3>1. CASE to # e
      <4>1. p # q
        BY <3>1 DEF p, q
      <4>2. PICK o \in Objects :
              /\ lso2 \in Lists(Objects, room_of(p)) /\ lto2 \in Lists(Objects, room_of(q))
              /\ place[o] = p
              /\ absent(lso2, o) /\ others_stay(lso, lso2, o)
              /\ once(lto2, o) /\ others_stay(lto, lto2, o)
        BY <2>1, <2>5, <2>6, <2>7, <4>1, FromListToList DEF lso, lto
      <4>3. \A x \in Entities :
              /\ entities'[x].location = entities[x].location
              /\ entities'[x].objects = IF x = e THEN lso2 ELSE IF x = to THEN lto2
                                        ELSE entities[x].objects
        BY <2>1, <2>4, <2>5, <2>6, <3>1 DEF EntityTables
      <4> HIDE DEF lso2, lto2
      <4>4. entities' \in EntityTables
        <5>1. DOMAIN entities' = Entities /\ entities' = [x \in Entities |-> entities'[x]]
          BY <2>1, <2>6 DEF EntityTables
        <5>2. \A x \in Entities : entities'[x] = [location |-> entities'[x].location,
                                                  objects  |-> entities'[x].objects]
          BY <2>1, <2>4, <2>6 DEF EntityTables
        <5>3. \A x \in Entities : /\ entities'[x].location \in Locations
                                  /\ entities'[x].objects \in Lists(Objects, entity_max_objects)
          BY <2>1, <2>5, <4>2, <4>3, TableTypes
        <5>4. \A x \in Entities : entities'[x] \in [location : Locations,
                                                    objects : Lists(Objects, entity_max_objects)]
          <6> TAKE x \in Entities
          <6> DEFINE l == entities'[x].location
                     b == entities'[x].objects
          <6>1. l \in Locations /\ b \in Lists(Objects, entity_max_objects)
            BY <5>3
          <6>2. entities'[x] = [location |-> l, objects |-> b]
            BY <5>2
          <6> HIDE DEF l, b
          <6> QED
            BY <6>1, <6>2
        <5> QED
          BY <5>1, <5>4 DEF EntityTables
      <4>5. /\ list_in(entities', locations', p) = lso2
            /\ list_in(entities', locations', q) = lto2
            /\ \A r \in Places \ {p, q} :
                 list_in(entities', locations', r) = list_in(entities, locations, r)
        <5>1. \A r \in Places \ {p, q} :
                list_in(entities', locations', r) = list_in(entities, locations, r)
          <6>1. \A x \in Entities \ {e, to} : entities'[x].objects = entities[x].objects
            BY <4>3
          <6>2. \A r \in Places \ {p, q} :
                  list_in(entities', locations, r) = list_in(entities, locations, r)
            <7> TAKE r \in Places \ {p, q}
            <7>1. r[1] = "entity" => r[2] \in Entities \ {e, to}
              BY PlaceNames DEF p, q
            <7> QED
              BY <6>1, <7>1 DEF list_in
          <6> QED
            BY <2>6, <6>2
        <5> QED
          BY <2>1, <2>4, <3>1, <4>3, <5>1, PlaceNames DEF p, q
      <4>6. object_moves(entities, locations, entities', locations', o, p, q)
        BY <4>2, <4>5 DEF lso, lto, object_moves, place
      <4> QED
        BY <4>3, <4>4, <4>6
    <3>2. CASE to = e
      <4>1. p = q /\ lto = lso
        BY <3>2 DEF p, q, lso, lto
      <4>2. PICK o \in Objects : /\ pos \in 0 .. lso.len - 1 /\ o = at(lso, pos, 0)
                                 /\ o = lso.data[pos] /\ o # 0
                                 /\ once(lso, o) /\ place[o] = p
        BY <2>1, <2>6, <2>7, Named DEF lso
      <4>3. entity_max_objects \in Nat /\ lso \in Lists(Objects, entity_max_objects)
            /\ ~is_full(lso, entity_max_objects)
        BY <2>1, <2>5, <2>6, <4>1, TableTypes, Sizes
      <4>4. /\ remove_at(add(lso, o), pos) \in Lists(Objects, entity_max_objects)
            /\ once(remove_at(add(lso, o), pos), o)
            /\ \A x : x # o =>
                 /\ once(lso, x)   => once(remove_at(add(lso, o), pos), x)
                 /\ absent(lso, x) => absent(remove_at(add(lso, o), pos), x)
        BY <4>2, <4>3, MovedToEnd
      <4>5. both = remove_at(add(lso, o), pos)
        BY <4>2
      <4>6. \A x \in Entities :
              /\ entities'[x].location = entities[x].location
              /\ entities'[x].objects = IF x = e THEN both ELSE entities[x].objects
        BY <2>1, <2>6, <3>2 DEF EntityTables
      <4> HIDE DEF both
      <4>7. entities' \in EntityTables
        <5>1. entities' = [entities EXCEPT ![e].objects = both]
          BY <2>1, <2>6, <3>2 DEF EntityTables, both
        <5> QED
          BY <2>1, <4>4, <4>5, <5>1 DEF EntityTables
      <4>8. /\ list_in(entities', locations', p) = both
            /\ \A r \in Places \ {p, q} :
                 list_in(entities', locations', r) = list_in(entities, locations, r)
        <5>1. \A r \in Places \ {p, q} :
                list_in(entities', locations', r) = list_in(entities, locations, r)
          <6>1. \A x \in Entities \ {e, to} : entities'[x].objects = entities[x].objects
            BY <4>6
          <6>2. \A r \in Places \ {p, q} :
                  list_in(entities', locations, r) = list_in(entities, locations, r)
            <7> TAKE r \in Places \ {p, q}
            <7>1. r[1] = "entity" => r[2] \in Entities \ {e, to}
              BY PlaceNames DEF p, q
            <7> QED
              BY <6>1, <7>1 DEF list_in
          <6> QED
            BY <2>6, <6>2
        <5> QED
          BY <2>1, <4>6, <5>1, PlaceNames DEF p
      <4>9. object_moves(entities, locations, entities', locations', o, p, q)
        BY <4>1, <4>2, <4>4, <4>5, <4>8 DEF lso, others_stay, object_moves, place
      <4> QED
        BY <4>6, <4>7, <4>9
    <3> QED
      BY <3>1, <3>2
  <2>9. InOrder' /\ W!Move(p, q)
    BY <2>1, <2>5, <2>6, <2>8, ObjectMoves DEF lto
  <2>10. \A x \in Entities : [y \in Entities |-> entities[y].location][x] = entities[x].location
    OBVIOUS
  <2> QED
    BY <2>1, <2>4, <2>9, <2>10 DEF W!Give, W!entity_at, p, q
<1> QED
  BY <1>1, <1>2

\* An exit of a kind is found at one of the exits, or behind the last one.
LEMMA LinkPosition ==
  ASSUME NEW lid \in Locations, NEW link_id
  PROVE  link_position(lid, link_id) \in 1 .. Len(exits[lid]) + 1
<1> DEFINE x == exits[lid]
           n == Len(x) + 1
           S == {i \in 1 .. n : i <= Len(x) => x[i].link = link_id}
<1>1. x \in Seq([link : 1 .. 4, location : Locations])
  BY AdventureAssumption
<1>2. Len(x) \in Nat
  BY <1>1
<1> HIDE DEF x
<1>3. n \in S /\ S \subseteq Nat
  BY <1>2
<1>4. PICK i \in S : \A j \in S : i <= j
  <2> HIDE DEF S, n
  <2> QED
    BY <1>3, Least
<1>5. i \in 1 .. n /\ (i <= Len(x) => x[i].link = link_id)
  BY <1>4
<1>6. ASSUME NEW j \in 1 .. i - 1 PROVE x[j].link # link_id
  <2>1. j \in 1 .. n /\ j < i /\ j <= Len(x)
    BY <1>2, <1>5
  <2>2. j \notin S
    BY <1>3, <1>4, <2>1
  <2> QED
    BY <2>1, <2>2
<1> QED
  BY <1>5, <1>6 DEF link_position, x

\* What a sequence over a set holds is in the set.
LEMMA InSequence ==
  ASSUME NEW S, NEW x \in Seq(S), NEW i \in 1 .. Len(x)
  PROVE  DOMAIN x = 1 .. Len(x) /\ x[i] \in S
OBVIOUS

\* An element that is listed is found, at its first position.
LEMMA FirstOf ==
  ASSUME NEW l, l.len \in Nat, NEW i \in 0 .. l.len - 1, NEW e, l.data[i] = e
  PROVE  position(l, {e}) \in 0 .. i /\ l.data[position(l, {e})] = e
<1> DEFINE p == position(l, {e})
<1>1. /\ p \in 0 .. l.len
      /\ p < l.len => l.data[p] \in {e}
      /\ \A j \in 0 .. p - 1 : l.data[j] \notin {e}
  BY Position
<1> HIDE DEF p
<1>2. ~(i \in 0 .. p - 1)
  BY <1>1
<1>3. p \in 0 .. i
  BY <1>1, <1>2
<1> QED
  BY <1>1, <1>3 DEF p

\* remove() takes out an element that is listed once, also when it was just added again.
LEMMA RemovedWhereListed ==
  ASSUME NEW Size \in Nat, NEW E, NEW l \in Lists(E, Size), NEW e \in E, e # 0, once(l, e)
  PROVE  /\ remove(l, e) \in Lists(E, Size) /\ absent(remove(l, e), e)
         /\ \A x : x # e => /\ once(l, x)   => once(remove(l, e), x)
                            /\ absent(l, x) => absent(remove(l, e), x)
         /\ ~is_full(l, Size) =>
              /\ remove(add(l, e), e) \in Lists(E, Size) /\ once(remove(add(l, e), e), e)
              /\ \A x : x # e => /\ once(l, x)   => once(remove(add(l, e), e), x)
                                 /\ absent(l, x) => absent(remove(add(l, e), e), x)
<1>1. l.len \in Nat
  BY ListTypes
<1>2. PICK i \in 0 .. l.len - 1 : occurrences(l, e) = {i} /\ l.data[i] = e
  BY DEF once, occurrences
<1> DEFINE p == position(l, {e})
           a == add(l, e)
           q == position(a, {e})
<1>3. p \in 0 .. l.len - 1 /\ l.data[p] = e
  BY <1>1, <1>2, FirstOf
<1>4. remove(l, e) = remove_at(l, p)
  BY DEF remove
<1> HIDE DEF p
<1>5. /\ remove_at(l, p) \in Lists(E, Size) /\ absent(remove_at(l, p), e)
      /\ \A x : x # e => /\ once(l, x)   => once(remove_at(l, p), x)
                         /\ absent(l, x) => absent(remove_at(l, p), x)
  BY <1>3, RemovedOnce
<1>6. ASSUME ~is_full(l, Size)
      PROVE  /\ remove(a, e) \in Lists(E, Size) /\ once(remove(a, e), e)
             /\ \A x : x # e => /\ once(l, x)   => once(remove(a, e), x)
                                /\ absent(l, x) => absent(remove(a, e), x)
  <2>1. /\ a.len = l.len + 1
        /\ \A k \in 0 .. l.len : a.data[k] = IF k = l.len THEN e ELSE l.data[k]
    BY <1>6, Added
  <2>2. a.len \in Nat /\ i \in 0 .. a.len - 1 /\ a.data[i] = e
    BY <1>1, <1>2, <2>1
  <2> HIDE DEF a
  <2>3. q \in 0 .. i /\ a.data[q] = e
    BY <2>2, FirstOf
  <2>4. q \in 0 .. l.len - 1 /\ l.data[q] = e
    BY <1>1, <2>1, <2>3
  <2>5. remove(a, e) = remove_at(a, q)
    BY DEF remove
  <2> HIDE DEF q
  <2> QED
    BY <1>6, <2>4, <2>5, MovedToEnd DEF a
<1> QED
  BY <1>4, <1>5, <1>6

\* action_go moves the entity through an exit to a location with room, or nothing.
LEMMA GoMoves ==
  ASSUME InOrder, active_entity \in Entities, NEW link_id, action_go(active_entity, link_id)
  PROVE  InOrder' /\ (W!Go \/ W!Stay)
<1> DEFINE e    == active_entity
           from == entities[active_entity].location
           pos  == link_position(from, link_id)
           to   == exits[from][pos].location
           lf   == locations[from].entities
           lt   == locations[to].entities
           lf2  == remove(lf, e)
           lt2  == add(lt, e)
           both == remove(add(lf, e), e)
           Size == location_max_entities
<1>1. CASE nothing_moves
  BY <1>1, Stays
<1>2. CASE ~nothing_moves
  <2>1. /\ entities \in EntityTables /\ locations \in LocationTables
        /\ objects_in_one_place(entities, locations)
        /\ entities_where_they_say(entities, locations)
        /\ e \in Entities /\ e # 0 /\ from \in Locations /\ Size \in Nat
    BY TableTypes, Sizes, AdventureAssumption DEF InOrder, in_order
  <2>2. /\ ~(pos > Len(exits[from])) /\ ~is_full(lt, Size)
        /\ locations' = [[locations EXCEPT ![to].entities = add(@, e)]
                           EXCEPT ![from].entities = remove(@, e)]
        /\ entities' = [entities EXCEPT ![e].location = to]
    BY <1>2 DEF action_go
  <2>3. exits[from] \in Seq([link : 1 .. 4, location : Locations])
    BY <2>1, AdventureAssumption
  <2>4. pos \in 1 .. Len(exits[from])
    <3> DEFINE n == Len(exits[from])
    <3>1. pos \in 1 .. n + 1
      BY <2>1, LinkPosition DEF pos
    <3>2. n \in Nat
      BY <2>3
    <3>3. ~(pos > n)
      BY <2>2
    <3> HIDE DEF n, pos
    <3>4. pos \in 1 .. n
      BY <3>1, <3>2, <3>3
    <3> QED
      BY <3>4 DEF n
  <2>5. to \in Locations /\ to \in {exits[from][i].location : i \in DOMAIN exits[from]}
    <3> DEFINE x == exits[from]
    <3>1. x \in Seq([link : 1 .. 4, location : Locations]) /\ pos \in 1 .. Len(x)
      BY <2>3, <2>4
    <3> HIDE DEF pos, x
    <3>2. DOMAIN x = 1 .. Len(x) /\ x[pos] \in [link : 1 .. 4, location : Locations]
      BY <3>1, InSequence
    <3>3. x[pos].location \in Locations
      BY <3>2
    <3>4. x[pos].location \in {x[i].location : i \in DOMAIN x}
      BY <3>1, <3>2
    <3> QED
      BY <3>3, <3>4 DEF x
  <2> HIDE DEF pos, to, from
  <2>6. /\ lf \in Lists(Entities, Size) /\ lt \in Lists(Entities, Size)
        /\ once(lf, e) /\ (to # from => absent(lt, e))
    BY <2>1, <2>5, TableTypes DEF entities_where_they_say, from
  <2> HIDE DEF Size
  <2>7. \A x \in Entities : /\ entities'[x].location = IF x = e THEN to ELSE entities[x].location
                            /\ entities'[x].objects = entities[x].objects
    BY <2>1, <2>2 DEF EntityTables
  <2>8. entities' \in EntityTables
    BY <2>1, <2>2, <2>5 DEF EntityTables
  <2>9. /\ locations' \in LocationTables
        /\ \A l \in Locations : locations'[l].objects = locations[l].objects
        /\ \A l \in Locations : \A x \in Entities :
             IF entities'[x].location = l THEN once(locations'[l].entities, x)
                                          ELSE absent(locations'[l].entities, x)
    <3>1. CASE to = from
      <4>1. locations' = [locations EXCEPT ![from].entities = both]
        BY <2>1, <2>2, <3>1 DEF LocationTables
      <4>2. /\ both \in Lists(Entities, Size) /\ once(both, e)
            /\ \A x : x # e => /\ once(lf, x)   => once(both, x)
                               /\ absent(lf, x) => absent(both, x)
        <5> HIDE DEF lf
        <5>1. ~is_full(lf, Size)
          BY <2>2, <3>1 DEF lf
        <5> QED
          BY <2>1, <2>6, <5>1, RemovedWhereListed
      <4> HIDE DEF both
      <4>3. locations' \in LocationTables
        BY <2>1, <4>1, <4>2 DEF LocationTables, Size
      <4>4. \A l \in Locations :
              /\ locations'[l].objects = locations[l].objects
              /\ locations'[l].entities = IF l = from THEN both ELSE locations[l].entities
        BY <2>1, <4>1 DEF LocationTables
      <4>5. ASSUME NEW l \in Locations, NEW x \in Entities
            PROVE  IF entities'[x].location = l THEN once(locations'[l].entities, x)
                                                ELSE absent(locations'[l].entities, x)
        <5>1. entities'[x].location = entities[x].location
          BY <2>7, <3>1 DEF from
        <5>2. IF entities[x].location = l THEN once(locations[l].entities, x)
                                          ELSE absent(locations[l].entities, x)
          BY <2>1 DEF entities_where_they_say
        <5>3. CASE l = from
          BY <4>2, <4>4, <5>1, <5>2, <5>3 DEF from
        <5>4. CASE l # from
          BY <4>4, <5>1, <5>2, <5>4
        <5> QED
          BY <5>3, <5>4
      <4> QED
        BY <4>3, <4>4, <4>5
    <3>2. CASE to # from
      <4>1. /\ lf2 \in Lists(Entities, Size) /\ absent(lf2, e)
            /\ \A x : x # e => /\ once(lf, x)   => once(lf2, x)
                               /\ absent(lf, x) => absent(lf2, x)
        <5> HIDE DEF lf
        <5> QED
          BY <2>1, <2>6, RemovedWhereListed
      <4>2. /\ lt2 \in Lists(Entities, Size) /\ once(lt2, e)
            /\ \A x : x # e => /\ once(lt, x)   => once(lt2, x)
                               /\ absent(lt, x) => absent(lt2, x)
        <5> HIDE DEF lt
        <5> QED
          BY <2>1, <2>2, <2>6, <3>2, AddedOnce
      <4>3. locations' = [[locations EXCEPT ![to].entities = lt2] EXCEPT ![from].entities = lf2]
        BY <2>1, <2>2, <2>5, <3>2 DEF LocationTables
      <4> HIDE DEF lf2, lt2
      <4>4. [locations EXCEPT ![to].entities = lt2] \in LocationTables
        BY <2>1, <2>5, <4>2 DEF LocationTables, Size
      <4>5. locations' \in LocationTables
        BY <2>1, <4>1, <4>3, <4>4 DEF LocationTables, Size
      <4>6. \A l \in Locations :
              /\ locations'[l].objects = locations[l].objects
              /\ locations'[l].entities = IF l = from THEN lf2 ELSE IF l = to THEN lt2
                                          ELSE locations[l].entities
        BY <2>1, <2>5, <3>2, <4>3 DEF LocationTables
      <4>7. ASSUME NEW l \in Locations, NEW x \in Entities
            PROVE  IF entities'[x].location = l THEN once(locations'[l].entities, x)
                                                ELSE absent(locations'[l].entities, x)
        <5>1. IF entities[x].location = l THEN once(locations[l].entities, x)
                                          ELSE absent(locations[l].entities, x)
          BY <2>1 DEF entities_where_they_say
        <5>2. e = x => entities[x].location = from
          BY DEF from
        <5>3. entities'[x].location = IF x = e THEN to ELSE entities[x].location
          BY <2>7
        <5>4. CASE l = from
          BY <3>2, <4>1, <4>6, <5>1, <5>2, <5>3, <5>4
        <5>5. CASE l = to
          BY <3>2, <4>2, <4>6, <5>1, <5>2, <5>3, <5>5
        <5>6. CASE l # from /\ l # to
          BY <4>6, <5>1, <5>2, <5>3, <5>6
        <5> QED
          BY <5>4, <5>5, <5>6
      <4> QED
        BY <4>5, <4>6, <4>7
    <3> QED
      BY <3>1, <3>2
  <2>10. entities_where_they_say(entities', locations')
    BY <2>9 DEF entities_where_they_say
  <2>11. \A r \in Places : list_in(entities', locations', r) = list_in(entities, locations, r)
    <3> TAKE r \in Places
    <3> QED
      BY <2>7, <2>9, PlaceNames DEF list_in
  <2>12. /\ objects_in_one_place(entities', locations')
         /\ place_in(entities', locations') = place_in(entities, locations)
    BY <2>1, <2>11 DEF objects_in_one_place, place_in
  <2>13. InOrder'
    BY <2>8, <2>9, <2>10, <2>12 DEF InOrder, in_order
  <2>14. Cardinality({x \in Entities : entities[x].location = to}) < Size - 1
    <3> DEFINE S == {x \in Entities : entities[x].location = to}
    <3>1. lt.len \in 0 .. Size - 1 /\ lt.len < Size - 1
      <4>1. lt.len \in 0 .. Size - 1
        BY <2>1, <2>6, ListTypes
      <4> QED
        BY <2>1, <2>2, <4>1 DEF is_full
    <3>2. S \subseteq elements(lt)
      <4> SUFFICES ASSUME NEW x \in S PROVE x \in elements(lt)
        OBVIOUS
      <4>1. once(lt, x)
        BY <2>1, <2>5 DEF entities_where_they_say
      <4>2. ~absent(lt, x)
        BY <4>1 DEF once, absent
      <4> QED
        BY <3>1, <4>2, Elements
    <3> HIDE DEF S, lt
    <3>3. IsFiniteSet(S) /\ Cardinality(S) <= lt.len
      BY <2>1, <2>6, <3>2, ElementsFit
    <3>4. Cardinality(S) \in Nat
      BY <3>3, FS_CardinalityType
    <3>5. Cardinality(S) < Size - 1
      BY <2>1, <3>1, <3>3, <3>4
    <3> QED
      BY <3>5 DEF S
  <2>15. W!Go
    <3> DEFINE where == [x \in Entities |-> entities[x].location]
    <3>1. where' = [where EXCEPT ![e] = to]
      BY <2>1, <2>7
    <3>2. where[active_entity] = from /\ \A x \in Entities : where[x] = entities[x].location
      BY DEF from
    <3>3. {x \in Entities : where[x] = to} = {x \in Entities : entities[x].location = to}
      OBVIOUS
    <3>4. to \in [l \in Locations |-> {exits[l][i].location : i \in DOMAIN exits[l]}][where[active_entity]]
      BY <2>1, <2>5, <3>2
    <3>5. W!Cardinality({x \in Entities : where[x] = to}) < location_max_entities - 1
      BY <2>14, <3>3, SameCardinality DEF Size
    <3>6. place' = place
      BY <2>12 DEF place
    <3> QED
      BY <3>1, <3>4, <3>5, <3>6 DEF W!Go
  <2> QED
    BY <2>13, <2>15
<1> QED
  BY <1>1, <1>2

-----------------------------------------------------------------------------
(* The words of a line, for strings of any characters. *)

\* There is a first bad position in a list of n, or none.
LEMMA FirstBad ==
  ASSUME NEW n \in Nat, NEW Bad
  PROVE  \E pos \in 1 .. n + 1 : /\ pos <= n => pos \in Bad
                                 /\ \A i \in 1 .. pos - 1 : i \notin Bad
<1> DEFINE S == {i \in 1 .. n + 1 : i <= n => i \in Bad}
<1>1. n + 1 \in S /\ S \subseteq Nat
  OBVIOUS
<1>2. PICK pos \in S : \A j \in S : pos <= j
  <2> HIDE DEF S
  <2> QED
    BY <1>1, Least
<1>3. pos \in 1 .. n + 1 /\ (pos <= n => pos \in Bad)
  BY <1>2
<1>4. ASSUME NEW i \in 1 .. pos - 1 PROVE i \notin Bad
  <2>1. i \in 1 .. n + 1 /\ i < pos
    BY <1>3
  <2>2. i \notin S
    BY <1>1, <1>2, <2>1
  <2> QED
    BY <2>1, <2>2
<1> QED
  BY <1>3, <1>4

\* where the first word of a string ends, and where the next one begins
blank == " "

end_of_word(str) == CHOOSE pos \in 1 .. Len(str) + 1 :
                      /\ pos <= Len(str) => str[pos] = blank
                      /\ \A i \in 1 .. pos - 1 : str[i] # blank
next_word(str)   == CHOOSE pos \in 1 .. Len(str) + 1 :
                      /\ pos <= Len(str) => str[pos] # blank
                      /\ \A i \in 1 .. pos - 1 : str[i] = blank

\* string_next_word in terms of the two positions.
LEMMA NextWordIs ==
  ASSUME NEW str
  PROVE  LET rem == SubSeq(str, end_of_word(str), Len(str))
         IN string_next_word(str) = [word |-> SubSeq(str, 1, end_of_word(str) - 1),
                                     rem  |-> SubSeq(rem, next_word(rem), Len(rem))]
BY DEF string_next_word, for_each_until_false, subspan_ending_at, subspan_starting_at,
       end_of_word, next_word, blank

\* The first word ends at the first blank, or with the string.
LEMMA EndOfWord ==
  ASSUME NEW str, Len(str) \in Nat
  PROVE  /\ end_of_word(str) \in 1 .. Len(str) + 1
         /\ end_of_word(str) <= Len(str) => str[end_of_word(str)] = blank
         /\ \A i \in 1 .. end_of_word(str) - 1 : str[i] # blank
<1> DEFINE Bad == {i \in 1 .. Len(str) : str[i] = blank}
<1>1. PICK pos \in 1 .. Len(str) + 1 : /\ pos <= Len(str) => pos \in Bad
                                       /\ \A i \in 1 .. pos - 1 : i \notin Bad
  <2> HIDE DEF Bad
  <2> QED
    BY FirstBad
<1>2. /\ pos <= Len(str) => str[pos] = blank
      /\ \A i \in 1 .. pos - 1 : str[i] # blank
  BY <1>1
<1> QED
  BY <1>2 DEF end_of_word

\* The next word begins at the first character that is not a blank.
LEMMA NextWord ==
  ASSUME NEW str, Len(str) \in Nat
  PROVE  /\ next_word(str) \in 1 .. Len(str) + 1
         /\ next_word(str) <= Len(str) => str[next_word(str)] # blank
         /\ \A i \in 1 .. next_word(str) - 1 : str[i] = blank
<1> DEFINE Bad == {i \in 1 .. Len(str) : str[i] # blank}
<1>1. PICK pos \in 1 .. Len(str) + 1 : /\ pos <= Len(str) => pos \in Bad
                                       /\ \A i \in 1 .. pos - 1 : i \notin Bad
  <2> HIDE DEF Bad
  <2> QED
    BY FirstBad
<1>2. /\ pos <= Len(str) => str[pos] # blank
      /\ \A i \in 1 .. pos - 1 : str[i] = blank
  BY <1>1
<1> QED
  BY <1>2 DEF next_word

\* string_equals_cstr is equality.
LEMMA EqualsIs ==
  ASSUME NEW S, NEW str \in Seq(S), NEW s \in Seq(S)
  PROVE  string_equals_cstr(str, s) <=> str = s
<1> DEFINE Bad == {i \in 1 .. Len(str) : ~(i <= Len(s) /\ s[i] = str[i])}
           stop == CHOOSE pos \in 1 .. Len(str) + 1 :
                     /\ pos <= Len(str) => ~(pos <= Len(s) /\ s[pos] = str[pos])
                     /\ \A i \in 1 .. pos - 1 : i <= Len(s) /\ s[i] = str[i]
<1>1. Len(str) \in Nat /\ Len(s) \in Nat
  OBVIOUS
<1>2. PICK p \in 1 .. Len(str) + 1 : /\ p <= Len(str) => p \in Bad
                                     /\ \A i \in 1 .. p - 1 : i \notin Bad
  <2> HIDE DEF Bad
  <2> QED
    BY <1>1, FirstBad
<1>3. /\ p <= Len(str) => ~(p <= Len(s) /\ s[p] = str[p])
      /\ \A i \in 1 .. p - 1 : i <= Len(s) /\ s[i] = str[i]
  BY <1>1, <1>2
<1>4. /\ stop \in 1 .. Len(str) + 1
      /\ stop <= Len(str) => ~(stop <= Len(s) /\ s[stop] = str[stop])
      /\ \A i \in 1 .. stop - 1 : i <= Len(s) /\ s[i] = str[i]
  <2> HIDE DEF Bad
  <2> QED
    BY <1>3
<1>5. string_equals_cstr(str, s) <=> stop = Len(s) + 1 /\ stop = Len(str) + 1
  BY DEF string_equals_cstr
<1> HIDE DEF stop, Bad
<1>6. ASSUME stop = Len(s) + 1, stop = Len(str) + 1 PROVE str = s
  BY <1>1, <1>4, <1>6
<1>7. ASSUME str = s PROVE stop = Len(s) + 1 /\ stop = Len(str) + 1
  BY <1>1, <1>4, <1>7
<1> QED
  BY <1>5, <1>6, <1>7

\* The characters of a part of a string.
LEMMA SubString ==
  ASSUME NEW S, NEW str \in Seq(S), NEW m \in 1 .. Len(str) + 1, NEW n \in 0 .. Len(str), m <= n + 1
  PROVE  /\ SubSeq(str, m, n) \in Seq(S) /\ Len(SubSeq(str, m, n)) = n + 1 - m
         /\ \A i \in 1 .. n + 1 - m : SubSeq(str, m, n)[i] = str[m + i - 1]
<1>1. \A i \in 1 .. Len(str) : str[i] \in S
  OBVIOUS
<1>2. Len(str) \in Nat
  OBVIOUS
<1>3. \A i \in m .. n : str[i] \in S
  BY <1>1, <1>2
<1>4. /\ SubSeq(str, m, n) \in Seq(S)
      /\ Len(SubSeq(str, m, n)) = IF m <= n THEN n - m + 1 ELSE 0
      /\ \A i \in 1 .. n - m + 1 : SubSeq(str, m, n)[i] = str[m + i - 1]
  BY <1>2, <1>3, SubSeqProperties
<1>5. Len(SubSeq(str, m, n)) = n + 1 - m
  BY <1>2, <1>4
<1>6. n - m + 1 = n + 1 - m
  BY <1>2
<1> QED
  BY <1>4, <1>5, <1>6

\* The first word of a string and what follows the blanks behind it, by their
\* positions: the word ends at c, n - 1 blanks are behind it.
LEMMA NextWordAt ==
  ASSUME NEW S, NEW str \in Seq(S)
  PROVE  \E c \in 1 .. Len(str) + 1, n \in 1 .. Len(str) + 1 :
           LET w == string_next_word(str)
           IN /\ w.word \in Seq(S) /\ Len(w.word) = c - 1
              /\ \A i \in 1 .. c - 1 : w.word[i] = str[i] /\ str[i] # blank
              /\ c <= Len(str) => str[c] = blank /\ n > 1
              /\ \A i \in 1 .. n - 1 : c + i - 1 <= Len(str) /\ str[c + i - 1] = blank
              /\ w.rem \in Seq(S) /\ Len(w.rem) = Len(str) + 2 - c - n
              /\ \A i \in 1 .. Len(w.rem) : w.rem[i] = str[c + n + i - 2]
              /\ Len(w.rem) > 0 => w.rem[1] # blank
<1> DEFINE c   == end_of_word(str)
           r   == SubSeq(str, c, Len(str))
           n   == next_word(r)
           w   == SubSeq(str, 1, c - 1)
           rem == SubSeq(r, n, Len(r))
<1>0. Len(str) \in Nat
  OBVIOUS
<1>1. string_next_word(str) = [word |-> w, rem |-> rem]
  BY NextWordIs
<1>2. /\ c \in 1 .. Len(str) + 1 /\ (c <= Len(str) => str[c] = blank)
      /\ \A i \in 1 .. c - 1 : str[i] # blank
  BY <1>0, EndOfWord
<1> HIDE DEF c
<1>3. /\ w \in Seq(S) /\ Len(w) = c - 1 /\ \A i \in 1 .. c - 1 : w[i] = str[i]
  <2>1. c - 1 \in 0 .. Len(str) /\ 1 \in 1 .. Len(str) + 1 /\ 1 <= (c - 1) + 1
    BY <1>0, <1>2
  <2>2. /\ w \in Seq(S) /\ Len(w) = (c - 1) + 1 - 1
        /\ \A i \in 1 .. (c - 1) + 1 - 1 : w[i] = str[1 + i - 1]
    BY <2>1, SubString
  <2> QED
    BY <1>2, <2>2
<1>4. /\ r \in Seq(S) /\ Len(r) = Len(str) + 1 - c
      /\ \A i \in 1 .. Len(str) + 1 - c : r[i] = str[c + i - 1]
  <2>1. Len(str) \in 0 .. Len(str) /\ c <= Len(str) + 1
    BY <1>0, <1>2
  <2> QED
    BY <1>2, <2>1, SubString
<1> HIDE DEF w, r
<1>5. Len(r) \in Nat
  BY <1>4
<1>6. /\ n \in 1 .. Len(r) + 1 /\ (n <= Len(r) => r[n] # blank)
      /\ \A i \in 1 .. n - 1 : r[i] = blank
  BY <1>5, NextWord
<1> HIDE DEF n
<1>7. /\ rem \in Seq(S) /\ Len(rem) = Len(r) + 1 - n
      /\ \A i \in 1 .. Len(r) + 1 - n : rem[i] = r[n + i - 1]
  <2>1. Len(r) \in 0 .. Len(r) /\ n <= Len(r) + 1
    BY <1>5, <1>6
  <2> QED
    BY <1>4, <1>6, <2>1, SubString
<1> HIDE DEF rem
<1>8. n \in 1 .. Len(str) + 1 /\ Len(rem) = Len(str) + 2 - c - n
  BY <1>0, <1>2, <1>4, <1>6, <1>7
<1>9. c <= Len(str) => n > 1
  <2> SUFFICES ASSUME c <= Len(str) PROVE n # 1
    BY <1>6
  <2>1. r[1] = str[c] /\ 1 <= Len(r)
    BY <1>0, <1>2, <1>4
  <2> QED
    BY <1>2, <1>6, <2>1
<1>10. \A i \in 1 .. n - 1 : c + i - 1 <= Len(str) /\ str[c + i - 1] = blank
  <2> TAKE i \in 1 .. n - 1
  <2>1. i \in 1 .. Len(str) + 1 - c
    BY <1>0, <1>2, <1>4, <1>6
  <2>2. r[i] = str[c + i - 1] /\ r[i] = blank
    BY <1>4, <1>6, <2>1
  <2>3. c + i - 1 <= Len(str)
    BY <1>0, <1>2, <2>1
  <2> QED
    BY <2>2, <2>3
<1>11. \A i \in 1 .. Len(rem) : rem[i] = str[c + n + i - 2]
  <2> TAKE i \in 1 .. Len(rem)
  <2>1. i \in 1 .. Len(r) + 1 - n /\ n + i - 1 \in 1 .. Len(str) + 1 - c
    BY <1>0, <1>2, <1>4, <1>6, <1>7
  <2>2. rem[i] = r[n + i - 1] /\ r[n + i - 1] = str[c + (n + i - 1) - 1]
    BY <1>4, <1>7, <2>1
  <2>3. c + (n + i - 1) - 1 = c + n + i - 2
    BY <1>0, <1>2, <1>6, <2>1
  <2> QED
    BY <2>2, <2>3
<1>12. Len(rem) > 0 => rem[1] # blank
  <2> SUFFICES ASSUME Len(rem) > 0 PROVE rem[1] # blank
    OBVIOUS
  <2>1. 1 \in 1 .. Len(r) + 1 - n /\ n <= Len(r) /\ n + 1 - 1 = n
    BY <1>5, <1>6, <1>7
  <2>2. rem[1] = r[n]
    BY <1>7, <2>1
  <2> QED
    BY <1>6, <2>1, <2>2
<1>13. string_next_word(str).word = w /\ string_next_word(str).rem = rem
  BY <1>1
<1> QED
  BY <1>2, <1>3, <1>7, <1>8, <1>9, <1>10, <1>11, <1>12, <1>13

\* a string of characters without a blank that is not empty
a_word(S, word) == /\ word \in Seq(S) /\ Len(word) \in Nat /\ Len(word) > 0 /\ word # <<>>
                   /\ \A i \in 1 .. Len(word) : word[i] # blank

\* A string of one character.
LEMMA OneLetter ==
  ASSUME NEW S, NEW ch \in S
  PROVE  <<ch>> \in Seq(S) /\ Len(<<ch>>) = 1 /\ <<ch>>[1] = ch
OBVIOUS

\* Two strings are the same if they are as long and have the same characters.
LEMMA SameString ==
  ASSUME NEW S, NEW s \in Seq(S), NEW t \in Seq(S), Len(s) = Len(t),
         \A i \in 1 .. Len(s) : s[i] = t[i]
  PROVE  s = t
OBVIOUS

\* The word and the rest that string_next_word returns make up the line again, for
\* every line: it loses nothing but the blanks between them.
THEOREM WordsMakeUp ==
  ASSUME NEW S, NEW str \in Seq(S)
  PROVE  makes_up(string_next_word(str), str)
<1> DEFINE w   == string_next_word(str)
           gap == Len(str) - Len(w.word) - Len(w.rem)
           bs  == [k \in 1 .. gap |-> " "]
<1>0. Len(str) \in Nat
  OBVIOUS
<1>1. PICK c \in 1 .. Len(str) + 1, n \in 1 .. Len(str) + 1 :
        /\ w.word \in Seq(S) /\ Len(w.word) = c - 1
        /\ \A i \in 1 .. c - 1 : w.word[i] = str[i] /\ str[i] # blank
        /\ c <= Len(str) => str[c] = blank /\ n > 1
        /\ \A i \in 1 .. n - 1 : c + i - 1 <= Len(str) /\ str[c + i - 1] = blank
        /\ w.rem \in Seq(S) /\ Len(w.rem) = Len(str) + 2 - c - n
        /\ \A i \in 1 .. Len(w.rem) : w.rem[i] = str[c + n + i - 2]
        /\ Len(w.rem) > 0 => w.rem[1] # blank
  BY NextWordAt
<1>2. bs = [k \in 1 .. gap |-> blank]
  BY DEF blank
<1> HIDE DEF w, bs
<1>3. gap = n - 1 /\ gap \in Nat
  BY <1>0, <1>1
<1> HIDE DEF gap
<1>4. bs \in Seq(S) /\ Len(bs) = gap /\ \A k \in 1 .. gap : bs[k] = blank
  <2>1. ASSUME gap > 0 PROVE blank \in S
    <3>1. c \in 1 .. Len(str) /\ str[c] = blank
      BY <1>0, <1>1, <1>3, <2>1
    <3> QED
      BY <3>1
  <2>2. /\ \A k \in 1 .. gap : blank \in S
        /\ bs = [k \in 1 .. gap |-> blank]
    BY <1>2, <1>3, <2>1
  <2>3. bs \in [1 .. gap -> S] /\ \A k \in 1 .. gap : bs[k] = blank
    BY <2>2
  <2>4. bs \in Seq(S) /\ Len(bs) = gap
    BY <1>3, <2>3
  <2> QED
    BY <2>3, <2>4
<1>5. /\ w.word \o bs \in Seq(S) /\ Len(w.word \o bs) = c - 1 + gap
      /\ \A i \in 1 .. c - 1 + gap :
           (w.word \o bs)[i] = IF i <= c - 1 THEN w.word[i] ELSE bs[i - (c - 1)]
  <2> DEFINE u == w.word
  <2>1. u \in Seq(S) /\ Len(u) = c - 1
    BY <1>1
  <2> HIDE DEF u
  <2>2. /\ u \o bs \in Seq(S) /\ Len(u \o bs) = Len(u) + Len(bs)
        /\ \A i \in 1 .. Len(u) + Len(bs) :
             (u \o bs)[i] = IF i <= Len(u) THEN u[i] ELSE bs[i - Len(u)]
    BY <1>4, <2>1, ConcatProperties
  <2> QED
    BY <1>4, <2>1, <2>2 DEF u
<1> DEFINE whole == w.word \o bs \o w.rem
<1>6. /\ whole \in Seq(S) /\ Len(whole) = c - 1 + gap + Len(w.rem)
      /\ \A i \in 1 .. c - 1 + gap + Len(w.rem) :
           whole[i] = IF i <= c - 1 + gap THEN (w.word \o bs)[i] ELSE w.rem[i - (c - 1 + gap)]
  <2> DEFINE u == w.word \o bs
             v == w.rem
  <2>1. u \in Seq(S) /\ Len(u) = c - 1 + gap /\ v \in Seq(S)
    BY <1>1, <1>5
  <2> HIDE DEF u, v
  <2>2. /\ u \o v \in Seq(S) /\ Len(u \o v) = Len(u) + Len(v)
        /\ \A i \in 1 .. Len(u) + Len(v) :
             (u \o v)[i] = IF i <= Len(u) THEN u[i] ELSE v[i - Len(u)]
    BY <2>1, ConcatProperties
  <2> QED
    BY <2>1, <2>2 DEF u, v
<1> HIDE DEF whole
<1>7. Len(whole) = Len(str)
  BY <1>0, <1>1, <1>3, <1>6
<1>8. ASSUME NEW i \in 1 .. Len(str) PROVE whole[i] = str[i]
  <2>0. Len(w.rem) \in Nat /\ i \in 1 .. c - 1 + gap + Len(w.rem)
    BY <1>1, <1>6, <1>7
  <2>1. CASE i <= c - 1
    BY <1>1, <1>3, <1>5, <1>6, <2>0, <2>1
  <2>2. CASE c - 1 < i /\ i <= c - 1 + gap
    <3>1. i - (c - 1) \in 1 .. n - 1 /\ c + (i - (c - 1)) - 1 = i
      BY <1>1, <1>3, <2>2
    <3>2. str[i] = blank
      BY <1>1, <3>1
    <3>3. whole[i] = bs[i - (c - 1)]
      <4>1. whole[i] = (w.word \o bs)[i]
        BY <1>6, <2>0, <2>2
      <4>2. i \in 1 .. c - 1 + gap /\ ~(i <= c - 1)
        BY <1>1, <1>3, <2>2
      <4> QED
        BY <1>5, <4>1, <4>2
    <3> QED
      BY <1>3, <1>4, <3>1, <3>2, <3>3
  <2>3. CASE i > c - 1 + gap
    <3>1. i - (c - 1 + gap) \in 1 .. Len(w.rem) /\ c + n + (i - (c - 1 + gap)) - 2 = i
      BY <1>1, <1>3, <2>0, <2>3
    <3>2. whole[i] = w.rem[i - (c - 1 + gap)]
      BY <1>1, <1>3, <1>6, <2>0, <2>3
    <3> QED
      BY <1>1, <3>1, <3>2
  <2> QED
    BY <1>1, <1>3, <2>1, <2>2, <2>3
<1>9. str = whole
  BY <1>6, <1>7, <1>8, SameString
<1>10. w.rem # <<>> => gap > 0 /\ w.rem[1] # blank
  <2> SUFFICES ASSUME w.rem # <<>> PROVE gap > 0 /\ w.rem[1] # blank
    OBVIOUS
  <2>1. Len(w.rem) > 0
    BY <1>1
  <2>2. c <= Len(str)
    BY <1>0, <1>1, <2>1
  <2> QED
    BY <1>1, <1>3, <2>1, <2>2
<1>11. \A k \in 1 .. Len(w.word) : w.word[k] # blank
  BY <1>1
<1> QED
  BY <1>9, <1>10, <1>11 DEF makes_up, whole, w, gap, bs, blank

\* A word and a blank before another one: the word comes first, the other one is the rest.
LEMMA FirstWord ==
  ASSUME NEW S, blank \in S, NEW word, a_word(S, word), NEW rest \in Seq(S), rest # <<>>, rest[1] # blank
  PROVE  string_next_word(word \o <<blank>> \o rest) = [word |-> word, rem |-> rest]
<1> DEFINE str == word \o <<blank>> \o rest
           m   == Len(word)
           w   == string_next_word(str)
<1>0. /\ word \in Seq(S) /\ m \in Nat /\ \A i \in 1 .. m : word[i] # blank
      /\ <<blank>> \in Seq(S) /\ Len(<<blank>>) = 1 /\ <<blank>>[1] = blank
      /\ Len(rest) \in Nat /\ Len(rest) > 0
  BY EmptySeq, OneLetter DEF a_word
<1>1. /\ word \o <<blank>> \in Seq(S) /\ Len(word \o <<blank>>) = m + 1
      /\ \A i \in 1 .. m + 1 : (word \o <<blank>>)[i] = IF i <= m THEN word[i] ELSE blank
  <2>1. /\ word \o <<blank>> \in Seq(S) /\ Len(word \o <<blank>>) = m + 1
        /\ \A i \in 1 .. m + 1 : (word \o <<blank>>)[i] = IF i <= m THEN word[i] ELSE <<blank>>[i - m]
    BY <1>0, ConcatProperties
  <2> QED
    BY <1>0, <2>1
<1>2. /\ str \in Seq(S) /\ Len(str) = m + 1 + Len(rest)
      /\ \A i \in 1 .. m + 1 + Len(rest) :
           str[i] = IF i <= m + 1 THEN (word \o <<blank>>)[i] ELSE rest[i - (m + 1)]
  BY <1>0, <1>1, ConcatProperties
<1> HIDE DEF str, m
<1>3. /\ \A i \in 1 .. m : str[i] = word[i] /\ str[i] # blank
      /\ str[m + 1] = blank
      /\ \A i \in 1 .. Len(rest) : str[m + 1 + i] = rest[i]
  BY <1>0, <1>1, <1>2
<1>4. PICK c \in 1 .. Len(str) + 1, n \in 1 .. Len(str) + 1 :
        /\ w.word \in Seq(S) /\ Len(w.word) = c - 1
        /\ \A i \in 1 .. c - 1 : w.word[i] = str[i] /\ str[i] # blank
        /\ c <= Len(str) => str[c] = blank /\ n > 1
        /\ \A i \in 1 .. n - 1 : c + i - 1 <= Len(str) /\ str[c + i - 1] = blank
        /\ w.rem \in Seq(S) /\ Len(w.rem) = Len(str) + 2 - c - n
        /\ \A i \in 1 .. Len(w.rem) : w.rem[i] = str[c + n + i - 2]
        /\ Len(w.rem) > 0 => w.rem[1] # blank
  BY <1>2, NextWordAt
<1>5. w = [word |-> w.word, rem |-> w.rem]
  BY NextWordIs
<1> HIDE DEF w
<1>6. c = m + 1
  <2>1. ~(m + 1 \in 1 .. c - 1)
    BY <1>3, <1>4
  <2>2. ~(c \in 1 .. m)
    BY <1>0, <1>2, <1>3, <1>4
  <2>3. c \in Nat /\ c > 0 /\ m \in Nat
    BY <1>0, <1>2, <1>4 DEF m
  <2> QED
    BY <2>1, <2>2, <2>3
<1>7. n = 2
  <2>1. str[m + 2] # blank
    BY <1>0, <1>3
  <2>2. n > 1
    BY <1>0, <1>2, <1>4, <1>6
  <2>3. ~(2 \in 1 .. n - 1)
    <3>1. 2 \in 1 .. n - 1 => str[c + 2 - 1] = blank
      BY <1>4
    <3>2. c + 2 - 1 = m + 2
      BY <1>0, <1>6
    <3> QED
      BY <2>1, <3>1, <3>2
  <2> QED
    BY <1>4, <2>2, <2>3
<1>8. w.word = word
  <2>1. Len(w.word) = Len(word)
    BY <1>0, <1>4, <1>6 DEF m
  <2>2. \A i \in 1 .. Len(word) : w.word[i] = word[i]
    BY <1>0, <1>3, <1>4, <1>6 DEF m
  <2> QED
    BY <1>0, <1>4, <2>1, <2>2, SameString
<1>9. w.rem = rest
  <2>1. Len(w.rem) = Len(rest)
    BY <1>0, <1>2, <1>4, <1>6, <1>7
  <2>2. \A i \in 1 .. Len(rest) : w.rem[i] = rest[i]
    <3> TAKE i \in 1 .. Len(rest)
    <3>1. c + n + i - 2 = m + 1 + i
      BY <1>0, <1>6, <1>7
    <3>2. w.rem[i] = str[c + n + i - 2]
      BY <1>4, <2>1
    <3>3. str[m + 1 + i] = rest[i]
      BY <1>3
    <3> QED
      BY <3>1, <3>2, <3>3
  <2> QED
    BY <1>4, <2>1, <2>2, SameString
<1> QED
  BY <1>5, <1>8, <1>9 DEF w, str

\* A word alone.
LEMMA OnlyWord ==
  ASSUME NEW S, NEW word, a_word(S, word)
  PROVE  string_next_word(word) = [word |-> word, rem |-> <<>>]
<1> DEFINE w == string_next_word(word)
<1>0. /\ word \in Seq(S) /\ Len(word) \in Nat /\ \A i \in 1 .. Len(word) : word[i] # blank
  BY DEF a_word
<1>4. PICK c \in 1 .. Len(word) + 1, n \in 1 .. Len(word) + 1 :
        /\ w.word \in Seq(S) /\ Len(w.word) = c - 1
        /\ \A i \in 1 .. c - 1 : w.word[i] = word[i] /\ word[i] # blank
        /\ c <= Len(word) => word[c] = blank /\ n > 1
        /\ \A i \in 1 .. n - 1 : c + i - 1 <= Len(word) /\ word[c + i - 1] = blank
        /\ w.rem \in Seq(S) /\ Len(w.rem) = Len(word) + 2 - c - n
        /\ \A i \in 1 .. Len(w.rem) : w.rem[i] = word[c + n + i - 2]
        /\ Len(w.rem) > 0 => w.rem[1] # blank
  BY <1>0, NextWordAt
<1>5. w = [word |-> w.word, rem |-> w.rem]
  BY NextWordIs
<1> HIDE DEF w
<1>6. c = Len(word) + 1
  BY <1>0, <1>4
<1>7. w.word = word
  <2>1. Len(w.word) = Len(word) /\ \A i \in 1 .. Len(word) : w.word[i] = word[i]
    BY <1>0, <1>4, <1>6
  <2> QED
    BY <1>0, <1>4, <2>1, SameString
<1>8. w.rem = <<>>
  <2>1. Len(w.rem) = 0
    BY <1>0, <1>4, <1>6
  <2> QED
    BY <1>4, <2>1, EmptySeq
<1> QED
  BY <1>5, <1>7, <1>8 DEF w

-----------------------------------------------------------------------------
(* What a line does that names what is there. *)

\* the characters of the names and of the commands
letters == {"t", "d", "g", "n", "e", "s", "w"}
Chars   == STRING \cup {blank} \cup letters

\* The characters of the commands are among the characters.
LEMMA Letters ==
  /\ blank \in Chars /\ \A ch \in letters : ch \in Chars
  /\ STRING \subseteq Chars
BY DEF Chars

\* A command is a word.
LEMMA LetterIsWord ==
  ASSUME NEW ch \in letters
  PROVE  a_word(Chars, <<ch>>)
<1>1. ch # blank
  BY Zenon DEF letters, blank
<1>2. <<ch>> \in Seq(Chars) /\ Len(<<ch>>) = 1 /\ <<ch>>[1] = ch
  BY Letters, OneLetter
<1>3. <<ch>> # <<>>
  OBVIOUS
<1> QED
  BY <1>1, <1>2, <1>3 DEF a_word

\* A string is one over any larger set of characters.
LEMMA OfMoreCharacters ==
  ASSUME NEW S, NEW T, S \subseteq T, NEW str \in Seq(S)
  PROVE  str \in Seq(T)
<1>1. PICK n \in Nat : str \in [1 .. n -> S]
  BY SeqDef
<1>2. str \in [1 .. n -> T]
  BY <1>1
<1> QED
  BY <1>2

\* A name is a word.
LEMMA NameIsWord ==
  ASSUME NEW name, is_word(name)
  PROVE  a_word(Chars, name)
<1>1. name \in Seq(STRING) /\ name # <<>> /\ \A i \in 1 .. Len(name) : name[i] # blank
  BY Zenon DEF is_word, blank
<1>2. Len(name) \in Nat \ {0}
  BY <1>1, EmptySeq
<1>3. name \in Seq(Chars)
  <2> HIDE DEF Chars
  <2> QED
    BY <1>1, Letters, OfMoreCharacters
<1> QED
  BY <1>1, <1>2, <1>3 DEF a_word

\* The names of the tables are words.
LEMMA Names ==
  /\ \A o \in Objects : a_word(Chars, object_name[o])
  /\ \A e \in Entities : a_word(Chars, entity_name[e])
BY NamesAssumption, NameIsWord

\* A name is the name of one object, of one entity.
LEMMA OneHasTheName ==
  /\ \A o \in Objects :
       {id \in Objects : string_equals_cstr(object_name[o], object_name[id])} = {o}
  /\ \A e \in Entities :
       {id \in Entities : string_equals_cstr(entity_name[e], entity_name[id])} = {e}
<1>1. ASSUME NEW o \in Objects, NEW id \in Objects
      PROVE  string_equals_cstr(object_name[o], object_name[id]) <=> id = o
  <2>1. object_name[o] \in Seq(Chars) /\ object_name[id] \in Seq(Chars)
    BY Names DEF a_word
  <2>2. string_equals_cstr(object_name[o], object_name[id]) <=> object_name[o] = object_name[id]
    BY <2>1, EqualsIs
  <2>3. object_name[o] = object_name[id] => id = o
    BY NamesAssumption
  <2> QED
    BY <2>2, <2>3
<1>2. ASSUME NEW e \in Entities, NEW id \in Entities
      PROVE  string_equals_cstr(entity_name[e], entity_name[id]) <=> id = e
  <2>1. entity_name[e] \in Seq(Chars) /\ entity_name[id] \in Seq(Chars)
    BY Names DEF a_word
  <2>2. string_equals_cstr(entity_name[e], entity_name[id]) <=> entity_name[e] = entity_name[id]
    BY <2>1, EqualsIs
  <2>3. entity_name[e] = entity_name[id] => id = e
    BY NamesAssumption
  <2> QED
    BY <2>2, <2>3
<1>3. \A o \in Objects :
        {id \in Objects : string_equals_cstr(object_name[o], object_name[id])} = {o}
  BY <1>1
<1>4. \A e \in Entities :
        {id \in Entities : string_equals_cstr(entity_name[e], entity_name[id])} = {e}
  BY <1>2
<1> QED
  BY <1>3, <1>4

\* The one that is listed is found.
LEMMA Found ==
  ASSUME NEW l, l.len \in Nat, NEW e, ~absent(l, e)
  PROVE  /\ position(l, {e}) \in 0 .. l.len - 1 /\ l.data[position(l, {e})] = e
         /\ ~is_at_end(l, position(l, {e})) /\ at(l, position(l, {e}), 0) = e
<1>1. PICK i \in 0 .. l.len - 1 : l.data[i] = e
  BY DEF absent, occurrences
<1> DEFINE p == position(l, {e})
<1>2. p \in 0 .. i /\ l.data[p] = e
  BY <1>1, FirstOf
<1> HIDE DEF p
<1>3. p \in 0 .. l.len - 1
  BY <1>1, <1>2
<1>4. ~is_at_end(l, p) /\ at(l, p, 0) = e
  BY <1>2, <1>3 DEF is_at_end, at
<1> QED
  BY <1>2, <1>3, <1>4 DEF p

\* Two characters are one and then the other.
LEMMA Pair ==
  ASSUME NEW a, NEW b
  PROVE  <<a, b>> = <<a>> \o <<b>>
<1> DEFINE S == {a, b}
           s == <<a>>
           t == <<b>>
           u == <<a, b>>
<1>1. /\ s \in Seq(S) /\ t \in Seq(S) /\ Len(s) = 1 /\ Len(t) = 1 /\ s[1] = a /\ t[1] = b
      /\ u \in Seq(S) /\ Len(u) = 2 /\ u[1] = a /\ u[2] = b
  OBVIOUS
<1> HIDE DEF S, s, t, u
<1>2. /\ s \o t \in Seq(S) /\ Len(s \o t) = 2
      /\ \A i \in 1 .. 2 : (s \o t)[i] = IF i <= 1 THEN s[i] ELSE t[i - 1]
  <2>1. /\ s \o t \in Seq(S) /\ Len(s \o t) = Len(s) + Len(t)
        /\ \A i \in 1 .. Len(s) + Len(t) : (s \o t)[i] = IF i <= Len(s) THEN s[i] ELSE t[i - Len(s)]
    BY <1>1, ConcatProperties
  <2> QED
    BY <1>1, <2>1
<1>3. \A i \in 1 .. 2 : u[i] = (s \o t)[i]
  BY <1>1, <1>2
<1>4. u = s \o t
  BY <1>1, <1>2, <1>3, SameString
<1> QED
  BY <1>4 DEF s, t, u

\* The fields of what string_next_word returns.
LEMMA Fields ==
  ASSUME NEW w, NEW word, NEW rem, w = [word |-> word, rem |-> rem]
  PROVE  w.word = word /\ w.rem = rem
OBVIOUS

\* A line of a command and what follows it.
LEMMA CommandAnd ==
  ASSUME NEW ch \in letters, NEW rest \in Seq(Chars), rest # <<>>, rest[1] # blank,
         NEW line, line = <<ch, " ">> \o rest
  PROVE  string_next_word(line).word = <<ch>> /\ string_next_word(line).rem = rest
<1>1. blank \in Chars /\ a_word(Chars, <<ch>>)
  BY Letters, LetterIsWord
<1>2. string_next_word(<<ch>> \o <<blank>> \o rest) = [word |-> <<ch>>, rem |-> rest]
  BY <1>1, FirstWord
<1>3. <<ch, blank>> = <<ch>> \o <<blank>>
  BY Pair, Zenon
<1>4. line = <<ch, blank>> \o rest
  BY Zenon DEF blank
<1>5. string_next_word(line) = [word |-> <<ch>>, rem |-> rest]
  BY <1>2, <1>3, <1>4, Zenon
<1> QED
  BY <1>5, Fields, Zenon

\* The words behind g, taken together.
LEMMA GiveLine ==
  ASSUME NEW on, a_word(Chars, on), NEW rn, a_word(Chars, rn)
  PROVE  <<"g", blank>> \o on \o <<blank>> \o rn
           = <<"g", blank>> \o (on \o <<blank>> \o rn)
<1> DEFINE g == <<"g", blank>>
           b == <<blank>>
<1>1. "g" \in Chars /\ blank \in Chars
  BY Letters DEF letters
<1> HIDE DEF Chars
<1>2. g \in Seq(Chars) /\ b \in Seq(Chars)
  BY <1>1
<1>3. on \in Seq(Chars) /\ rn \in Seq(Chars)
  BY DEF a_word
<1> HIDE DEF g, b
<1>4. g \o on \o b \o rn = g \o (on \o b \o rn)
  <2> DEFINE ob == on \o b
  <2>1. ob \in Seq(Chars)
    BY <1>2, <1>3, ConcatProperties
  <2>2. (g \o on) \o b = g \o ob
    BY <1>2, <1>3, ConcatAssociative
  <2> HIDE DEF ob
  <2>3. (g \o ob) \o rn = g \o (ob \o rn)
    <3>1. g \in Seq(Chars) /\ ob \in Seq(Chars) /\ rn \in Seq(Chars)
      BY <1>2, <1>3, <2>1
    <3> QED
      BY <3>1, ConcatAssociative
  <2> QED
    BY <2>2, <2>3, Zenon DEF ob
<1> QED
  BY <1>4 DEF g, b

\* Two words with a blank between them, as an argument of g.
LEMMA TwoWords ==
  ASSUME NEW on, a_word(Chars, on), NEW rn, a_word(Chars, rn)
  PROVE  LET args == on \o <<blank>> \o rn
         IN /\ args \in Seq(Chars) /\ args # <<>> /\ args[1] # blank
            /\ string_next_word(args).word = on /\ string_next_word(args).rem = rn
            /\ string_next_word(rn).word = rn
            /\ <<"g", " ">> \o on \o <<" ">> \o rn = <<"g", " ">> \o args
<1> DEFINE b  == <<blank>>
           ob == on \o b
<1>1. /\ on \in Seq(Chars) /\ on[1] # blank /\ Len(on) \in Nat /\ Len(on) > 0
      /\ rn \in Seq(Chars) /\ rn # <<>> /\ rn[1] # blank /\ Len(rn) \in Nat
  BY DEF a_word
<1>2. blank \in Chars /\ b \in Seq(Chars) /\ Len(b) = 1
  BY Letters, OneLetter
<1>3. string_next_word(on \o <<blank>> \o rn) = [word |-> on, rem |-> rn]
  BY <1>1, <1>2, FirstWord
<1> HIDE DEF b
<1>4. ob \in Seq(Chars) /\ Len(ob) = Len(on) + 1 /\ ob[1] = on[1]
  <2>1. /\ ob \in Seq(Chars) /\ Len(ob) = Len(on) + Len(b)
        /\ \A i \in 1 .. Len(on) + Len(b) : ob[i] = IF i <= Len(on) THEN on[i] ELSE b[i - Len(on)]
    BY <1>1, <1>2, ConcatProperties
  <2> QED
    BY <1>1, <1>2, <2>1
<1> HIDE DEF ob
<1>5. ob \o rn \in Seq(Chars) /\ Len(ob \o rn) > 0 /\ (ob \o rn)[1] = on[1]
  <2>1. /\ ob \o rn \in Seq(Chars) /\ Len(ob \o rn) = Len(ob) + Len(rn)
        /\ \A i \in 1 .. Len(ob) + Len(rn) :
             (ob \o rn)[i] = IF i <= Len(ob) THEN ob[i] ELSE rn[i - Len(ob)]
    BY <1>1, <1>4, ConcatProperties
  <2> QED
    BY <1>1, <1>4, <2>1
<1>6. ob \o rn # <<>>
  BY <1>5, EmptySeq
<1>7. <<"g", " ">> \o on \o <<" ">> \o rn = <<"g", " ">> \o (ob \o rn)
  <2>1. <<"g", blank>> \o on \o b \o rn = <<"g", blank>> \o (on \o b \o rn)
    BY GiveLine, Zenon DEF b
  <2> QED
    BY <2>1, Zenon DEF ob, b, blank
<1>8. on \o <<blank>> \o rn = ob \o rn
  BY DEF ob, b
<1>9. /\ string_next_word(on \o <<blank>> \o rn).word = on
      /\ string_next_word(on \o <<blank>> \o rn).rem = rn
  <2> DEFINE w == string_next_word(on \o <<blank>> \o rn)
  <2>1. w = [word |-> on, rem |-> rn]
    BY <1>3
  <2> HIDE DEF w
  <2>2. w.word = on /\ w.rem = rn
    BY <2>1
  <2> QED
    BY <2>2 DEF w
<1>10. string_next_word(rn).word = rn
  <2> DEFINE w == string_next_word(rn)
  <2>1. w = [word |-> rn, rem |-> <<>>]
    BY OnlyWord
  <2> HIDE DEF w
  <2>2. w.word = rn
    BY <2>1
  <2> QED
    BY <2>2 DEF w
<1> QED
  BY <1>1, <1>5, <1>6, <1>7, <1>8, <1>9, <1>10, Zenon

\* Commands of one letter are compared by their letters.
LEMMA LettersDiffer ==
  ASSUME NEW c1 \in letters, NEW c2 \in letters
  PROVE  string_equals_cstr(<<c1>>, <<c2>>) <=> c1 = c2
<1>1. <<c1>> \in Seq(Chars) /\ <<c2>> \in Seq(Chars)
  BY LetterIsWord DEF a_word
<1>2. string_equals_cstr(<<c1>>, <<c2>>) <=> <<c1>> = <<c2>>
  BY <1>1, EqualsIs
<1> QED
  BY <1>2

\* The commands to go are letters of their own, one for each kind of exit.
LEMMA GoLetters ==
  /\ \A link_id \in 1 .. 4 : \E ch \in letters \ {"t", "d", "g"} : go_command[link_id] = <<ch>>
  /\ \A i, j \in 1 .. 4 : go_command[i] = go_command[j] => i = j
BY DEF go_command, letters

\* Which command a first word is.
LEMMA WhichCommand ==
  ASSUME NEW eid, NEW line, NEW ch \in letters, string_next_word(line).word = <<ch>>,
         handle_input(eid, line)
  PROVE  /\ ch = "t" => action_take(eid, string_next_word(line).rem)
         /\ ch = "g" => action_give(eid, string_next_word(line).rem)
         /\ \A link_id \in 1 .. 4 : go_command[link_id] = <<ch>> => action_go(eid, link_id)
<1> DEFINE Is(s) == string_equals_cstr(string_next_word(line).word, s)
           rem   == string_next_word(line).rem
<1>1. \A c2 \in letters : Is(<<c2>>) <=> ch = c2
  BY LettersDiffer
<1>2. \A link_id \in 1 .. 4 : Is(go_command[link_id]) <=> go_command[link_id] = <<ch>>
  BY <1>1, GoLetters
<1>3. \/ Is(<<"t">>) /\ action_take(eid, rem)
      \/ Is(<<"d">>) /\ action_drop(eid, rem)
      \/ Is(<<"g">>) /\ action_give(eid, rem)
      \/ \E link_id \in 1 .. 4 : Is(go_command[link_id]) /\ action_go(eid, link_id)
      \/ \A cmd \in {<<"t">>, <<"d">>, <<"g">>} \cup {go_command[i] : i \in 1 .. 4} : ~Is(cmd)
  BY Zenon DEF handle_input
<1>4. "t" \in letters /\ "d" \in letters /\ "g" \in letters
  BY DEF letters
<1> HIDE DEF Is, rem
<1>5. /\ Is(<<"t">>) <=> ch = "t"
      /\ Is(<<"d">>) <=> ch = "d"
      /\ Is(<<"g">>) <=> ch = "g"
  BY <1>1, <1>4
<1>6. \A link_id \in 1 .. 4 : go_command[link_id] = <<ch>> => ch \notin {"t", "d", "g"}
  BY GoLetters
<1>7. \A i, j \in 1 .. 4 : go_command[i] = <<ch>> /\ go_command[j] = <<ch>> => i = j
  BY GoLetters
<1>8. ch = "t" => action_take(eid, rem)
  BY <1>2, <1>3, <1>5, <1>6
<1>9. ch = "g" => action_give(eid, rem)
  BY <1>2, <1>3, <1>5, <1>6
<1>10. ASSUME NEW link_id \in 1 .. 4, go_command[link_id] = <<ch>>
       PROVE  action_go(eid, link_id)
  <2>1. Is(go_command[link_id]) /\ ch \notin {"t", "d", "g"}
    BY <1>2, <1>6, <1>10
  <2>2. PICK j \in 1 .. 4 : Is(go_command[j]) /\ action_go(eid, j)
    BY <1>3, <1>5, <2>1
  <2>3. j = link_id
    BY <1>2, <1>7, <1>10, <2>2
  <2> QED
    BY <2>2, <2>3
<1> QED
  BY <1>8, <1>9, <1>10 DEF rem

\* A word begins with a character that is not a blank.
LEMMA WordBegins ==
  ASSUME NEW S, NEW word, a_word(S, word)
  PROVE  word \in Seq(S) /\ word # <<>> /\ word[1] # blank
BY DEF a_word

\* the object that a name names in the list it is in
LEMMA NameFound ==
  ASSUME InOrder, NEW o \in Objects, NEW p \in Places, place[o] = p
  PROVE  LET l   == list_in(entities, locations, p)
             pos == object_position(l, object_name[o])
         IN l.len \in Nat /\ ~is_at_end(l, pos) /\ at(l, pos, 0) = o
<1> DEFINE l == list_in(entities, locations, p)
<1>1. /\ objects_in_one_place(entities, locations)
      /\ entities \in EntityTables /\ locations \in LocationTables
  BY DEF InOrder, in_order
<1>2. room_of(p) \in Nat /\ l.len \in 0 .. room_of(p) - 1
  BY <1>1, TableTypes
<1>3. once(l, o)
  BY <1>1, PlaceOf DEF place
<1> HIDE DEF l
<1>4. l.len \in Nat /\ ~absent(l, o)
  BY <1>2, <1>3 DEF once, absent
<1>5. object_position(l, object_name[o]) = position(l, {o})
  BY OneHasTheName DEF object_position
<1>6. ~is_at_end(l, position(l, {o})) /\ at(l, position(l, {o}), 0) = o
  BY <1>4, Found
<1> QED
  BY <1>4, <1>5, <1>6 DEF l

\* what has been added to a list is in its place
LEMMA InItsPlace ==
  ASSUME NEW ents, NEW locs, in_order(ents, locs), NEW o \in Objects, NEW p \in Places,
         ~absent(list_in(ents, locs, p), o)
  PROVE  place_in(ents, locs)[o] = p
BY PlaceOf DEF in_order

\* An object that was added to the list of an entity is in it.
LEMMA AddedIsIn ==
  ASSUME NEW l \in Lists(Objects, entity_max_objects), ~is_full(l, entity_max_objects),
         NEW o \in Objects
  PROVE  ~absent(add(l, o), o)
<1>1. o # 0 /\ entity_max_objects \in Nat
  BY AdventureAssumption, Sizes
<1>2. occurrences(add(l, o), o) = occurrences(l, o) \cup {l.len}
  BY <1>1, Added
<1> QED
  BY <1>2 DEF absent

\* Where the lists of the active entity and of its location are.
LEMMA ActiveLists ==
  ASSUME InOrder, active_entity \in Entities
  PROVE  LET lid == entities[active_entity].location
         IN /\ lid \in Locations /\ <<"location", lid>> \in Places
            /\ list_in(entities, locations, <<"location", lid>>) = locations[lid].objects
            /\ <<"entity", active_entity>> \in Places
            /\ list_in(entities, locations, <<"entity", active_entity>>)
                 = entities[active_entity].objects
            /\ locations[lid].entities \in Lists(Entities, location_max_entities)
            /\ locations[lid].entities.len \in Nat
<1>1. entities \in EntityTables /\ locations \in LocationTables
  BY DEF InOrder, in_order
<1> DEFINE lid == entities[active_entity].location
<1>2. lid \in Locations
  BY <1>1, TableTypes
<1> HIDE DEF lid
<1>3. locations[lid].entities \in Lists(Entities, location_max_entities)
  BY <1>1, <1>2, TableTypes
<1>4. locations[lid].entities.len \in Nat
  BY <1>3, Sizes, ListTypes
<1> QED
  BY <1>2, <1>3, <1>4, PlaceNames DEF lid

\* An object that an entity has got is in the place of the entity.
LEMMA GotIt ==
  ASSUME NEW ents, NEW locs, in_order(ents, locs), NEW r \in Entities, NEW o \in Objects,
         entities \in EntityTables, entity_has_room(r),
         ents[r].objects = add(entities[r].objects, o)
  PROVE  place_in(ents, locs)[o] = <<"entity", r>>
<1> DEFINE l == entities[r].objects
           q == <<"entity", r>>
<1>1. l \in Lists(Objects, entity_max_objects)
  BY DEF EntityTables
<1>2. q \in Places /\ list_in(ents, locs, q) = add(l, o)
  BY PlaceNames
<1>3. ~is_full(l, entity_max_objects)
  BY DEF entity_has_room
<1> HIDE DEF l, q
<1>4. ~absent(list_in(ents, locs, q), o)
  BY <1>1, <1>2, <1>3, AddedIsIn
<1>5. place_in(ents, locs)[o] = q
  BY <1>2, <1>4, InItsPlace
<1> QED
  BY <1>5 DEF q

\* "t" and a name of an object carry out action_take of that name.
LEMMA TakeCommand ==
  ASSUME NEW e, NEW o \in Objects, handle_input(e, <<"t", " ">> \o object_name[o])
  PROVE  action_take(e, object_name[o])
<1> DEFINE name == object_name[o]
           line == <<"t", " ">> \o name
<1>1. name \in Seq(Chars) /\ name # <<>> /\ name[1] # blank
  BY Names, WordBegins
<1>2. "t" \in letters
  BY DEF letters
<1>3. handle_input(e, line)
  BY Zenon DEF line, name
<1> HIDE DEF name
<1>4. string_next_word(line).word = <<"t">> /\ string_next_word(line).rem = name
  BY <1>1, <1>2, CommandAnd
<1> HIDE DEF line
<1>5. action_take(e, name)
  BY <1>2, <1>3, <1>4, WhichCommand
<1> QED
  BY <1>5 DEF name

\* action_take of an object that is at the location brings it to the entity if that has
\* room.
LEMMA TakeWorks ==
  ASSUME InOrder, active_entity \in Entities, NEW o \in Objects,
         place[o] = <<"location", entities[active_entity].location>>,
         entity_has_room(active_entity),
         action_take(active_entity, object_name[o])
  PROVE  place'[o] = <<"entity", active_entity>>
<1> DEFINE e    == active_entity
           name == object_name[o]
           lid  == entities[active_entity].location
           lso  == locations[lid].objects
           pos  == object_position(lso, name)
<1>1. entities \in EntityTables
  BY DEF InOrder, in_order
<1>2. name # <<>>
  BY Names, WordBegins
<1>3. ~is_at_end(lso, pos) /\ at(lso, pos, 0) = o
  <2> DEFINE p == <<"location", lid>>
  <2>1. p \in Places /\ list_in(entities, locations, p) = lso /\ place[o] = p
    BY ActiveLists
  <2> HIDE DEF p, lso
  <2> QED
    BY <2>1, NameFound
<1> HIDE DEF name, pos
<1>4. ~is_full(entities[e].objects, entity_max_objects)
  BY DEF entity_has_room
<1>5. entities' = [entities EXCEPT ![e].objects = add(@, o)]
  BY <1>2, <1>3, <1>4 DEF action_take, here, pos, name
<1>6. entities'[e].objects = add(entities[e].objects, o)
  BY <1>1, <1>5 DEF EntityTables
<1>7. in_order(entities', locations')
  BY TakeMoves DEF InOrder
<1>8. place_in(entities', locations')[o] = <<"entity", active_entity>>
  BY <1>1, <1>6, <1>7, GotIt
<1> QED
  BY <1>8 DEF place

\* "g", an object of the entity and the name of who is there bring it to them if they
\* have room.
LEMMA GiveWorks ==
  ASSUME InOrder, active_entity \in Entities, NEW o \in Objects, NEW r \in Entities,
         r # active_entity, entities[r].location = entities[active_entity].location,
         place[o] = <<"entity", active_entity>>, entity_has_room(r),
         handle_input(active_entity,
                      <<"g", " ">> \o object_name[o] \o <<" ">> \o entity_name[r])
  PROVE  place'[o] = <<"entity", r>>
<1> DEFINE e    == active_entity
           on   == object_name[o]
           rn   == entity_name[r]
           args == on \o <<blank>> \o rn
           line == <<"g", " ">> \o on \o <<" ">> \o rn
           lid  == entities[active_entity].location
           lse  == locations[lid].entities
           leo  == entities[e].objects
           lro  == entities[r].objects
           pos    == object_position(leo, on)
           to_pos == position(lse, {id \in Entities : string_equals_cstr(rn, entity_name[id])})
<1>1. entities \in EntityTables /\ entities_where_they_say(entities, locations)
  BY DEF InOrder, in_order
<1>2. a_word(Chars, on) /\ a_word(Chars, rn) /\ on # <<>> /\ rn # <<>>
  BY Names, WordBegins
<1>3. "g" \in letters
  BY DEF letters
<1>4. ~is_at_end(leo, pos) /\ at(leo, pos, 0) = o
  <2> DEFINE p == <<"entity", e>>
  <2>1. p \in Places /\ list_in(entities, locations, p) = leo /\ place[o] = p
    BY ActiveLists
  <2> HIDE DEF p, leo
  <2> QED
    BY <2>1, NameFound
<1>5. ~is_at_end(lse, to_pos) /\ at(lse, to_pos, 0) = r
  <2>1. to_pos = position(lse, {r})
    BY OneHasTheName
  <2>2. ~absent(lse, r)
    BY <1>1, ActiveLists DEF entities_where_they_say, once, absent
  <2>3. lse.len \in Nat
    BY ActiveLists
  <2> HIDE DEF lse, to_pos
  <2> QED
    BY <2>1, <2>2, <2>3, Found
<1> HIDE DEF on, rn
<1>6. /\ args \in Seq(Chars) /\ args # <<>> /\ args[1] # blank
      /\ string_next_word(args).word = on /\ string_next_word(args).rem = rn
      /\ string_next_word(rn).word = rn
      /\ line = <<"g", " ">> \o args
  BY <1>2, TwoWords, Zenon DEF args, line
<1>7. handle_input(e, line)
  BY Zenon DEF line, on, rn
<1> HIDE DEF args, line
<1>8. string_next_word(line).word = <<"g">> /\ string_next_word(line).rem = args
  BY <1>3, <1>6, CommandAnd
<1>9. action_give(e, args)
  BY <1>3, <1>7, <1>8, WhichCommand
<1> HIDE DEF pos, to_pos, lse
<1>10. ~is_full(lro, entity_max_objects)
  BY DEF entity_has_room
<1>11. entities' = [[entities EXCEPT ![r].objects = add(@, o)]
                      EXCEPT ![e].objects = remove_at(@, pos)]
  <2> DEFINE w1 == string_next_word(args)
             w2 == string_next_word(w1.rem)
  <2>1. w1.word = on /\ w2.word = rn
    BY <1>6
  <2>2. on # <<>> /\ rn # <<>>
    BY <1>2
  <2>3. \/ w1.word = <<>> \/ w2.word = <<>>
        \/ is_at_end(lse, to_pos) \/ is_at_end(leo, pos) \/ is_full(lro, entity_max_objects)
        \/ entities' = [[entities EXCEPT ![r].objects = add(@, o)]
                           EXCEPT ![e].objects = remove_at(@, pos)]
    <3> HIDE DEF w1, w2
    <3> QED
      BY <1>4, <1>5, <1>9, <2>1 DEF action_give, here, pos, to_pos, lse, w1, w2
  <2> HIDE DEF w1, w2
  <2> QED
    BY <1>4, <1>5, <1>10, <2>1, <2>2, <2>3
<1>12. entities'[r].objects = add(lro, o)
  BY <1>1, <1>11 DEF EntityTables
<1>13. in_order(entities', locations')
  BY <1>9, GiveMoves DEF InOrder
<1>14. place_in(entities', locations')[o] = <<"entity", r>>
  BY <1>1, <1>12, <1>13, GotIt
<1> QED
  BY <1>14 DEF place

\* The kind of an exit of a location is found where it is.
LEMMA ExitFound ==
  ASSUME NEW l \in Locations, NEW i \in DOMAIN exits[l]
  PROVE  /\ exits[l][i].link \in 1 .. 4
         /\ link_position(l, exits[l][i].link) = i
         /\ ~(i > Len(exits[l]))
<1> DEFINE x   == exits[l]
           n   == Len(x)
           lnk == x[i].link
<1>1. x \in Seq([link : 1 .. 4, location : Locations])
  BY AdventureAssumption
<1>2. n \in Nat /\ DOMAIN x = 1 .. n /\ i \in 1 .. n /\ x[i] \in [link : 1 .. 4, location : Locations]
  <2>1. i \in DOMAIN x
    OBVIOUS
  <2> DEFINE E == [link : 1 .. 4, location : Locations]
  <2>2. x \in Seq(E)
    BY <1>1
  <2> HIDE DEF x, E
  <2>3. Len(x) \in Nat /\ DOMAIN x = 1 .. Len(x)
    BY <2>2
  <2>4. x[i] \in E
    BY <2>1, <2>2, <2>3, InSequence
  <2> QED
    BY <2>1, <2>3, <2>4 DEF E
<1>3. lnk \in 1 .. 4 /\ ~(i > n)
  BY <1>2
<1>4. \A j \in 1 .. n : x[j].link = lnk => j = i
  BY <1>2, NamesAssumption
<1>5. link_position(l, lnk) = CHOOSE k \in 1 .. n + 1 : /\ k <= n => x[k].link = lnk
                                                        /\ \A j \in 1 .. k - 1 : x[j].link # lnk
  BY DEF link_position
<1> DEFINE first(k) == /\ k <= n => x[k].link = lnk
                       /\ \A j \in 1 .. k - 1 : x[j].link # lnk
<1>6. i \in 1 .. n + 1 /\ first(i)
  <2>1. \A j \in 1 .. i - 1 : j \in 1 .. n /\ j # i
    BY <1>2
  <2> QED
    BY <1>2, <1>4, <2>1
<1>7. \A k \in 1 .. n + 1 : first(k) => k = i
  <2> SUFFICES ASSUME NEW k \in 1 .. n + 1, first(k), k # i PROVE FALSE
    OBVIOUS
  <2>1. CASE k <= n
    <3>1. k \in 1 .. n /\ x[k].link = lnk
      BY <1>2, <2>1
    <3> QED
      BY <1>4, <3>1
  <2>2. CASE k = n + 1
    <3>1. i \in 1 .. k - 1
      BY <1>2, <2>2
    <3> QED
      BY <3>1
  <2> QED
    BY <1>2, <2>1, <2>2
<1> HIDE DEF x, n, lnk, first
<1>8. (CHOOSE k \in 1 .. n + 1 : first(k)) = i
  BY <1>6, <1>7
<1>9. link_position(l, lnk) = i
  BY <1>5, <1>8 DEF first
<1> QED
  BY <1>3, <1>9 DEF x, n, lnk

\* The letter of an exit carries out action_go of that kind of exit.
LEMMA GoCommand ==
  ASSUME NEW e, NEW link_id \in 1 .. 4, handle_input(e, go_command[link_id])
  PROVE  action_go(e, link_id)
<1>1. PICK ch \in letters : go_command[link_id] = <<ch>>
  BY GoLetters
<1>2. string_next_word(<<ch>>) = [word |-> <<ch>>, rem |-> <<>>]
  BY LetterIsWord, OnlyWord
<1> DEFINE line == go_command[link_id]
<1>3. string_next_word(line).word = <<ch>>
  BY <1>1, <1>2, Fields, Zenon
<1>4. handle_input(e, line)
  OBVIOUS
<1> HIDE DEF line
<1> QED
  BY <1>1, <1>3, <1>4, WhichCommand

\* action_go of an exit of the location brings the entity to where it leads unless it is
\* full there.
LEMMA GoWorks ==
  ASSUME InOrder, active_entity \in Entities,
         NEW i \in DOMAIN exits[entities[active_entity].location],
         ~is_full(locations[exits[entities[active_entity].location][i].location].entities,
                  location_max_entities),
         action_go(active_entity, exits[entities[active_entity].location][i].link)
  PROVE  entities'[active_entity].location
           = exits[entities[active_entity].location][i].location
<1> DEFINE e    == active_entity
           from == entities[e].location
           to   == exits[from][i].location
<1>1. entities \in EntityTables
  BY DEF InOrder, in_order
<1>2. from \in Locations
  BY ActiveLists
<1>3. /\ link_position(from, exits[from][i].link) = i
      /\ ~(i > Len(exits[from]))
  BY <1>2, ExitFound
<1>4. entities' = [entities EXCEPT ![e].location = to]
  BY <1>3 DEF action_go
<1> HIDE DEF to
<1>5. entities'[e].location = to
  BY <1>1, <1>4 DEF EntityTables
<1> QED
  BY <1>5 DEF to


-----------------------------------------------------------------------------
(* The steps and the theorems. *)

Inv == ObjectInOnePlace /\ EntityWhereItSays /\ ToldAsItIs

\* The invariant in its parts.
LEMMA InvParts == Inv <=> /\ InOrder /\ ToldAsItIs /\ active_entity \in Entities
                          /\ pc \in {"print_location", "input"}
BY DEF Inv, ObjectInOnePlace, EntityWhereItSays, TypeOK, InOrder, in_order

\* The invariant holds at the start.
LEMMA Starts == Init => Inv
BY WorldAssumption, AdventureAssumption, InvParts DEF Init, InOrder, ToldAsItIs

\* what is printed is what the tables say of the place
LEMMA Printed ==
  ASSUME InOrder, active_entity \in Entities, Prompt
  PROVE  ToldAsItIs'
<1> DEFINE lid == entities[active_entity].location
           p   == <<"location", lid>>
           le  == locations[lid].entities
<1>1. /\ entities \in EntityTables /\ locations \in LocationTables
      /\ objects_in_one_place(entities, locations)
      /\ entities_where_they_say(entities, locations)
      /\ lid \in Locations /\ p \in Places
      /\ list_in(entities, locations, p) = locations[lid].objects
      /\ le \in Lists(Entities, location_max_entities) /\ location_max_entities \in Nat
  BY TableTypes, PlaceNames, Sizes DEF InOrder, in_order
<1>2. /\ told'.location = lid
      /\ told'.objects = elements(locations[lid].objects)
      /\ told'.entities = elements(le) \ {active_entity}
      /\ UNCHANGED <<entities, locations, active_entity>>
  BY DEF Prompt, print_location
<1>3. elements(locations[lid].objects) = {o \in Objects : place[o] = p}
  <2>1. elements(list_in(entities, locations, p)) = {o \in Objects : place[o] = p}
    <3> HIDE DEF p
    <3> QED
      BY <1>1, ElementsOfPlace DEF place
  <2> QED
    BY <1>1, <2>1
<1>4. elements(le) = {e \in Entities : entities[e].location = lid}
  <2>1. \A e \in elements(le) : e \in Entities
    BY <1>1, ListTypes DEF elements
  <2>2. \A e \in Entities : e \in elements(le) <=> entities[e].location = lid
    <3> TAKE e \in Entities
    <3>1. le.len \in Nat
      BY <1>1, ListTypes
    <3>2. e \in elements(le) <=> ~absent(le, e)
      BY <3>1, Elements
    <3>3. IF entities[e].location = lid THEN once(le, e) ELSE absent(le, e)
      BY <1>1 DEF entities_where_they_say
    <3>4. once(le, e) => ~absent(le, e)
      BY DEF once, absent
    <3> QED
      BY <3>2, <3>3, <3>4
  <2> QED
    BY <2>1, <2>2
<1>5. place' = place
  BY <1>2 DEF place
<1>6. told'.objects = {o \in Objects : place'[o] = <<"location", told'.location>>}
  BY <1>2, <1>3, <1>5
<1>7. told'.entities = {e \in Entities \ {active_entity'} : entities'[e].location = told'.location}
  BY <1>2, <1>4
<1> QED
  BY <1>2, <1>6, <1>7 DEF ToldAsItIs

\* Every step keeps the invariant and is a step of Whereabouts or none.
LEMMA Steps ==
  ASSUME Inv, [Next]_vars
  PROVE  Inv' /\ [W!Next]_(W!vars)
<1>1. /\ InOrder /\ ToldAsItIs /\ active_entity \in Entities
      /\ pc \in {"print_location", "input"}
  BY InvParts
<1> DEFINE Same == UNCHANGED <<entities, locations>>
<1>2. Same => InOrder' /\ place' = place
              /\ [e \in Entities |-> entities[e].location]' = [e \in Entities |-> entities[e].location]
  BY <1>1 DEF InOrder, place
<1>3. CASE UNCHANGED vars
  <2>1. Same /\ active_entity' = active_entity /\ pc' = pc /\ told' = told
    BY <1>3 DEF vars
  <2>2. ToldAsItIs'
    BY <1>1, <1>2, <2>1 DEF ToldAsItIs
  <2>3. Inv'
    BY <1>1, <1>2, <2>1, <2>2 DEF Inv, ObjectInOnePlace,
         EntityWhereItSays, TypeOK, InOrder, in_order
  <2> QED
    BY <1>2, <2>1, <2>3 DEF W!vars
<1>4. CASE Prompt
  <2>1. Same /\ active_entity' = active_entity /\ pc' = "input"
    BY <1>4 DEF Prompt
  <2>2. Inv'
    BY <1>1, <1>2, <1>4, <2>1, Printed DEF Inv, ObjectInOnePlace,
         EntityWhereItSays, TypeOK, InOrder, in_order
  <2> QED
    BY <1>2, <2>1, <2>2 DEF W!vars
<1>5. ASSUME NEW line \in Lines, Command(line)
      PROVE  Inv' /\ W!Next
  <2>1. InOrder' /\ (W!Take \/ W!Drop \/ W!Give \/ W!Go \/ W!Stay)
    <3> DEFINE rem == string_next_word(line).rem
    <3>1. \/ action_take(active_entity, rem)
          \/ action_drop(active_entity, rem)
          \/ action_give(active_entity, rem)
          \/ \E link_id \in 1 .. 4 : action_go(active_entity, link_id)
          \/ nothing_moves
      BY <1>5 DEF Command, handle_input
    <3> HIDE DEF rem
    <3> QED
      BY <1>1, <3>1, TakeMoves, DropMoves, GiveMoves, GoMoves, Stays
  <2>2. /\ active_entity' \in Entities /\ active_entity' # active_entity
        /\ pc' = "print_location"
    BY <1>1, <1>5, AdventureAssumption DEF Command
  <2>3. ToldAsItIs'
    BY <2>2 DEF ToldAsItIs
  <2>4. Inv'
    BY <2>1, <2>2, <2>3 DEF Inv, ObjectInOnePlace,
         EntityWhereItSays, TypeOK, InOrder, in_order
  <2> QED
    BY <2>1, <2>2, <2>4 DEF W!Next
<1> QED
  BY <1>3, <1>4, <1>5 DEF Next

\* The tables are in order after any commands and what is told is true.
THEOREM AdventureInvariant == Spec => []Inv
BY Starts, Steps, PTL DEF Spec

\* No command loses or doubles an object, whatever the lists refuse and whatever
\* they leave behind their ends.
THEOREM ObjectsInOnePlace == Spec => []ObjectInOnePlace
<1>1. Inv => ObjectInOnePlace
  BY DEF Inv
<1> QED
  BY <1>1, AdventureInvariant, PTL

\* An entity is in the list of the location it says it is at and in no other,
\* also after an exit that leads back to where it is.
THEOREM EntitiesWhereTheySay == Spec => []EntityWhereItSays
<1>1. Inv => EntityWhereItSays
  BY DEF Inv
<1> QED
  BY <1>1, AdventureInvariant, PTL

\* What print_location has shown is how things are when the line is typed.
THEOREM ToldIsTrue == Spec => []ToldAsItIs
<1>1. Inv => ToldAsItIs
  BY DEF Inv
<1> QED
  BY <1>1, AdventureInvariant, PTL

\* The tables move as Whereabouts allows: every command is one move by the entity
\* whose turn it is, within its reach and to where there is room, or none.
THEOREM AdventureIsWhereabouts == Spec => MovesAreLegal
<1>1. Inv => W!TypeOK
  <2> SUFFICES ASSUME Inv PROVE W!TypeOK
    OBVIOUS
  <2>1. InOrder /\ active_entity \in Entities
    BY InvParts
  <2>2. /\ entities \in EntityTables /\ locations \in LocationTables
        /\ objects_in_one_place(entities, locations)
    BY <2>1 DEF InOrder, in_order
  <2>3. place \in [Objects -> Places]
    <3>1. \A o \in Objects : place[o] \in Places
      BY <2>2, PlaceOf DEF place
    <3>2. place = [o \in Objects |-> place[o]]
      BY DEF place, place_in
    <3> QED
      BY <3>1, <3>2
  <2>4. W!Places = Places
    BY DEF W!Places, Places, W!entity_at, W!location_at
  <2>5. [e \in Entities |-> entities[e].location] \in [Entities -> Locations]
    BY <2>2, TableTypes
  <2> QED
    BY <2>1, <2>3, <2>4, <2>5 DEF W!TypeOK
<1>2. Init => W!TypeOK
  BY <1>1, Starts
<1>3. Inv /\ [Next]_vars => [W!Next]_(W!vars)
  BY Steps
<1> QED
  BY <1>2, <1>3, AdventureInvariant, PTL DEF Spec, MovesAreLegal, W!Spec

\* The exits that were told are those of the location.
LinksTold ==
  pc = "input" => told.links = [i \in DOMAIN exits[told.location] |-> exits[told.location][i].link]

\* The exits that were told stay those of the location as long as the line is waited
\* for.
LEMMA LinksStayTold ==
  /\ Init => LinksTold
  /\ LinksTold /\ [Next]_vars => LinksTold'
<1>1. Init => LinksTold
  BY DEF Init, LinksTold
<1>2. ASSUME LinksTold, [Next]_vars PROVE LinksTold'
  <2>1. CASE UNCHANGED vars
    BY <1>2, <2>1 DEF LinksTold, vars
  <2>2. CASE Prompt
    BY <2>2 DEF Prompt, print_location, LinksTold
  <2>3. ASSUME NEW line \in Lines, Command(line) PROVE LinksTold'
    <3>1. pc' = "print_location"
      BY <2>3 DEF Command
    <3> QED
      BY <3>1 DEF LinksTold
  <2> QED
    BY <1>2, <2>1, <2>2, <2>3 DEF Next
<1> QED
  BY <1>1, <1>2

\* A command hands its line to handle_input.
LEMMA CommandHandles ==
  ASSUME NEW line, Command(line)
  PROVE  handle_input(active_entity, line)
BY DEF Command

\* Where the invariant holds, a line that names what was shown does what it says.
LEMMA ToldWorks ==
  ASSUME Inv, LinksTold
  PROVE  told_works
<1>0. InOrder /\ ToldAsItIs /\ active_entity \in Entities
  BY InvParts
<1> SUFFICES ASSUME pc = "input" PROVE told_works
  BY DEF told_works
<1> DEFINE lid == entities[active_entity].location
<1>1. /\ told.location = lid
      /\ told.objects = {o \in Objects : place[o] = <<"location", told.location>>}
      /\ told.entities = {e \in Entities \ {active_entity} : entities[e].location = told.location}
      /\ told.links = [i \in DOMAIN exits[lid] |-> exits[lid][i].link]
  BY <1>0 DEF ToldAsItIs, LinksTold
<1> HIDE DEF lid
<1>2. ASSUME NEW o \in told.objects, entity_has_room(active_entity),
             Command(<<"t", " ">> \o object_name[o])
      PROVE  place'[o] = <<"entity", active_entity>>
  <2>1. o \in Objects /\ place[o] = <<"location", lid>>
    BY <1>1
  <2>2. action_take(active_entity, object_name[o])
    BY <1>2, <2>1, CommandHandles, TakeCommand, Zenon
  <2> QED
    BY <1>0, <1>2, <2>1, <2>2, TakeWorks, Zenon DEF lid
<1>3. ASSUME NEW o \in Objects, NEW e \in told.entities,
             place[o] = <<"entity", active_entity>>, entity_has_room(e),
             Command(<<"g", " ">> \o object_name[o] \o <<" ">> \o entity_name[e])
      PROVE  place'[o] = <<"entity", e>>
  <2>1. e \in Entities /\ e # active_entity /\ entities[e].location = entities[active_entity].location
    BY <1>1 DEF lid
  <2>2. handle_input(active_entity, <<"g", " ">> \o object_name[o] \o <<" ">> \o entity_name[e])
    BY <1>3, CommandHandles, Zenon
  <2> QED
    BY <1>0, <1>3, <2>1, <2>2, GiveWorks, Zenon
<1>4. ASSUME NEW i \in DOMAIN told.links,
             ~is_full(locations[exits[told.location][i].location].entities, location_max_entities),
             Command(go_command[told.links[i]])
      PROVE  entities'[active_entity].location = exits[told.location][i].location
  <2>1. i \in DOMAIN exits[lid] /\ told.links[i] = exits[lid][i].link
    BY <1>1
  <2>2. lid \in Locations
    BY <1>0, ActiveLists DEF lid
  <2>3. exits[lid][i].link \in 1 .. 4
    BY <2>1, <2>2, ExitFound
  <2>4. action_go(active_entity, exits[lid][i].link)
    BY <1>4, <2>1, <2>3, CommandHandles, GoCommand
  <2>5. ~is_full(locations[exits[lid][i].location].entities, location_max_entities)
    BY <1>1, <1>4
  <2>6. entities'[active_entity].location = exits[lid][i].location
    BY <1>0, <2>1, <2>4, <2>5, GoWorks DEF lid
  <2> QED
    BY <1>1, <2>6
<1> QED
  BY <1>2, <1>3, <1>4, Zenon DEF told_works

\* What is shown can be used: a command that is typed with the names that were
\* shown takes, gives or goes where it says, unless a list is full, whatever the
\* names are, as long as they are words and no two are the same.
THEOREM ToldThingsWork == Spec => WhatIsToldWorks
<1>1. Init => Inv /\ LinksTold
  BY Starts, LinksStayTold
<1>2. Inv /\ LinksTold /\ [Next]_vars => (Inv /\ LinksTold)'
  BY Steps, LinksStayTold
<1>3. Inv /\ LinksTold => told_works
  BY ToldWorks
<1> QED
  BY <1>1, <1>2, <1>3, PTL DEF Spec, WhatIsToldWorks
=============================================================================
