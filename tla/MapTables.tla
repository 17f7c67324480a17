------------------------------ MODULE MapTables -----------------------------
(***************************************************************************)
(* The two tables of a Mapper (include/oscit/mapper.h, src/mapper.cpp,      *)
(* include/oscit/scale_real.h): each entry of a script is stored in both,   *)
(* one for each direction, and values are scaled with them.  Parsing again  *)
(* adds to what is there.                                                   *)
(*                                                                         *)
(* A Real is an integer here; a url is a sequence of characters.            *)
(***************************************************************************)
EXTENDS Integers, Sequences

VARIABLES
  map_,          \* from source urls to elements [target, from, to]
  reverse_map_   \* from target urls, the same way

mapperVars == <<map_, reverse_map_>>

NoMapping == [url \in {} |-> <<>>]
MapperInit == map_ = NoMapping /\ reverse_map_ = NoMapping

-----------------------------------------------------------------------------
(* ScaleReal: res is held between the ends of the target range.             *)

Scale(e, value) ==
  LET res == e.to[1] + ((value - e.from[1]) * (e.to[2] - e.to[1])) \div (e.from[2] - e.from[1])
  IN CASE res < e.to[1] -> e.to[1]
       [] res >= e.to[1] /\ res > e.to[2] -> e.to[2]
       [] OTHER -> res

(* map and reverse_map: the url and the value that a value stands for, if   *)
(* there is a mapping.                                                      *)
Mapped(m, url, value) == <<m[url].target, Scale(m[url], value)>>

-----------------------------------------------------------------------------
(* set_map *)

(* An entry is <<url, range, url, range>>. *)
MapUrl == Seq(STRING)
MapRange == Int \X Int
Refused(e) == e[2][1] = e[2][2] \/ e[4][1] = e[4][2]
MapEntry == {e \in MapUrl \X MapRange \X MapUrl \X MapRange : ~Refused(e)}

Element(target, from, to) == [target |-> target, from |-> from, to |-> to]
With(m, url, e) == [u \in DOMAIN m \cup {url} |-> IF u = url THEN e ELSE m[u]]

(* Mutant: the mapping back is not replaced. *)
SetMapOnce(m, e) ==
  [map |-> With(m.map, e[1], Element(e[3], e[2], e[4])),
   back |-> IF e[3] \in DOMAIN m.back THEN m.back
            ELSE With(m.back, e[3], Element(e[1], e[4], e[2]))]

SetMap(m, e) ==
  [map |-> With(m.map, e[1], Element(e[3], e[2], e[4])),
   back |-> With(m.back, e[3], Element(e[1], e[4], e[2]))]

(* The entries of a script are set one after another, under one lock. *)
SetAll(tables, entries) ==
  LET after[n \in 0..Len(entries)] ==
        IF n = 0 THEN tables ELSE SetMap(after[n - 1], entries[n])
  IN after[Len(entries)]

StoreAll(entries) ==
  \E m \in {SetAll([map |-> map_, back |-> reverse_map_], entries)} :
    map_' = m.map /\ reverse_map_' = m.back

(* Whatever the scripts say. *)
MapTablesSpec == MapperInit /\ [][\E entries \in Seq(MapEntry) : StoreAll(entries)]_mapperVars

-----------------------------------------------------------------------------
(* Properties *)

Ascending(range) == range[1] < range[2]

(* A value that the other side can tell. *)
Exact(e, value) == ((value - e.from[1]) * (e.to[2] - e.to[1])) % (e.from[2] - e.from[1]) = 0

(* Whatever has been parsed before (set_map, map and reverse_map), a   *)
(* control that is mapped to another, which is mapped back to it, gets its  *)
(* values back: the two tables never hold different ranges for the pair.    *)
ScalesBack ==
  \A url \in DOMAIN map_ :
    LET e == map_[url] IN
      (/\ e.target \in DOMAIN reverse_map_
       /\ reverse_map_[e.target].target = url
       /\ Ascending(e.from) /\ Ascending(e.to))
      => \A value \in e.from[1]..e.from[2] :
           Exact(e, value) =>
             Mapped(reverse_map_, e.target, Mapped(map_, url, value)[2]) = <<url, value>>

=============================================================================
