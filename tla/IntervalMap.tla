---------------------------- MODULE IntervalMap ----------------------------
(***************************************************************************)
(* What the red-black tree of traced objects promises to the rest of the   *)
(* runtime: a map from start addresses to a size and a type table.  It is  *)
(* held as a set of entries, at most one per address.                      *)
(***************************************************************************)
EXTENDS Naturals

CONSTANTS Addrs, Sizes, TypeTables

VARIABLE entries

Entries == [addr : Addrs, size : Sizes, value : TypeTables]

Covers(e, a) == e.addr <= a /\ a < e.addr + e.size

At(a) == {e \in entries : e.addr = a}

MapInit == entries = {}

\* Registering a new address adds an entry.  Registering a known one replaces
\* its type table and keeps the size it was first registered with.
Register(a, s, v) ==
  entries' =
    IF At(a) = {}
      THEN entries \cup {[addr |-> a, size |-> s, value |-> v]}
      ELSE (entries \ At(a)) \cup {[e EXCEPT !.value = v] : e \in At(a)}

Unregister(a) == entries' = entries \ At(a)

MapNext ==
  \E a \in Addrs :
    \/ \E s \in Sizes, v \in TypeTables : Register(a, s, v)
    \/ Unregister(a)

MapSpec == MapInit /\ [][MapNext]_entries
=============================================================================
