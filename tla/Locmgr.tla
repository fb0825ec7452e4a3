------------------------------- MODULE Locmgr -------------------------------
(***************************************************************************)
(* The location manager of a chare array (include/charmlite/core/          *)
(* locmgr.hpp): every PE keeps two tables from element index to PE.        *)
(*                                                                         *)
(*   locmap[p]         authoritative, written only on the element's home   *)
(*   routing_cache[p]  hints, written on every other PE                    *)
(*                                                                         *)
(* The tables of all PEs are two functions here.  An index that is absent  *)
(* from an unordered_map is mapped to NoPe.  The 64-bit hash of an index   *)
(* (chare_index_t) is the element itself, a natural number, because the    *)
(* default mapper takes it modulo the number of PEs.                       *)
(***************************************************************************)
EXTENDS Converse

CONSTANT Elem       \* the indices of the elements of the collection

ASSUME ElemAssumption == Elem \subseteq Nat

VARIABLES locmap, routing_cache

(* default_mapper: elements are dealt out to the PEs round-robin *)
home_pe(e) == e % NumPes

LocmgrTypeOK ==
    /\ locmap \in [PE -> [Elem -> PE \cup {NoPe}]]
    /\ routing_cache \in [PE -> [Elem -> PE \cup {NoPe}]]

LocmgrInit ==
    /\ locmap = [p \in PE |-> [e \in Elem |-> NoPe]]
    /\ routing_cache = [p \in PE |-> [e \in Elem |-> NoPe]]

(* Mutant: an index that is not cached has no default *)
lookup_cache_bare(p, e) == routing_cache[p][e]

lookup_cache(p, e) ==
    IF routing_cache[p][e] = NoPe THEN home_pe(e) ELSE routing_cache[p][e]

lookup(p, e) ==
    IF locmap[p][e] = NoPe THEN lookup_cache(p, e) ELSE locmap[p][e]

(* The table writes of update_location, executed by PE p.  Its other       *)
(* effect, the message to the home PE when inform_home is set, is sent by  *)
(* the caller (see InformHome in Delivery).                                *)
update_location(p, e, pe) ==
    IF p = home_pe(e)
    THEN /\ locmap' = [locmap EXCEPT ![p][e] = pe]
         /\ UNCHANGED routing_cache
    ELSE /\ routing_cache' = [routing_cache EXCEPT ![p][e] = pe]
         /\ UNCHANGED locmap

=============================================================================
