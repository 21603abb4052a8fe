---------------------------- MODULE VersionSlots ----------------------------
(***************************************************************************)
(* What the version lock of a node promises the cluster, without etcd: a   *)
(* set of at most maxNodes versions of the node that may be up together,   *)
(* one of which may be the current one.  A version is taken, promoted and  *)
(* given back in one step each, whatever the other versions do meanwhile.  *)
(* VersionLock, where every step is a read and a later conditional write,  *)
(* implements it.                                                          *)
(***************************************************************************)
EXTENDS Naturals, FiniteSets

CONSTANTS
    Versions,   \* the version numbers a process of the node can have
    maxNodes    \* the versions that may be listed together

VARIABLES slots, current

slotVars == <<slots, current>>

SlotsInit == slots = {} /\ current = 0

\* A version comes in while there is room; the current one stays.
Take(v) ==
    /\ v \notin slots
    /\ Cardinality(slots) < maxNodes
    /\ slots' = slots \cup {v}
    /\ UNCHANGED current

\* A listed version becomes the current one.
Promote(v) ==
    /\ v \in slots
    /\ current' = v
    /\ UNCHANGED slots

\* A listed version leaves, and is not the current one any more.
GiveBack(v) ==
    /\ v \in slots
    /\ slots' = slots \ {v}
    /\ current' = IF current = v THEN 0 ELSE current

SlotsNext == \E v \in Versions: Take(v) \/ Promote(v) \/ GiveBack(v)

SlotsSpec == SlotsInit /\ [][SlotsNext]_slotVars
=============================================================================
