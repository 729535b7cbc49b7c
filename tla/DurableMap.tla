----------------------------- MODULE DurableMap -----------------------------
(***************************************************************************)
(* What a client of the migration map may rely on: a map in memory, and    *)
(* the map a restart brings back.  A save is all or nothing: the durable   *)
(* map becomes the whole map of one instant, never a part of it and never  *)
(* a mixture of two instants.  Nothing else moves it but Wipe, the loss of *)
(* the whole file, which the code admits because it writes in place.       *)
(***************************************************************************)
CONSTANTS Key, Value, Empty

VARIABLES mem, durable

Init == mem = durable

\* An entry is put in memory only.
Put == /\ \E k \in Key, v \in Value : mem' = [mem EXCEPT ![k] = v]
       /\ UNCHANGED durable

Save == durable' = mem /\ UNCHANGED mem

\* The process dies and its successor works from the durable map.
Restart == mem' = durable /\ UNCHANGED durable

\* The successor could not read the file and works from nothing.
Blind == mem' = Empty /\ UNCHANGED durable

\* A write in place is cut short: the durable map is gone, and with it the
\* one in memory when it was the crash of the process that cut it.
Wipe == durable' = Empty /\ mem' \in {mem, Empty}

Next == Put \/ Save \/ Restart \/ Blind \/ Wipe

Spec == Init /\ [][Next]_<<mem, durable>>
=============================================================================
