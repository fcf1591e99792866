----------------------------- MODULE Allocator -----------------------------
(***************************************************************************)
(* What a first-fit allocator over the pool [Base, Base + Length) promises *)
(* its clients, with no free list: a client owns a range of addresses or   *)
(* nothing; alloc gives the lowest address at which the requested bytes    *)
(* are all unowned, alloc_high the highest, and nullptr when there is no   *)
(* such address or nothing was asked for; free gives the range back.       *)
(***************************************************************************)
EXTENDS Naturals, FiniteSetsExt

CONSTANTS Base, Length, Sizes, Clients, None

VARIABLE owned   \* owned[c]: None, or [ptr, len, high]; ptr 0 is nullptr

Null == 0
Pool == Base .. Base + Length - 1

(* Addresses that no client owns. *)
Unowned ==
  Pool \ UNION {owned[c].ptr .. owned[c].ptr + owned[c].len - 1 :
                  c \in {d \in Clients : owned[d] # None /\ owned[d].ptr # Null}}

(* The addresses at which b bytes are all unowned. *)
FitsAt(b) == {a \in Pool : a .. a + b - 1 \subseteq Unowned}

Placed(b, pick(_)) ==
  IF b = 0 \/ FitsAt(b) = {} THEN Null ELSE pick(FitsAt(b))

Init == owned = [c \in Clients |-> None]

Alloc(c, b) ==
  /\ owned[c] = None
  /\ owned' = [owned EXCEPT ![c] = [ptr |-> Placed(b, Min), len |-> b, high |-> FALSE]]

AllocHigh(c, b) ==
  /\ owned[c] = None
  /\ owned' = [owned EXCEPT ![c] = [ptr |-> Placed(b, Max), len |-> b, high |-> TRUE]]

Free(c) ==
  /\ owned[c] # None
  /\ owned' = [owned EXCEPT ![c] = None]

Next ==
  \E c \in Clients :
     \/ \E b \in Sizes : Alloc(c, b) \/ AllocHigh(c, b)
     \/ Free(c)

Spec == Init /\ [][Next]_owned

=============================================================================
