---------------------------- MODULE BoundedQueue ----------------------------
(***************************************************************************)
(* BoundedQueue<T> (include/container/bounded_queue.h): a ring buffer over *)
(* raw storage.  The item at distance j from the top is in the slot        *)
(* _mod(_start + j).  Slots are constructed when an item is pushed and     *)
(* destroyed when it is popped; all arithmetic on positions is unsigned    *)
(* and as wide as uint32_t.                                                *)
(*                                                                         *)
(* The overloads of a call differ in what they copy out: push of an item   *)
(* and of T(), pop with and without a destination are one action each.     *)
(***************************************************************************)
EXTENDS Integers

CONSTANTS
    Items,  \* the values of T
    Null,   \* NULL, or no result
    Raw,    \* the content of a slot where no object lives
    Cap,    \* _cap
    Word    \* 2^32: one more than the largest uint32_t

(* elim_push on a queue of no capacity is outside the contract: it writes to
   the storage that is not there. *)
ASSUME CapAssumption == Cap \in Nat \ {0} /\ Word \in Nat /\ Cap < Word
ASSUME RawAssumption == Raw \notin Items

VARIABLES
    count,  \* _count
    start,  \* _start
    items,  \* _items
    ret     \* what the last call returned

vars == <<count, start, items, ret>>

Slots == 0 .. Cap - 1

Init ==
    /\ count = 0
    /\ start = 0
    /\ items = [s \in Slots |-> Raw]
    /\ ret = Null

-----------------------------------------------------------------------------
(* Mutant: an offset equal to the capacity is left as it is. *)
_mod_keeps_cap(off) ==
    LET u == off % Word IN IF u = 0 THEN 0 ELSE 1 + ((u - 1) % Cap)

(* _mod: the loop subtracts cap until off, a uint32_t, is less. *)
_mod(off) == (off % Word) % Cap

HasRoom == count < Cap

(* An object is constructed in a slot, assigned to, or destroyed. *)
Store(s, x) == items' = [items EXCEPT ![s] = x]
Destroy(s) == items' = [items EXCEPT ![s] = Raw]

Refuse(r) == ret' = r /\ UNCHANGED <<count, start, items>>

PushRoom(x) ==
    /\ HasRoom
    /\ Store(_mod(start + count), x)
    /\ count' = count + 1
    /\ UNCHANGED start

Push(x) ==
    \/ PushRoom(x) /\ ret' = TRUE
    \/ ~HasRoom /\ Refuse(FALSE)

(* Mutant: a full queue overwrites its oldest item but still starts there. *)
ElimPush_stays(x) ==
    \/ PushRoom(x) /\ ret' = Null
    \/ /\ ~HasRoom
       /\ Store(start, x)
       /\ ret' = Null
       /\ UNCHANGED <<count, start>>

(* elim_push: the topmost item of a full queue is assigned the new one, and
   becomes the bottom. *)
ElimPush(x) ==
    \/ PushRoom(x) /\ ret' = Null
    \/ /\ ~HasRoom
       /\ Store(start, x)
       /\ start' = _mod(start + 1)
       /\ ret' = Null
       /\ UNCHANGED count

PushTop(x) ==
    \/ /\ HasRoom
       /\ start' = IF start # 0 THEN start - 1 ELSE Cap - 1
       /\ count' = count + 1
       /\ Store(start', x)
       /\ ret' = TRUE
    \/ ~HasRoom /\ Refuse(FALSE)

Pop ==
    \/ /\ count # 0
       /\ count' = count - 1
       /\ ret' = items[start]
       /\ Destroy(start)
       /\ start' = _mod(start + 1)
    \/ count = 0 /\ Refuse(Null)

(* Mutant: the slot after the bottom one is destroyed. *)
PopBottom_off_by_one ==
    \/ /\ count # 0
       /\ count' = count - 1
       /\ ret' = items[_mod(start + count')]
       /\ Destroy(_mod(start + count))
       /\ UNCHANGED start
    \/ count = 0 /\ Refuse(Null)

PopBottom ==
    \/ /\ count # 0
       /\ count' = count - 1
       /\ ret' = items[_mod(start + count')]
       /\ Destroy(_mod(start + count'))
       /\ UNCHANGED start
    \/ count = 0 /\ Refuse(Null)

Clear ==
    /\ items' = [s \in Slots |->
                    IF \E i \in 0 .. count - 1 : s = _mod(start + i)
                    THEN Raw ELSE items[s]]
    /\ count' = 0
    /\ start' = 0
    /\ ret' = Null

(* top(index) and bottom(index); top() and bottom() are those of 0. *)
Top(index) ==
    Refuse(IF index < count THEN items[_mod(start + index)] ELSE Null)
Bottom(index) ==
    Refuse(IF index < count
           THEN items[_mod(start + count - index - 1)] ELSE Null)

Next ==
    \/ \E x \in Items : Push(x) \/ ElimPush(x) \/ PushTop(x)
    \/ Pop \/ PopBottom \/ Clear
    \/ \E i \in 0 .. Cap : Top(i) \/ Bottom(i)

Spec == Init /\ [][Next]_vars

-----------------------------------------------------------------------------
(* Properties *)

(* Every variable has its type. *)
TypeOK ==
    /\ count \in 0 .. Cap
    /\ start \in Slots
    /\ items \in [Slots -> Items \cup {Raw}]
    /\ ret \in Items \cup {Null, TRUE, FALSE}

(* An object lives in exactly the slots of the items in the queue: none is
   leaked, none is destroyed twice or read before it is constructed. *)
InUse(s) == \E j \in 0 .. count - 1 : s = _mod(start + j)
LiveSlots == \A s \in Slots : items[s] # Raw <=> InUse(s)

(* The ring buffer is a bounded sequence, and every call returns what the
   sequence says. *)
queue == [j \in 1 .. count |-> items[_mod(start + j - 1)]]
BoundedSeq == INSTANCE BoundedSequence
ImplementsSequence == BoundedSeq!Spec

(* No sum of positions wraps: the capacity is at most half of the range of
   uint32_t, or one more. *)
Fits == 2 * Cap <= Word + 1
=============================================================================
