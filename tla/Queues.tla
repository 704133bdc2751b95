------------------------------- MODULE Queues -------------------------------
(***************************************************************************)
(* The containers of src/que: an array and a string that are taken from the*)
(* front by moving an offset, so that what was taken can be put back. Two  *)
(* objects of each kind, which may be swapped.                             *)
(***************************************************************************)
EXTENDS Integers, SequencesExt

CONSTANTS
  Value,     \* what is pushed
  Capacity,  \* N of Fifo_array
  MaxPushed, \* bound: the values pushed to a string since its last clear()
  PopEmpty   \* whether pop_front() is called for an array that is empty

VARIABLES
  arrays,   \* object |-> data_, pop_offset_ and push_offset_
  strings,  \* object |-> data_ and offset_
  wanted    \* history: kind and object |-> what was pushed since clear(), and how much of
            \* it is taken

vars == <<arrays, strings, wanted>>

Object == {1, 2}
Kind == {"array", "string"}

Queue == [pushed |-> <<>>, taken |-> 0]

Init ==
  /\ \E v \in Value : arrays = [o \in Object |-> [data |-> [i \in 1..Capacity |-> v], pop |-> 0, push |-> 0]]
  /\ strings = [o \in Object |-> [data |-> <<>>, offset |-> 0]]
  /\ wanted = [k \in Kind |-> [o \in Object |-> Queue]]

SizeOfArray(a) == a.push - a.pop
SizeOfString(s) == Len(s.data) - s.offset

-----------------------------------------------------------------------------
(* Fifo_array.                                                             *)

\* push_back() has room: the offset of what is pushed is not moved back but by clear().
Push_array(o, v) ==
  /\ arrays[o].push < Capacity
  /\ arrays' = [arrays EXCEPT ![o].data[arrays[o].push + 1] = v, ![o].push = @ + 1]
  /\ wanted' = [wanted EXCEPT !["array"][o].pushed = Append(@, v)]

\* pop_front() is bounded by the capacity, not by what was pushed.
Pop_array(o) ==
  /\ SizeOfArray(arrays[o]) = 0 => PopEmpty
  /\ arrays' = [arrays EXCEPT ![o].pop = Min({@ + 1, Capacity})]
  /\ wanted' = [wanted EXCEPT !["array"][o].taken = Min({@ + 1, Len(wanted["array"][o].pushed)})]

Unpop_array(o) ==
  /\ arrays' = [arrays EXCEPT ![o].pop = Max({@ - 1, 0})]
  /\ wanted' = [wanted EXCEPT !["array"][o].taken = Max({@ - 1, 0})]

Clear_array(o) ==
  /\ arrays' = [arrays EXCEPT ![o].pop = 0, ![o].push = 0]
  /\ wanted' = [wanted EXCEPT !["array"][o] = Queue]

Unpop_all_array(o) ==
  /\ arrays' = [arrays EXCEPT ![o].pop = 0]
  /\ wanted' = [wanted EXCEPT !["array"][o].taken = 0]

Swap_arrays ==
  /\ arrays' = [o \in Object |-> arrays[3 - o]]
  /\ wanted' = [wanted EXCEPT !["array"] = [o \in Object |-> @[3 - o]]]

Array_call ==
  /\ \/ Swap_arrays
     \/ \E o \in Object : Pop_array(o) \/ Unpop_array(o) \/ Unpop_all_array(o) \/ Clear_array(o)
     \/ \E o \in Object, v \in Value : Push_array(o, v)
  /\ UNCHANGED strings

-----------------------------------------------------------------------------
(* Basic_fifo_string.                                                      *)

Push_string(o, v) ==
  /\ Len(strings[o].data) < MaxPushed
  /\ strings' = [strings EXCEPT ![o].data = Append(@, v)]
  /\ wanted' = [wanted EXCEPT !["string"][o].pushed = Append(@, v)]

Pop_string(o) ==
  /\ strings' = [strings EXCEPT ![o].offset = Min({@ + 1, Len(strings[o].data)})]
  /\ wanted' = [wanted EXCEPT !["string"][o].taken = Min({@ + 1, Len(wanted["string"][o].pushed)})]

Unpop_string(o) ==
  /\ strings' = [strings EXCEPT ![o].offset = Max({@ - 1, 0})]
  /\ wanted' = [wanted EXCEPT !["string"][o].taken = Max({@ - 1, 0})]

Clear_string(o) ==
  /\ strings' = [strings EXCEPT ![o].data = <<>>, ![o].offset = 0]
  /\ wanted' = [wanted EXCEPT !["string"][o] = Queue]

Swap_strings ==
  /\ strings' = [o \in Object |-> strings[3 - o]]
  /\ wanted' = [wanted EXCEPT !["string"] = [o \in Object |-> @[3 - o]]]

Unpop_all_string(o) ==
  /\ strings' = [strings EXCEPT ![o].offset = 0]
  /\ wanted' = [wanted EXCEPT !["string"][o].taken = 0]

String_call ==
  /\ \/ Swap_strings
     \/ \E o \in Object : Pop_string(o) \/ Unpop_string(o) \/ Unpop_all_string(o) \/ Clear_string(o)
     \/ \E o \in Object, v \in Value : Push_string(o, v)
  /\ UNCHANGED arrays

Next == Array_call \/ String_call

-----------------------------------------------------------------------------

\* A container holds what was pushed and not taken since it was cleared, in the order of
\* the pushes: its front, its back and its size are those of a queue, and so is view().
QueuesAgree ==
  \A o \in Object :
    LET Rest(k) == LET q == wanted[k][o] IN SubSeq(q.pushed, q.taken + 1, Len(q.pushed)) IN
    /\ Rest("array") = SubSeq(arrays[o].data, arrays[o].pop + 1, arrays[o].push)
    /\ Len(Rest("array")) = SizeOfArray(arrays[o])
    /\ Rest("string") = SubSeq(strings[o].data, strings[o].offset + 1, Len(strings[o].data))
    /\ Len(Rest("string")) = SizeOfString(strings[o])
=============================================================================
