------------------------------- MODULE Vqueue -------------------------------
(***************************************************************************)
(* The ring buffer behind every queue (src/src/ds/vqueue.c).  front and    *)
(* back are positions taken modulo the capacity: enqueue and dequeue keep  *)
(* them wrapped, enqueue_some and dequeue_some let them run past the end,  *)
(* and every reader wraps them again.  The front is where the oldest       *)
(* element is, the back one past the newest; whether the queue is empty or *)
(* full when the two meet is known from len alone.                         *)
(***************************************************************************)
EXTENDS Integers, Sequences

CONSTANTS
  Elem,       (* the elements                                              *)
  Zero,       (* the element made of zero bytes, as vqueue_init leaves it  *)
  Cap,        (* queue->cap                                                *)
  MaxBatch,   (* bound on the elements moved by one call                   *)
  MaxIndex    (* bound on front and back, far below SIZE_MAX               *)

ASSUME ElemAssumption == Zero \in Elem
ASSUME CapAssumption == Cap \in Nat \ {0}
ASSUME BoundsAssumption == MaxBatch \in Nat /\ MaxIndex \in Nat /\ MaxIndex >= Cap

VARIABLES
  elems,      (* queue->elems, slot by slot                                *)
  front,      (* queue->front                                              *)
  back,       (* queue->back                                               *)
  len,        (* queue->len                                                *)
  reply       (* the last call, its return code and its output             *)

vars == <<elems, front, back, len, reply>>

-----------------------------------------------------------------------------
Slots == 0 .. Cap - 1

\* vqueue_wrap
Wrap(pos) == pos % Cap

Lesser(m, n) == IF m <= n THEN m ELSE n

Reply(call, res, out) == [call |-> call, res |-> res, out |-> out]
Answer(call, res, out) == reply' = Reply(call, res, out) /\ UNCHANGED <<elems, front, back, len>>

Batches == UNION {[1 .. n -> Elem] : n \in 1 .. MaxBatch}

\* Fault: the part after the wrap is copied from the start of the source.
StoredNotAdvanced(pos, s, n) ==
  LET first  == Wrap(pos)
      before == Lesser(n, Cap - first)
  IN [i \in Slots |->
        IF i \in first .. first + before - 1 THEN s[i - first + 1]
        ELSE IF i < n - before THEN s[i + 1]
        ELSE elems[i]]

\* The slots after the first n elements of s are copied in from position pos
\* on: a part up to the last slot, the rest from slot 0.
Stored(pos, s, n) ==
  LET first  == Wrap(pos)
      before == Lesser(n, Cap - first)
  IN [i \in Slots |->
        IF i \in first .. first + before - 1 THEN s[i - first + 1]
        ELSE IF i < n - before THEN s[before + i + 1]
        ELSE elems[i]]

\* The n elements copied out from position pos on, in two parts as well.
Loaded(pos, n) ==
  LET first  == Wrap(pos)
      before == Lesser(n, Cap - first)
  IN [j \in 1 .. n |-> IF j <= before THEN elems[first + j - 1] ELSE elems[j - before - 1]]

-----------------------------------------------------------------------------
\* vqueue_init
Init ==
  /\ elems = [i \in Slots |-> Zero]
  /\ front = 0 /\ back = 0 /\ len = 0
  /\ reply = Reply(<<"none">>, "ok", <<>>)

\* Faults: an enqueue that overwrites leaves the front where it was; it
\* counts one element more.
EnqueueKeepsFront(v, overwrite) ==
  IF len = Cap /\ ~overwrite
  THEN Answer(<<"enqueue", v, overwrite>>, "EXFULL", <<>>)
  ELSE /\ elems' = [elems EXCEPT ![Wrap(back)] = v]
       /\ back' = Wrap(back + 1)
       /\ front' = front
       /\ len' = IF len = Cap THEN len ELSE len + 1
       /\ reply' = Reply(<<"enqueue", v, overwrite>>, "ok", <<>>)

EnqueueCountsTwice(v, overwrite) ==
  IF len = Cap /\ ~overwrite
  THEN Answer(<<"enqueue", v, overwrite>>, "EXFULL", <<>>)
  ELSE /\ elems' = [elems EXCEPT ![Wrap(back)] = v]
       /\ back' = Wrap(back + 1)
       /\ front' = IF len = Cap THEN Wrap(front + 1) ELSE front
       /\ len' = len + 1
       /\ reply' = Reply(<<"enqueue", v, overwrite>>, "ok", <<>>)

\* vqueue_enqueue: when full, fail or give up the oldest element.
Enqueue(v, overwrite) ==
  IF len = Cap /\ ~overwrite
  THEN Answer(<<"enqueue", v, overwrite>>, "EXFULL", <<>>)
  ELSE /\ elems' = [elems EXCEPT ![Wrap(back)] = v]
       /\ back' = Wrap(back + 1)
       /\ IF len = Cap
          THEN front' = Wrap(front + 1) /\ UNCHANGED len
          ELSE len' = len + 1 /\ UNCHANGED front
       /\ reply' = Reply(<<"enqueue", v, overwrite>>, "ok", <<>>)

\* vqueue_dequeue; the slot keeps its stale element.
Dequeue ==
  IF len = 0
  THEN Answer(<<"dequeue">>, "ENODATA", <<>>)
  ELSE /\ front' = Wrap(front + 1)
       /\ len' = len - 1
       /\ reply' = Reply(<<"dequeue">>, "ok", <<elems[Wrap(front)]>>)
       /\ UNCHANGED <<elems, back>>

\* vqueue_enqueue_some: back, and front when elements are overwritten, grow
\* without being wrapped.
EnqueueSome(s, overwrite) ==
  LET free  == Cap - len
      room  == IF overwrite THEN len + free ELSE free
      n     == Lesser(Len(s), room)
  IN IF room = 0
     THEN Answer(<<"enqueue_some", s, overwrite>>, "EXFULL", <<>>)
     ELSE /\ back + n <= MaxIndex /\ front + n <= MaxIndex
          /\ elems' = Stored(back, s, n)
          /\ back' = back + n
          /\ IF n > free
             THEN front' = front + (n - free) /\ len' = len + free
             ELSE len' = len + n /\ UNCHANGED front
          /\ reply' = Reply(<<"enqueue_some", s, overwrite>>,
                            IF n = Len(s) THEN "ok" ELSE "EXFULL", <<n>>)

\* vqueue_dequeue_some: front grows without being wrapped.
DequeueSome(wanted) ==
  LET n == Lesser(wanted, len)
  IN IF len = 0
     THEN Answer(<<"dequeue_some", wanted>>, "ENODATA", <<>>)
     ELSE /\ front + n <= MaxIndex
          /\ front' = front + n
          /\ len' = len - n
          /\ reply' = Reply(<<"dequeue_some", wanted>>,
                            IF n = wanted THEN "ok" ELSE "ENODATA", Loaded(front, n))
          /\ UNCHANGED <<elems, back>>

\* vqueue_front
Front ==
  IF len = 0
  THEN Answer(<<"front">>, "ENOTRECOVERABLE", <<>>)
  ELSE Answer(<<"front">>, "ok", <<elems[Wrap(front)]>>)

\* vqueue_back: back is one past the newest element.
Back ==
  IF len = 0
  THEN Answer(<<"back">>, "ENOTRECOVERABLE", <<>>)
  ELSE Answer(<<"back">>, "ok", <<elems[Wrap(Cap + back - 1)]>>)

\* vqueue_deinit and a new vqueue_init of the same memory.
Reset ==
  /\ elems' = [i \in Slots |-> Zero]
  /\ front' = 0 /\ back' = 0 /\ len' = 0
  /\ reply' = Reply(<<"none">>, "ok", <<>>)

Next ==
  \/ \E v \in Elem, overwrite \in BOOLEAN : Enqueue(v, overwrite)
  \/ Dequeue
  \/ \E s \in Batches, overwrite \in BOOLEAN : EnqueueSome(s, overwrite)
  \/ \E wanted \in 1 .. MaxBatch : DequeueSome(wanted)
  \/ Front
  \/ Back
  \/ Reset

Spec == Init /\ [][Next]_vars

-----------------------------------------------------------------------------
(***************************************************************************)
(* Properties                                                              *)
(***************************************************************************)

Outputs == {<<>>} \cup {<<n>> : n \in 1 .. Cap} \cup UNION {[1 .. n -> Elem] : n \in 1 .. Cap}

\* Every variable has its type; no more than Cap elements are counted.
TypeOK ==
  /\ elems \in [Slots -> Elem]
  /\ front \in 0 .. MaxIndex
  /\ back \in 0 .. MaxIndex
  /\ len \in 0 .. Cap
  /\ reply.res \in {"ok", "EXFULL", "ENODATA", "ENOTRECOVERABLE"} /\ reply.out \in Outputs

\* front, back and len describe one and the same stretch of slots, whichever
\* of the wrapping and the non-wrapping operations ran: back is len slots
\* after front, once both are wrapped.
IndicesAgree == Wrap(back) = Wrap(front + len)

\* The elements held, oldest first.
Contents == [i \in 1 .. len |-> elems[Wrap(front + i - 1)]]

Abstract == INSTANCE Fifo WITH items <- Contents

\* Every call behaves as the queue of Fifo does: same elements in the same
\* order, same return code, same output.
IsFifo == Abstract!Spec
=============================================================================
