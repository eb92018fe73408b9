-------------------------------- MODULE Fifo --------------------------------
(***************************************************************************)
(* What a Vqueue promises its callers (src/header/ds/vqueue.h): a bounded  *)
(* first-in first-out queue whose enqueue either fails when the queue is   *)
(* full or drops the oldest elements, as the caller asks.  Nothing is said *)
(* of slots, indices or wrapping.                                          *)
(***************************************************************************)
EXTENDS Integers, Sequences

CONSTANTS
  Elem,      (* the elements                                               *)
  Cap,       (* how many the queue holds                                   *)
  MaxBatch   (* bound on the elements moved by one call                    *)

VARIABLES
  items,     (* the elements held, oldest first                            *)
  reply      (* the last call, its return code and its output              *)

vars == <<items, reply>>

\* The newest Cap elements of s.
Newest(s) == IF Len(s) <= Cap THEN s ELSE SubSeq(s, Len(s) - Cap + 1, Len(s))

Lesser(m, n) == IF m <= n THEN m ELSE n

Reply(call, res, out) == [call |-> call, res |-> res, out |-> out]
Fails(call, res) == reply' = Reply(call, res, <<>>) /\ UNCHANGED items

Batches == UNION {[1 .. n -> Elem] : n \in 1 .. MaxBatch}

Init == items = <<>> /\ reply = Reply(<<"none">>, "ok", <<>>)

Enqueue(v, overwrite) ==
  IF Len(items) = Cap /\ ~overwrite
  THEN Fails(<<"enqueue", v, overwrite>>, "EXFULL")
  ELSE /\ items' = Newest(Append(items, v))
       /\ reply' = Reply(<<"enqueue", v, overwrite>>, "ok", <<>>)

Dequeue ==
  IF items = <<>>
  THEN Fails(<<"dequeue">>, "ENODATA")
  ELSE items' = Tail(items) /\ reply' = Reply(<<"dequeue">>, "ok", <<Head(items)>>)

\* As many elements of s as fit go in; with overwrite those are at most Cap,
\* the oldest of s.  The number that went in is returned.
EnqueueSome(s, overwrite) ==
  LET room == IF overwrite THEN Cap ELSE Cap - Len(items)
      n    == Lesser(Len(s), room)
  IN IF room = 0
     THEN Fails(<<"enqueue_some", s, overwrite>>, "EXFULL")
     ELSE /\ items' = Newest(items \o SubSeq(s, 1, n))
          /\ reply' = Reply(<<"enqueue_some", s, overwrite>>,
                            IF n = Len(s) THEN "ok" ELSE "EXFULL", <<n>>)

DequeueSome(wanted) ==
  LET n == Lesser(wanted, Len(items))
  IN IF items = <<>>
     THEN Fails(<<"dequeue_some", wanted>>, "ENODATA")
     ELSE /\ items' = SubSeq(items, n + 1, Len(items))
          /\ reply' = Reply(<<"dequeue_some", wanted>>,
                            IF n = wanted THEN "ok" ELSE "ENODATA", SubSeq(items, 1, n))

Front ==
  IF items = <<>>
  THEN Fails(<<"front">>, "ENOTRECOVERABLE")
  ELSE reply' = Reply(<<"front">>, "ok", <<Head(items)>>) /\ UNCHANGED items

Back ==
  IF items = <<>>
  THEN Fails(<<"back">>, "ENOTRECOVERABLE")
  ELSE reply' = Reply(<<"back">>, "ok", <<items[Len(items)]>>) /\ UNCHANGED items

Reset == items' = <<>> /\ reply' = Reply(<<"none">>, "ok", <<>>)

Next ==
  \/ \E v \in Elem, overwrite \in BOOLEAN : Enqueue(v, overwrite)
  \/ Dequeue
  \/ \E s \in Batches, overwrite \in BOOLEAN : EnqueueSome(s, overwrite)
  \/ \E wanted \in 1 .. MaxBatch : DequeueSome(wanted)
  \/ Front
  \/ Back
  \/ Reset

Spec == Init /\ [][Next]_vars
=============================================================================
