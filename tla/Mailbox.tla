------------------------------ MODULE Mailbox ------------------------------
(***************************************************************************)
(* What the hub holds for one participant between two of its wakes: the    *)
(* bounded queue of wake messages (core/hub.py, Participant and _enqueue)  *)
(* and the bounded buffer of overheard context (core/buffer.py).  Both     *)
(* evict their oldest message when full, count what they evicted, and say  *)
(* so in a line of id 0 with the next delivery.                            *)
(*                                                                         *)
(* A box is any record with the fields                                     *)
(*    queue, dropped      Participant.queue and queue_dropped              *)
(*    context, evicted    ContextBuffer._items and _evicted                *)
(* The hub keeps them in the record of the participant.                    *)
(*                                                                         *)
(* A definition whose name starts with Slip is a mistake one could make in *)
(* the definition that follows it; nothing uses it.                        *)
(***************************************************************************)
EXTENDS Naturals, Sequences, FiniteSets

CONSTANTS QueueCap,     \* Config.queue_cap
          WakeCap,      \* Config.deliver_wake_cap
          ContextCap    \* Config.context_cap

ASSUME CapsAssumption ==
  /\ QueueCap \in Nat \ {0}
  /\ WakeCap \in Nat \ {0}
  /\ ContextCap \in Nat \ {0}

SlipEnqueueUnbounded(box, m) == [box EXCEPT !.queue = Append(box.queue, m)]

\* Hub._enqueue: a full queue loses its oldest wake.
Enqueue(box, m) ==
  IF Len(box.queue) >= QueueCap
  THEN [box EXCEPT !.queue = Append(Tail(box.queue), m), !.dropped = @ + 1]
  ELSE [box EXCEPT !.queue = Append(box.queue, m)]

SlipOverhearUncounted(box, m) ==
  [box EXCEPT !.context = Append(IF Len(@) >= ContextCap THEN Tail(@) ELSE @, m)]

\* ContextBuffer.append.  The buffer is never longer than its cap, so the
\* loop of the code evicts at most once.
Overhear(box, m) ==
  IF Len(box.context) >= ContextCap
  THEN [box EXCEPT !.context = Append(Tail(box.context), m), !.evicted = @ + 1]
  ELSE [box EXCEPT !.context = Append(box.context, m)]

\* Several messages overheard one after the other, oldest first: of the old
\* and the new together the newest ContextCap stay.
OverhearAll(box, ms) ==
  LET all    == box.context \o ms
      excess == IF Len(all) > ContextCap THEN Len(all) - ContextCap ELSE 0
  IN  [box EXCEPT !.context = SubSeq(all, excess + 1, Len(all)),
                  !.evicted = @ + excess]

(***************************************************************************)
(* ContextBuffer.drain(upto_id): the longest prefix of ids up to upto; the *)
(* loop stops at the first larger one, whatever comes after it.            *)
(***************************************************************************)
Prefix(context, upto) ==
  Cardinality({k \in 1 .. Len(context) : \A i \in 1 .. k : context[i].id <= upto})

Items(seq, k) == {seq[i] : i \in 1 .. k}

\* The box once its first k context lines are drained; draining also clears
\* the count of evicted lines, which the placeholder has announced.
Drained(box, k) ==
  [box EXCEPT !.context = SubSeq(box.context, k + 1, Len(box.context)),
              !.evicted = 0]

(***************************************************************************)
(* Hub._flush_queue takes one slice: the notice of dropped wakes, if any,  *)
(* in front, then queued wakes, WakeCap in all.  The context drain is      *)
(* bounded by the last wake of the slice only while older wakes remain.    *)
(***************************************************************************)
SliceLen(box) ==
  LET room == IF box.dropped > 0 THEN WakeCap - 1 ELSE WakeCap
  IN  IF Len(box.queue) <= room THEN Len(box.queue) ELSE room

SliceRest(box) == SubSeq(box.queue, SliceLen(box) + 1, Len(box.queue))

SlipSliceContextAll(box) == Len(box.context)

SliceContext(box) ==
  IF SliceRest(box) = << >> THEN Len(box.context)
  ELSE Prefix(box.context,
              IF SliceLen(box) = 0 THEN 0 ELSE box.queue[SliceLen(box)].id)

AfterSlice(box) ==
  [Drained(box, SliceContext(box)) EXCEPT !.queue = SliceRest(box), !.dropped = 0]
=============================================================================
