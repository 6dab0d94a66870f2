---------------------------- MODULE FIFODispatcher ----------------------------
(***************************************************************************)
(* gateway/dispatcher/dispatcher.py: one deque for all tenants.            *)
(***************************************************************************)
EXTENDS Naturals, Sequences

VARIABLES
  queue,      \* self._queue
  selected,   \* history: what select_next has returned, in order
  arrived     \* history: what enqueue was given, in order

Init == queue = <<>> /\ selected = <<>> /\ arrived = <<>>

Enqueue(r) ==
  /\ queue' = Append(queue, r)
  /\ arrived' = Append(arrived, r)
  /\ UNCHANGED selected

\* select_next() raises RuntimeError.
NothingQueued == queue = <<>>

\* A pop() where popleft() is meant: the newest request would be served first.
SelectNewest ==
  /\ queue # <<>>
  /\ selected' = Append(selected, queue[Len(queue)])
  /\ queue' = SubSeq(queue, 1, Len(queue) - 1)
  /\ UNCHANGED arrived

SelectNext ==
  /\ queue # <<>>
  /\ selected' = Append(selected, Head(queue))
  /\ queue' = Tail(queue)
  /\ UNCHANGED arrived
=============================================================================
