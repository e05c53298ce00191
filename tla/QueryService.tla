----------------------------- MODULE QueryService -----------------------------
(***************************************************************************)
(* fo-serve: one thread accepts connections and offers them to a bounded   *)
(* queue, a fixed number of worker threads share the receiving end under a *)
(* mutex and serve one request per connection, and relaxed atomic counters *)
(* describe it all to /metrics.                                            *)
(*                                                                         *)
(* Abstractions.  A response is an outcome: "ok" (2xx), "unauthorized"     *)
(* (401), "oversized" (413) or "bad" (any other error).  What a peer sends *)
(* is read in parts of up to Chunk bytes; where its head ends and which    *)
(* length it declares is chosen when the head is complete.  No request     *)
(* takes longer than the last finite latency bucket, the only one there    *)
(* is.  A step is what a thread does up to the next place where another    *)
(* thread or the peer can tell.  Byte and search totals are left out.  A   *)
(* panic ends the process (the release profile aborts), so no worker dies  *)
(* alone and no mutex is poisoned.                                         *)
(***************************************************************************)
EXTENDS Naturals, Sequences, FiniteSets

CONSTANTS Connections,     \* connections peers may make
          Workers,         \* --threads
          QueueCapacity,   \* --queue-capacity
          MaxBytes,        \* --maximum-request-bytes
          MaxHeaderBytes,  \* MAX_HEADER_BYTES
          Chunk,           \* the buffer of one read
          Terminator,      \* the length of the empty line after a head
          None             \* absent

Errors   == {"bad", "unauthorized", "oversized"}
Outcomes == {"ok"} \cup Errors

ASSUME SizesAssumption ==
  /\ QueueCapacity \in Nat \ {0}
  /\ MaxBytes \in Nat \ {0}
  /\ MaxHeaderBytes \in Nat
  /\ Chunk \in Nat \ {0}
  /\ Terminator \in Nat \ {0}

ASSUME WorkersAssumption ==
  IsFiniteSet(Workers)

ASSUME NoneAssumption ==
  None \notin Connections \cup Workers \cup Nat \cup Outcomes

VARIABLES
  offered,   \* the connection the acceptor holds: accepted, not yet offered
  queue,     \* the bounded channel
  holder,    \* the worker that has locked the receiver, or None
  pc,        \* where each worker is
  conn,      \* the connection each worker serves, or None
  received,  \* the bytes it has read of the request
  need,      \* the length of the request once its head is known, or None
  outcome,   \* what was decided for each connection, or None
  fate,      \* what became of each connection
  metrics    \* ServiceMetrics

vars == <<offered, queue, holder, pc, conn, received, need, outcome, fate, metrics>>

Fates    == {"unseen", "open", "refused", "answered", "dropped"}
Counters == {"accepted", "rejected", "requests", "completed", "failures",
             "unauthorized", "oversized", "in_flight", "measured"}

\* A worker holds a connection from the receive to the end of the handler; it
\* is in the handler from the first counter to the guard's drop.
Handling   == {"reading", "routing", "writing", "measuring", "leaving"}
Holding    == {"taken"} \cup Handling
Unanswered == {"taken", "reading", "routing", "writing"}
Places     == {"idle", "receiving"} \cup Holding

Counted(names) ==
  [m \in Counters |-> IF m \in names THEN metrics[m] + 1 ELSE metrics[m]]

Init ==
  /\ offered = None
  /\ queue = << >>
  /\ holder = None
  /\ pc = [w \in Workers |-> "idle"]
  /\ conn = [w \in Workers |-> None]
  /\ received = [w \in Workers |-> 0]
  /\ need = [w \in Workers |-> None]
  /\ outcome = [c \in Connections |-> None]
  /\ fate = [c \in Connections |-> "unseen"]
  /\ metrics = [m \in Counters |-> 0]

-----------------------------------------------------------------------------
(* The acceptor *)

Accept(c) ==
  /\ offered = None
  /\ fate[c] = "unseen"
  /\ offered' = c
  /\ fate' = [fate EXCEPT ![c] = "open"]
  /\ metrics' = Counted({"accepted"})
  /\ UNCHANGED <<queue, holder, pc, conn, received, need, outcome>>

Enqueue ==
  /\ offered # None
  /\ Len(queue) < QueueCapacity
  /\ queue' = Append(queue, offered)
  /\ offered' = None
  /\ UNCHANGED <<holder, pc, conn, received, need, outcome, fate, metrics>>

\* try_send finds the queue full: 503 is written by the acceptor itself, and
\* whether that arrives makes no difference to it.
Refuse ==
  /\ offered # None
  /\ Len(queue) = QueueCapacity
  /\ fate' = [fate EXCEPT ![offered] = "refused"]
  /\ offered' = None
  /\ metrics' = Counted({"rejected"})
  /\ UNCHANGED <<queue, holder, pc, conn, received, need, outcome>>

-----------------------------------------------------------------------------
(* A worker takes a connection *)

LockReceiver(w) ==
  /\ pc[w] = "idle"
  /\ holder = None
  /\ holder' = w
  /\ pc' = [pc EXCEPT ![w] = "receiving"]
  /\ UNCHANGED <<offered, queue, conn, received, need, outcome, fate, metrics>>

\* Mutation: the connection is looked at and not taken.
ReceiveCopy(w) ==
  /\ pc[w] = "receiving"
  /\ queue # << >>
  /\ conn' = [conn EXCEPT ![w] = Head(queue)]
  /\ holder' = None
  /\ pc' = [pc EXCEPT ![w] = "taken"]
  /\ UNCHANGED <<offered, queue, received, need, outcome, fate, metrics>>

\* recv blocks while the queue is empty; the guard of the mutex ends with the
\* block that receives, before the connection is handled.
Receive(w) ==
  /\ pc[w] = "receiving"
  /\ queue # << >>
  /\ conn' = [conn EXCEPT ![w] = Head(queue)]
  /\ queue' = Tail(queue)
  /\ holder' = None
  /\ pc' = [pc EXCEPT ![w] = "taken"]
  /\ UNCHANGED <<offered, received, need, outcome, fate, metrics>>

\* handle_connection: the in-flight guard, the timeouts, the request counter.
Begin(w) ==
  /\ pc[w] = "taken"
  /\ pc' = [pc EXCEPT ![w] = "reading"]
  /\ metrics' = Counted({"in_flight", "requests"})
  /\ UNCHANGED <<offered, queue, holder, conn, received, need, outcome, fate>>

-----------------------------------------------------------------------------
(* The request is read and routed *)

\* The outcome is decided, and what was read is dropped; an error is counted
\* before it is written.
Decide(w, o) ==
  /\ received' = [received EXCEPT ![w] = 0]
  /\ need' = [need EXCEPT ![w] = None]
  /\ outcome' = [outcome EXCEPT ![conn[w]] = o]
  /\ pc' = [pc EXCEPT ![w] = "writing"]
  /\ metrics' = Counted(IF o = "ok" THEN {} ELSE {"failures", o} \cap Counters)

\* The request has total bytes so far, and length bytes in all.
Continue(w, total, length) ==
  /\ received' = [received EXCEPT ![w] = total]
  /\ need' = [need EXCEPT ![w] = length]
  /\ pc' = [pc EXCEPT ![w] = IF length # None /\ length <= total
                             THEN "routing" ELSE "reading"]
  /\ UNCHANGED <<outcome, metrics>>

\* The first loop of read_request, and the checks of a head that has arrived.
ReadHead(w) ==
  /\ pc[w] = "reading" /\ need[w] = None
  /\ \E total \in received[w] + 1 .. received[w] + Chunk :
       \/ /\ total > MaxBytes \/ total > MaxHeaderBytes
          /\ Decide(w, "oversized")
       \/ /\ total <= MaxBytes /\ total <= MaxHeaderBytes
          /\ Continue(w, total, None)
       \/ /\ total <= MaxBytes /\ total >= Terminator
          /\ Decide(w, "bad")
       \/ /\ total <= MaxBytes
          /\ \E end \in 0 .. MaxBytes, length \in 0 .. MaxBytes + 1 :
               /\ end + Terminator \in received[w] + 1 .. total
               /\ IF end + length > MaxBytes
                  THEN Decide(w, "oversized")
                  ELSE Continue(w, total, end + Terminator + length)
  /\ UNCHANGED <<offered, queue, holder, conn, fate>>

\* The second loop of read_request.
ReadBody(w) ==
  /\ pc[w] = "reading" /\ need[w] # None
  /\ \E total \in received[w] + 1 .. received[w] + Chunk :
       IF total > MaxBytes
       THEN Decide(w, "oversized")
       ELSE Continue(w, total, need[w])
  /\ UNCHANGED <<offered, queue, holder, conn, fate>>

\* The peer closes, the read times out or fails.
ReadFails(w) ==
  /\ pc[w] = "reading"
  /\ Decide(w, "bad")
  /\ UNCHANGED <<offered, queue, holder, conn, fate>>

\* route: the endpoint answers, or the request is unauthorized, malformed,
\* unknown, or carries a query that is too large.
Route(w) ==
  /\ pc[w] = "routing"
  /\ \E o \in Outcomes : Decide(w, o)
  /\ UNCHANGED <<offered, queue, holder, conn, fate>>

-----------------------------------------------------------------------------
(* The response is written and the connection left *)

Write(w) ==
  /\ pc[w] = "writing"
  /\ fate' = [fate EXCEPT ![conn[w]] = "answered"]
  /\ metrics' = Counted({"completed"})
  /\ pc' = [pc EXCEPT ![w] = "measuring"]
  /\ UNCHANGED <<offered, queue, holder, conn, received, need, outcome>>

\* The peer is gone or slower than the write timeout; an error response that
\* is not written counts as a second failure.
WriteFails(w) ==
  /\ pc[w] = "writing"
  /\ fate' = [fate EXCEPT ![conn[w]] = "dropped"]
  /\ metrics' = Counted({"failures"})
  /\ pc' = [pc EXCEPT ![w] = "measuring"]
  /\ UNCHANGED <<offered, queue, holder, conn, received, need, outcome>>

\* observe_latency, whatever became of the response.
Measure(w) ==
  /\ pc[w] = "measuring"
  /\ metrics' = Counted({"measured"})
  /\ pc' = [pc EXCEPT ![w] = "leaving"]
  /\ UNCHANGED <<offered, queue, holder, conn, received, need, outcome, fate>>

\* Mutation: only the handler that has answered gives its place back.
LeaveWhenAnswered(w) ==
  /\ pc[w] = "leaving"
  /\ metrics' = IF fate[conn[w]] = "answered"
                THEN [metrics EXCEPT !.in_flight = @ - 1] ELSE metrics
  /\ pc' = [pc EXCEPT ![w] = "idle"]
  /\ conn' = [conn EXCEPT ![w] = None]
  /\ UNCHANGED <<offered, queue, holder, received, need, outcome, fate>>

\* Mutation: the loop of a worker ends with the first error of its handler.
LeaveForGood(w) ==
  /\ pc[w] = "leaving"
  /\ fate[conn[w]] = "answered"
  /\ metrics' = [metrics EXCEPT !.in_flight = @ - 1]
  /\ pc' = [pc EXCEPT ![w] = "idle"]
  /\ conn' = [conn EXCEPT ![w] = None]
  /\ UNCHANGED <<offered, queue, holder, received, need, outcome, fate>>

\* The guard drops, the stream closes, the worker loops.
Leave(w) ==
  /\ pc[w] = "leaving"
  /\ metrics' = [metrics EXCEPT !.in_flight = @ - 1]
  /\ pc' = [pc EXCEPT ![w] = "idle"]
  /\ conn' = [conn EXCEPT ![w] = None]
  /\ UNCHANGED <<offered, queue, holder, received, need, outcome, fate>>

Acceptor == Enqueue \/ Refuse

Worker(w) ==
  \/ LockReceiver(w) \/ Receive(w) \/ Begin(w)
  \/ ReadHead(w) \/ ReadBody(w) \/ ReadFails(w) \/ Route(w)
  \/ Write(w) \/ WriteFails(w) \/ Measure(w) \/ Leave(w)

Next ==
  \/ \E c \in Connections : Accept(c)
  \/ Acceptor
  \/ \E w \in Workers : Worker(w)

Spec == Init /\ [][Next]_vars

\* Threads are scheduled.  Every read and write of a worker returns, because
\* handle_connection sets both timeouts; the acceptor's 503 fits the empty send
\* buffer of a new connection.  Nobody has to connect.
FairSpec == Spec /\ WF_vars(Acceptor) /\ \A w \in Workers : WF_vars(Worker(w))

-----------------------------------------------------------------------------
(* Properties *)

Open        == {c \in Connections : fate[c] = "open"}
Queued      == {queue[i] : i \in DOMAIN queue}
In(places)  == {w \in Workers : pc[w] \in places}
Served      == {conn[w] : w \in In(Unanswered)}

TypeOK ==
  /\ offered \in Connections \cup {None}
  /\ queue \in Seq(Connections) /\ Len(queue) <= QueueCapacity
  /\ holder \in Workers \cup {None}
  /\ pc \in [Workers -> Places]
  /\ conn \in [Workers -> Connections \cup {None}]
  /\ received \in [Workers -> 0 .. MaxBytes]
  /\ need \in [Workers -> Nat \cup {None}]
  /\ outcome \in [Connections -> Outcomes \cup {None}]
  /\ fate \in [Connections -> Fates]
  /\ metrics \in [Counters -> Nat]

\* No connection is lost on its way from the acceptor through the queue to a
\* worker, and none reaches two workers: a connection that is open is in exactly
\* one of these places, and nothing else is.
OnePlace ==
  /\ Open = ({offered} \ {None}) \cup Queued \cup Served
  /\ offered \notin Queued \cup Served
  /\ Queued \cap Served = {}
  /\ \A i, j \in DOMAIN queue : queue[i] = queue[j] => i = j
  /\ \A v, w \in In(Unanswered) : conn[v] = conn[w] => v = w

\* The mutex of the receiver is held by one worker, and only while it waits for
\* a connection: no request is served under it, which would serve them one by
\* one whatever --threads says.
MutexOnlyToReceive ==
  In({"receiving"}) = {holder} \ {None}

\* "When the queue is full, a new connection receives HTTP 503 immediately
\* instead of creating unbounded tasks or memory pressure": whatever peers do,
\* the service holds a connection per worker, a full queue, and the one that is
\* about to be refused.
BoundedWork ==
  Cardinality(Open) <= Cardinality(Workers) + QueueCapacity + 1

\* "explicit request [...] byte limits": a request is routed when it has arrived
\* as a whole, within the limit, and a head without end is given up at its own
\* limit.
RequestsFit ==
  \A w \in Workers :
    /\ pc[w] = "reading" /\ need[w] = None => received[w] <= MaxHeaderBytes
    /\ pc[w] = "reading" /\ need[w] # None => received[w] < need[w]
    /\ pc[w] = "routing" => need[w] <= received[w] /\ received[w] <= MaxBytes

\* What /metrics tells when it is read between two steps: every connection that
\* was accepted is refused, offered, queued, just taken or a request; every
\* request is completed, dropped or in flight; in_flight counts the handlers
\* that run; an error response that cannot be written is two failures.
Accounting ==
  LET Ended(f)   == Cardinality({c \in Connections : fate[c] = f})
      Decided(S) == Cardinality({c \in Connections : outcome[c] \in S})
  IN  /\ metrics.rejected = Ended("refused")
      /\ metrics.completed = Ended("answered")
      /\ metrics.failures = Decided(Errors) + Ended("dropped")
      /\ metrics.unauthorized = Decided({"unauthorized"})
      /\ metrics.oversized = Decided({"oversized"})
      /\ metrics.in_flight = Cardinality(In(Handling))
      /\ metrics.requests = Ended("answered") + Ended("dropped")
                              + Cardinality(In(Handling \cap Unanswered))
      /\ metrics.accepted = metrics.rejected + metrics.requests + Len(queue)
                              + Cardinality({offered} \ {None})
                              + Cardinality(In({"taken"}))

\* Every connection that is accepted is refused, answered or dropped in the end,
\* whatever its peer and the others do: workers that race for the mutex leave no
\* connection in the queue, and a peer that sends its request bit by bit is
\* stopped by the byte limit or the timeout.
EveryConnectionEnds ==
  \A c \in Connections : fate[c] = "open" ~> fate[c] # "open"
=============================================================================
