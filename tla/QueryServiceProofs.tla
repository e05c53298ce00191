-------------------------- MODULE QueryServiceProofs --------------------------
(***************************************************************************)
(* Theorems about QueryService, for every number of connections and        *)
(* workers and every capacity and byte limit.                              *)
(***************************************************************************)
EXTENDS QueryService, FiniteSetTheorems, TLAPS

-----------------------------------------------------------------------------
(* The inductive invariant *)

\* A worker has a connection from the receive to the end of the handler, and
\* holds bytes only while it reads and routes them.
Shape ==
  \A w \in Workers :
    /\ pc[w] \in Holding <=> conn[w] # None
    /\ pc[w] \notin {"reading", "routing"} => received[w] = 0 /\ need[w] = None

\* Accounting's part about in_flight, which keeps the counter from wrapping.
InFlight == metrics.in_flight = Cardinality(In(Handling))

IndInv ==
  /\ TypeOK
  /\ Shape
  /\ InFlight
  /\ MutexOnlyToReceive
  /\ OnePlace
  /\ RequestsFit

-----------------------------------------------------------------------------
(* Types *)

\* Counting keeps the counters natural numbers, and leaves the others alone.
LEMMA CountedType ==
  ASSUME TypeOK, NEW names
  PROVE  /\ Counted(names) \in [Counters -> Nat]
         /\ \A m \in Counters \ names : Counted(names)[m] = metrics[m]
         /\ \A m \in Counters \cap names : Counted(names)[m] = metrics[m] + 1
BY DEF TypeOK, Counted

\* What deciding does to the variables it changes.
LEMMA DecideType ==
  ASSUME TypeOK, NEW w \in Workers, NEW o \in Outcomes, Decide(w, o)
  PROVE  /\ received' \in [Workers -> 0 .. MaxBytes]
         /\ need' \in [Workers -> Nat \cup {None}]
         /\ outcome' \in [Connections -> Outcomes \cup {None}]
         /\ pc' \in [Workers -> Places]
         /\ metrics' \in [Counters -> Nat]
         /\ metrics'["in_flight"] = metrics["in_flight"]
<1>1. metrics' \in [Counters -> Nat]
  BY CountedType DEF Decide
<1>2. "in_flight" \in Counters \ (IF o = "ok" THEN {} ELSE {"failures", o} \cap Counters)
  BY DEF Counters, Outcomes, Errors
<1>3. metrics'["in_flight"] = metrics["in_flight"]
  BY <1>2, CountedType DEF Decide
<1>4. 0 \in 0 .. MaxBytes
  BY SizesAssumption
<1> QED
  BY <1>1, <1>3, <1>4 DEF Decide, TypeOK, Places, Holding, Handling

\* The same for a read that decides nothing.
LEMMA ContinueType ==
  ASSUME TypeOK, NEW w \in Workers, NEW total \in 0 .. MaxBytes,
         NEW length \in Nat \cup {None}, Continue(w, total, length)
  PROVE  /\ received' \in [Workers -> 0 .. MaxBytes]
         /\ need' \in [Workers -> Nat \cup {None}]
         /\ outcome' \in [Connections -> Outcomes \cup {None}]
         /\ pc' \in [Workers -> Places]
         /\ metrics' = metrics
BY DEF Continue, TypeOK, Places, Holding, Handling

\* A read decides an error or goes on with what it has.
LEMMA ReadCases ==
  ASSUME TypeOK, Shape, RequestsFit, NEW w \in Workers,
         ReadHead(w) \/ ReadBody(w) \/ ReadFails(w)
  PROVE  /\ pc[w] = "reading"
         /\ UNCHANGED <<offered, queue, holder, conn, fate>>
         /\ \/ \E o \in Errors : Decide(w, o)
            \/ \E total \in received[w] + 1 .. received[w] + Chunk :
               \E length \in Nat \cup {None} :
                 /\ total <= MaxBytes
                 /\ length = None => total <= MaxHeaderBytes
                 /\ Continue(w, total, length)
<1>1. CASE ReadHead(w)
  <2>1. PICK total \in received[w] + 1 .. received[w] + Chunk :
          \/ Decide(w, "oversized")
          \/ total <= MaxBytes /\ total <= MaxHeaderBytes /\ Continue(w, total, None)
          \/ Decide(w, "bad")
          \/ /\ total <= MaxBytes
             /\ \E end \in 0 .. MaxBytes, length \in 0 .. MaxBytes + 1 :
                  \/ Decide(w, "oversized")
                  \/ Continue(w, total, end + Terminator + length)
    BY <1>1 DEF ReadHead
  <2>2. CASE \/ Decide(w, "oversized") \/ Decide(w, "bad")
    BY <1>1, <2>2 DEF ReadHead, Errors
  <2>3. CASE total <= MaxBytes /\ total <= MaxHeaderBytes /\ Continue(w, total, None)
    BY <1>1, <2>3 DEF ReadHead
  <2>4. ASSUME total <= MaxBytes,
               NEW end \in 0 .. MaxBytes, NEW length \in 0 .. MaxBytes + 1,
               Continue(w, total, end + Terminator + length)
        PROVE  \E l \in Nat \cup {None} :
                 /\ total <= MaxBytes
                 /\ l = None => total <= MaxHeaderBytes
                 /\ Continue(w, total, l)
    <3>1. end + Terminator + length \in Nat
      BY SizesAssumption
    <3> QED
      BY <2>4, <3>1, NoneAssumption
  <2> QED
    BY <1>1, <2>1, <2>2, <2>3, <2>4 DEF ReadHead
<1>2. CASE ReadBody(w)
  <2>1. need[w] \in Nat \cup {None} /\ need[w] # None
    BY <1>2 DEF ReadBody, TypeOK
  <2>2. PICK total \in received[w] + 1 .. received[w] + Chunk :
          IF total > MaxBytes THEN Decide(w, "oversized") ELSE Continue(w, total, need[w])
    BY <1>2 DEF ReadBody
  <2>3. received[w] \in Nat
    BY SizesAssumption DEF TypeOK
  <2>4. total \in Nat
    BY <2>2, <2>3, SizesAssumption
  <2>5. CASE total > MaxBytes
    BY <1>2, <2>2, <2>5 DEF ReadBody, Errors
  <2>6. CASE ~(total > MaxBytes)
    <3>1. total <= MaxBytes
      BY <2>4, <2>6, SizesAssumption
    <3> QED
      BY <1>2, <2>1, <2>2, <2>6, <3>1 DEF ReadBody
  <2> QED
    BY <2>5, <2>6
<1>3. CASE ReadFails(w)
  BY <1>3 DEF ReadFails, Errors
<1> QED
  BY <1>1, <1>2, <1>3

-----------------------------------------------------------------------------
(* Each conjunct is preserved *)

\* A handler that leaves was counted.
LEMMA LeaverIsCounted ==
  ASSUME TypeOK, InFlight, NEW w \in Workers, pc[w] \in Handling
  PROVE  metrics.in_flight >= 1
<1>1. IsFiniteSet(In(Handling))
  BY WorkersAssumption, FS_Subset DEF In
<1>2. w \in In(Handling)
  BY DEF In
<1>3. Cardinality(In(Handling)) \in Nat /\ Cardinality(In(Handling)) # 0
  BY <1>1, <1>2, FS_CardinalityType, FS_EmptySet
<1> QED
  BY <1>3 DEF InFlight

LEMMA TypeInit == Init => TypeOK
<1> SUFFICES ASSUME Init PROVE TypeOK
  OBVIOUS
<1>1. queue \in Seq(Connections) /\ Len(queue) <= QueueCapacity
  BY SizesAssumption DEF Init
<1>2. 0 \in 0 .. MaxBytes /\ 0 \in Nat
  BY SizesAssumption
<1> QED
  BY <1>1, <1>2 DEF Init, TypeOK, Places, Fates

LEMMA TypeStep ==
  ASSUME IndInv, [Next]_vars
  PROVE  TypeOK'
<1> USE DEF IndInv
<1>1. ASSUME NEW c \in Connections, Accept(c) PROVE TypeOK'
  BY <1>1, CountedType DEF Accept, TypeOK, Fates
<1>2. ASSUME Enqueue PROVE TypeOK'
  <2>1. queue' \in Seq(Connections) /\ Len(queue') <= QueueCapacity
    BY <1>2, SizesAssumption DEF Enqueue, TypeOK
  <2> QED
    BY <1>2, <2>1 DEF Enqueue, TypeOK
<1>3. ASSUME Refuse PROVE TypeOK'
  BY <1>3, CountedType DEF Refuse, TypeOK, Fates
<1>4. ASSUME NEW w \in Workers, LockReceiver(w) PROVE TypeOK'
  BY <1>4 DEF LockReceiver, TypeOK, Places
<1>5. ASSUME NEW w \in Workers, Receive(w) PROVE TypeOK'
  <2>1. Head(queue) \in Connections
    BY <1>5 DEF Receive, TypeOK
  <2>2. queue' \in Seq(Connections) /\ Len(queue') <= QueueCapacity
    BY <1>5, SizesAssumption DEF Receive, TypeOK
  <2>3. pc' \in [Workers -> Places] /\ conn' \in [Workers -> Connections \cup {None}]
    BY <1>5, <2>1 DEF Receive, TypeOK, Places, Holding
  <2> QED
    BY <1>5, <2>2, <2>3 DEF Receive, TypeOK
<1>6. ASSUME NEW w \in Workers, Begin(w) PROVE TypeOK'
  BY <1>6, CountedType DEF Begin, TypeOK, Places, Holding, Handling
<1>7. ASSUME NEW w \in Workers, ReadHead(w) \/ ReadBody(w) \/ ReadFails(w) PROVE TypeOK'
  <2>1. UNCHANGED <<offered, queue, holder, conn, fate>>
    BY <1>7, ReadCases
  <2>2. CASE \E o \in Errors : Decide(w, o)
    BY <2>1, <2>2, DecideType DEF TypeOK, Outcomes
  <2>3. ASSUME NEW total \in received[w] + 1 .. received[w] + Chunk,
               NEW length \in Nat \cup {None},
               total <= MaxBytes, Continue(w, total, length)
        PROVE  TypeOK'
    <3>1. received[w] \in Nat
      BY SizesAssumption DEF TypeOK
    <3>2. total \in 0 .. MaxBytes
      BY <2>3, <3>1, SizesAssumption
    <3> QED
      BY <2>1, <2>3, <3>2, ContinueType DEF TypeOK
  <2> QED
    BY <1>7, <2>2, <2>3, ReadCases
<1>8. ASSUME NEW w \in Workers, Route(w) PROVE TypeOK'
  BY <1>8, DecideType DEF Route, TypeOK
<1>9. ASSUME NEW w \in Workers, Write(w) \/ WriteFails(w) PROVE TypeOK'
  <2>1. metrics' \in [Counters -> Nat]
    BY <1>9, CountedType DEF Write, WriteFails
  <2>2. fate' \in [Connections -> Fates]
    BY <1>9 DEF Write, WriteFails, TypeOK, Fates
  <2>3. pc' \in [Workers -> Places]
    BY <1>9 DEF Write, WriteFails, TypeOK, Places, Holding, Handling
  <2> QED
    BY <1>9, <2>1, <2>2, <2>3 DEF Write, WriteFails, TypeOK
<1>10. ASSUME NEW w \in Workers, Measure(w) PROVE TypeOK'
  BY <1>10, CountedType DEF Measure, TypeOK, Places, Holding, Handling
<1>11. ASSUME NEW w \in Workers, Leave(w) PROVE TypeOK'
  <2>1. metrics.in_flight - 1 \in Nat
    <3>1. pc[w] \in Handling
      BY <1>11 DEF Leave, Handling
    <3>2. metrics.in_flight \in Nat
      BY DEF TypeOK, Counters
    <3> QED
      BY <3>1, <3>2, LeaverIsCounted
  <2>2. metrics' \in [Counters -> Nat]
    BY <1>11, <2>1 DEF Leave, TypeOK
  <2> QED
    BY <1>11, <2>2 DEF Leave, TypeOK, Places
<1>12. CASE UNCHANGED vars
  BY <1>12 DEF vars, TypeOK
<1> QED
  BY <1>1, <1>2, <1>3, <1>4, <1>5, <1>6, <1>7, <1>8, <1>9, <1>10, <1>11, <1>12
  DEF Next, Acceptor, Worker

LEMMA ShapeStep ==
  ASSUME IndInv, [Next]_vars
  PROVE  Shape'
<1> USE DEF IndInv
<1>1. ASSUME (\E c \in Connections : Accept(c)) \/ Enqueue \/ Refuse PROVE Shape'
  BY <1>1 DEF Accept, Enqueue, Refuse, Shape
<1>2. ASSUME NEW w \in Workers, LockReceiver(w) PROVE Shape'
  BY <1>2 DEF LockReceiver, Shape, TypeOK, Holding, Handling
<1>3. ASSUME NEW w \in Workers, Receive(w) PROVE Shape'
  <2>1. Head(queue) \in Connections
    BY <1>3 DEF Receive, TypeOK
  <2> QED
    BY <1>3, <2>1, NoneAssumption DEF Receive, Shape, TypeOK, Holding, Handling
<1>4. ASSUME NEW w \in Workers, Begin(w) PROVE Shape'
  BY <1>4 DEF Begin, Shape, TypeOK, Holding, Handling
<1>5. ASSUME NEW w \in Workers, NEW o \in Outcomes, pc[w] \in Holding,
             Decide(w, o), UNCHANGED conn
      PROVE  Shape'
  BY <1>5 DEF Decide, Shape, TypeOK, Holding, Handling
<1>6. ASSUME NEW w \in Workers, ReadHead(w) \/ ReadBody(w) \/ ReadFails(w) PROVE Shape'
  <2>1. pc[w] \in Holding /\ pc[w] = "reading" /\ UNCHANGED conn
    BY <1>6, ReadCases DEF Holding, Handling
  <2>2. CASE \E o \in Errors : Decide(w, o)
    BY <1>5, <2>1, <2>2 DEF Outcomes
  <2>3. ASSUME NEW total, NEW length, Continue(w, total, length) PROVE Shape'
    BY <2>1, <2>3 DEF Continue, Shape, TypeOK, Holding, Handling
  <2> QED
    BY <1>6, <2>2, <2>3, ReadCases
<1>7. ASSUME NEW w \in Workers, Route(w) PROVE Shape'
  BY <1>5, <1>7 DEF Route, Holding, Handling
<1>8. ASSUME NEW w \in Workers, Write(w) \/ WriteFails(w) \/ Measure(w) PROVE Shape'
  BY <1>8 DEF Write, WriteFails, Measure, Shape, TypeOK, Holding, Handling
<1>9. ASSUME NEW w \in Workers, Leave(w) PROVE Shape'
  BY <1>9 DEF Leave, Shape, TypeOK, Holding, Handling
<1>10. CASE UNCHANGED vars
  BY <1>10 DEF vars, Shape
<1> QED
  BY <1>1, <1>2, <1>3, <1>4, <1>6, <1>7, <1>8, <1>9, <1>10 DEF Next, Acceptor, Worker

\* The requests: what read_request has promised of the bytes it holds.
LEMMA FitStep ==
  ASSUME IndInv, [Next]_vars
  PROVE  RequestsFit'
<1> USE DEF IndInv
<1>1. ASSUME (\E c \in Connections : Accept(c)) \/ Enqueue \/ Refuse PROVE RequestsFit'
  BY <1>1 DEF Accept, Enqueue, Refuse, RequestsFit
<1>2. ASSUME NEW w \in Workers,
             LockReceiver(w) \/ Receive(w) \/ Write(w) \/ WriteFails(w) \/ Measure(w) \/ Leave(w)
      PROVE  RequestsFit'
  BY <1>2 DEF LockReceiver, Receive, Write, WriteFails, Measure, Leave, RequestsFit, TypeOK
<1>3. ASSUME NEW w \in Workers, Begin(w) PROVE RequestsFit'
  <2>1. received[w] = 0 /\ need[w] = None
    BY <1>3 DEF Begin, Shape
  <2> QED
    BY <1>3, <2>1, SizesAssumption DEF Begin, RequestsFit, TypeOK
<1>4. ASSUME NEW w \in Workers, NEW o, Decide(w, o) PROVE RequestsFit'
  BY <1>4 DEF Decide, RequestsFit, TypeOK
<1>5. ASSUME NEW w \in Workers, ReadHead(w) \/ ReadBody(w) \/ ReadFails(w) PROVE RequestsFit'
  <2>1. ASSUME NEW total \in received[w] + 1 .. received[w] + Chunk,
               NEW length \in Nat \cup {None}, total <= MaxBytes,
               length = None => total <= MaxHeaderBytes, Continue(w, total, length)
        PROVE  RequestsFit'
    <3>1. received[w] \in Nat
      BY SizesAssumption DEF TypeOK
    <3>2. total \in Nat
      BY <3>1, SizesAssumption
    <3>3. received'[w] = total /\ need'[w] = length
      BY <2>1 DEF Continue, TypeOK
    <3>4. pc'[w] = IF length # None /\ length <= total THEN "routing" ELSE "reading"
      BY <2>1 DEF Continue, TypeOK
    <3>5. \A v \in Workers \ {w} : /\ pc'[v] = pc[v]
                                   /\ received'[v] = received[v]
                                   /\ need'[v] = need[v]
      BY <2>1 DEF Continue, TypeOK
    <3>6. length # None => length \in Nat
      OBVIOUS
    <3>7. /\ pc'[w] = "reading" /\ need'[w] = None => received'[w] <= MaxHeaderBytes
          /\ pc'[w] = "reading" /\ need'[w] # None => received'[w] < need'[w]
          /\ pc'[w] = "routing" => need'[w] <= received'[w] /\ received'[w] <= MaxBytes
      BY <2>1, <3>2, <3>3, <3>4, <3>6
    <3> QED
      BY <3>5, <3>7 DEF RequestsFit
  <2> QED
    BY <1>4, <1>5, <2>1, ReadCases
<1>6. ASSUME NEW w \in Workers, Route(w) PROVE RequestsFit'
  BY <1>4, <1>6 DEF Route
<1>7. CASE UNCHANGED vars
  BY <1>7 DEF vars, RequestsFit
<1> QED
  BY <1>1, <1>2, <1>3, <1>5, <1>6, <1>7 DEF Next, Acceptor, Worker

\* The mutex of the receiver.
LEMMA MutexStep ==
  ASSUME IndInv, [Next]_vars
  PROVE  MutexOnlyToReceive'
<1> USE DEF IndInv
<1>1. ASSUME (\E c \in Connections : Accept(c)) \/ Enqueue \/ Refuse PROVE MutexOnlyToReceive'
  BY <1>1 DEF Accept, Enqueue, Refuse, MutexOnlyToReceive, In
<1>2. ASSUME NEW w \in Workers, LockReceiver(w) PROVE MutexOnlyToReceive'
  <2>1. In({"receiving"}) = {}
    BY <1>2 DEF LockReceiver, MutexOnlyToReceive
  <2> QED
    BY <1>2, <2>1, NoneAssumption DEF LockReceiver, MutexOnlyToReceive, In, TypeOK
<1>3. ASSUME NEW w \in Workers, Receive(w) PROVE MutexOnlyToReceive'
  <2>1. w \in In({"receiving"})
    BY <1>3 DEF Receive, In
  <2>2. In({"receiving"}) = {w}
    BY <2>1 DEF MutexOnlyToReceive
  <2> QED
    BY <1>3, <2>2 DEF Receive, MutexOnlyToReceive, In, TypeOK
<1>4. ASSUME NEW w \in Workers, NEW place \in Places \ {"receiving"},
             pc[w] # "receiving", pc' = [pc EXCEPT ![w] = place], UNCHANGED holder
      PROVE  MutexOnlyToReceive'
  BY <1>4 DEF MutexOnlyToReceive, In, TypeOK
<1>5. ASSUME NEW w \in Workers, Begin(w) PROVE MutexOnlyToReceive'
  BY <1>4, <1>5 DEF Begin, Places, Holding, Handling
<1>6. ASSUME NEW w \in Workers, ReadHead(w) \/ ReadBody(w) \/ ReadFails(w) PROVE MutexOnlyToReceive'
  BY <1>4, <1>6, ReadCases DEF Decide, Continue, Places, Holding, Handling
<1>7. ASSUME NEW w \in Workers, Route(w) PROVE MutexOnlyToReceive'
  BY <1>4, <1>7 DEF Route, Decide, Places, Holding, Handling
<1>8. ASSUME NEW w \in Workers, Write(w) \/ WriteFails(w) \/ Measure(w) \/ Leave(w)
      PROVE  MutexOnlyToReceive'
  BY <1>4, <1>8 DEF Write, WriteFails, Measure, Leave, Places, Holding, Handling
<1>9. CASE UNCHANGED vars
  BY <1>9 DEF vars, MutexOnlyToReceive, In
<1> QED
  BY <1>1, <1>2, <1>3, <1>5, <1>6, <1>7, <1>8, <1>9 DEF Next, Acceptor, Worker

\* The handlers that run.
LEMMA FlightStep ==
  ASSUME IndInv, [Next]_vars
  PROVE  InFlight'
<1> USE DEF IndInv
<1>1. IsFiniteSet(In(Handling))
  BY WorkersAssumption, FS_Subset DEF In
<1>2. ASSUME metrics'["in_flight"] = metrics["in_flight"], In(Handling)' = In(Handling)
      PROVE  InFlight'
  BY <1>2 DEF InFlight
<1>3. ASSUME NEW names, "in_flight" \notin names, metrics' = Counted(names)
      PROVE  metrics'["in_flight"] = metrics["in_flight"]
  BY <1>3, CountedType DEF Counters
<1>4. ASSUME (\E c \in Connections : Accept(c)) \/ Enqueue \/ Refuse PROVE InFlight'
  <2>1. metrics'["in_flight"] = metrics["in_flight"]
    BY <1>3, <1>4 DEF Accept, Enqueue, Refuse
  <2> QED
    BY <1>2, <1>4, <2>1 DEF Accept, Enqueue, Refuse, In
<1>5. ASSUME NEW w \in Workers, LockReceiver(w) \/ Receive(w) PROVE InFlight'
  <2>1. In(Handling)' = In(Handling)
    BY <1>5 DEF LockReceiver, Receive, In, Handling, TypeOK
  <2> QED
    BY <1>2, <1>5, <2>1 DEF LockReceiver, Receive
<1>6. ASSUME NEW w \in Workers, Begin(w) PROVE InFlight'
  <2>1. In(Handling)' = In(Handling) \cup {w} /\ w \notin In(Handling)
    BY <1>6 DEF Begin, In, Handling, TypeOK
  <2>2. Cardinality(In(Handling)') = Cardinality(In(Handling)) + 1
    BY <1>1, <2>1, FS_AddElement
  <2>3. metrics'["in_flight"] = metrics["in_flight"] + 1
    BY <1>6, CountedType DEF Begin, Counters
  <2> QED
    BY <2>2, <2>3 DEF InFlight
<1>7. ASSUME NEW w \in Workers, NEW place \in Handling, pc[w] \in Handling,
             pc' = [pc EXCEPT ![w] = place]
      PROVE  In(Handling)' = In(Handling)
  BY <1>7 DEF In, TypeOK
<1>8. ASSUME NEW w \in Workers, NEW o \in Outcomes, pc[w] \in Handling, Decide(w, o)
      PROVE  InFlight'
  <2>1. metrics'["in_flight"] = metrics["in_flight"]
    BY <1>8, DecideType
  <2>2. In(Handling)' = In(Handling)
    BY <1>7, <1>8 DEF Decide, Handling
  <2> QED
    BY <1>2, <2>1, <2>2
<1>9. ASSUME NEW w \in Workers, ReadHead(w) \/ ReadBody(w) \/ ReadFails(w) PROVE InFlight'
  <2>1. pc[w] \in Handling
    BY <1>9, ReadCases DEF Handling
  <2>2. ASSUME NEW total, NEW length, Continue(w, total, length) PROVE InFlight'
    <3>1. In(Handling)' = In(Handling)
      BY <1>7, <2>1, <2>2 DEF Continue, Handling
    <3> QED
      BY <1>2, <2>2, <3>1 DEF Continue
  <2> QED
    BY <1>8, <1>9, <2>1, <2>2, ReadCases DEF Outcomes
<1>10. ASSUME NEW w \in Workers, Route(w) PROVE InFlight'
  BY <1>8, <1>10 DEF Route, Handling
<1>11. ASSUME NEW w \in Workers, Write(w) \/ WriteFails(w) \/ Measure(w) PROVE InFlight'
  <2>1. metrics'["in_flight"] = metrics["in_flight"]
    BY <1>3, <1>11 DEF Write, WriteFails, Measure
  <2>2. In(Handling)' = In(Handling)
    BY <1>7, <1>11 DEF Write, WriteFails, Measure, Handling
  <2> QED
    BY <1>2, <2>1, <2>2
<1>12. ASSUME NEW w \in Workers, Leave(w) PROVE InFlight'
  <2>1. In(Handling)' = In(Handling) \ {w} /\ w \in In(Handling)
    BY <1>12 DEF Leave, In, Handling, TypeOK
  <2>2. Cardinality(In(Handling)') = Cardinality(In(Handling)) - 1
    BY <1>1, <2>1, FS_RemoveElement
  <2>3. metrics'["in_flight"] = metrics["in_flight"] - 1
    BY <1>12 DEF Leave, TypeOK, Counters
  <2> QED
    BY <2>2, <2>3 DEF InFlight
<1>13. CASE UNCHANGED vars
  BY <1>13 DEF vars, InFlight, In
<1> QED
  BY <1>4, <1>5, <1>6, <1>9, <1>10, <1>11, <1>12, <1>13 DEF Next, Acceptor, Worker

\* The places of the open connections.
LEMMA PlaceStep ==
  ASSUME IndInv, [Next]_vars
  PROVE  OnePlace'
<1> USE DEF IndInv
<1>1. Queued \subseteq Connections
  BY DEF Queued, TypeOK
<1>2. Served \subseteq Connections
  BY DEF Served, In, Unanswered, Shape, TypeOK, Holding, Handling
<1>3. None \notin Connections
  BY NoneAssumption
<1>4. ASSUME NEW c \in Connections, Accept(c) PROVE OnePlace'
  <2>1. Open' = Open \cup {c} /\ c \notin Open
    BY <1>4 DEF Accept, Open, TypeOK
  <2>2. Queued' = Queued /\ Served' = Served /\ In(Unanswered)' = In(Unanswered)
    BY <1>4 DEF Accept, Queued, Served, In
  <2>3. offered = None /\ offered' = c /\ UNCHANGED <<queue, conn>>
    BY <1>4 DEF Accept
  <2>4. Open = Queued \cup Served
    BY <1>1, <1>2, <1>3, <2>3 DEF OnePlace
  <2> QED
    BY <1>3, <2>1, <2>2, <2>3, <2>4 DEF OnePlace
<1>5. ASSUME Enqueue PROVE OnePlace'
  <2>1. Queued' = Queued \cup {offered}
    <3>1. /\ Len(queue) \in Nat /\ DOMAIN queue = 1 .. Len(queue)
          /\ DOMAIN queue' = 1 .. Len(queue) + 1
          /\ \A i \in DOMAIN queue : queue'[i] = queue[i]
          /\ queue'[Len(queue) + 1] = offered
      BY <1>5 DEF Enqueue, TypeOK
    <3>2. DOMAIN queue' = DOMAIN queue \cup {Len(queue) + 1}
      BY <3>1
    <3> QED
      BY <3>1, <3>2 DEF Queued
  <2>2. Open' = Open /\ Served' = Served /\ In(Unanswered)' = In(Unanswered)
    BY <1>5 DEF Enqueue, Open, Served, In
  <2>3. offered # None /\ offered' = None /\ UNCHANGED conn
    BY <1>5 DEF Enqueue
  <2>4. \A i, j \in DOMAIN queue' : queue'[i] = queue'[j] => i = j
    <3>1. offered \notin Queued
      BY DEF OnePlace
    <3> QED
      BY <1>5, <3>1 DEF Enqueue, Queued, OnePlace, TypeOK
  <2>5. None \notin Queued' \cup Served'
    BY <1>1, <1>2, <1>3, <2>1, <2>2, <2>3
  <2> QED
    BY <2>1, <2>2, <2>3, <2>4, <2>5 DEF OnePlace
<1>6. ASSUME Refuse PROVE OnePlace'
  <2>1. offered \in Connections
    BY <1>6 DEF Refuse, TypeOK
  <2>2. Open' = Open \ {offered}
    BY <1>6, <2>1 DEF Refuse, Open, TypeOK
  <2>3. Queued' = Queued /\ Served' = Served /\ In(Unanswered)' = In(Unanswered)
    BY <1>6 DEF Refuse, Queued, Served, In
  <2>4. offered' = None /\ UNCHANGED <<queue, conn>>
    BY <1>6 DEF Refuse
  <2> QED
    BY <1>1, <1>2, <1>3, <2>1, <2>2, <2>3, <2>4 DEF OnePlace
<1>7. ASSUME NEW w \in Workers, Receive(w) PROVE OnePlace'
  <2>1. w \notin In(Unanswered) /\ In(Unanswered)' = In(Unanswered) \cup {w}
    BY <1>7 DEF Receive, In, Unanswered, TypeOK
  <2>2. /\ conn'[w] = Head(queue)
        /\ \A v \in In(Unanswered) : conn'[v] = conn[v]
    BY <1>7, <2>1 DEF Receive, In, TypeOK
  <2>3. Served' = Served \cup {Head(queue)}
    BY <2>1, <2>2 DEF Served
  <2>4. /\ Len(queue) \in Nat \ {0} /\ DOMAIN queue = 1 .. Len(queue)
        /\ DOMAIN queue' = 1 .. Len(queue) - 1
        /\ \A i \in DOMAIN queue' : queue'[i] = queue[i + 1]
        /\ Head(queue) = queue[1]
    BY <1>7 DEF Receive, TypeOK
  <2>5. Head(queue) \in Queued
    BY <2>4 DEF Queued
  <2>6. \A i, j \in DOMAIN queue : queue[i] = queue[j] => i = j
    BY DEF OnePlace
  <2>7. Queued' = Queued \ {Head(queue)}
    <3>1. ASSUME NEW i \in DOMAIN queue' PROVE queue'[i] \in Queued \ {Head(queue)}
      <4>1. i + 1 \in DOMAIN queue /\ 1 \in DOMAIN queue /\ i + 1 # 1
        BY <2>4
      <4> QED
        BY <2>4, <2>6, <4>1 DEF Queued
    <3>2. ASSUME NEW i \in DOMAIN queue, queue[i] # Head(queue) PROVE queue[i] \in Queued'
      <4>1. i - 1 \in DOMAIN queue' /\ queue'[i - 1] = queue[i]
        BY <2>4, <3>2
      <4> QED
        BY <4>1 DEF Queued
    <3> QED
      BY <3>1, <3>2 DEF Queued
  <2>8. \A i, j \in DOMAIN queue' : queue'[i] = queue'[j] => i = j
    BY <2>4, <2>6
  <2>9. UNCHANGED <<offered, fate>> /\ Open' = Open
    BY <1>7 DEF Receive, Open
  <2>10. Head(queue) \notin Served /\ Head(queue) # offered
    BY <2>5 DEF OnePlace
  <2>11. \A v \in In(Unanswered) : conn[v] \in Served
    BY DEF Served
  <2>12. \A u, v \in In(Unanswered)' : conn'[u] = conn'[v] => u = v
    BY <2>1, <2>2, <2>10, <2>11 DEF OnePlace
  <2> QED
    BY <2>3, <2>5, <2>7, <2>8, <2>9, <2>10, <2>12 DEF OnePlace
<1>8. ASSUME UNCHANGED <<offered, queue, fate>>, In(Unanswered)' = In(Unanswered),
             \A v \in In(Unanswered) : conn'[v] = conn[v]
      PROVE  OnePlace'
  <2>1. Open' = Open /\ Queued' = Queued /\ Served' = Served
    BY <1>8 DEF Open, Queued, Served
  <2> QED
    BY <1>8, <2>1 DEF OnePlace
<1>9. ASSUME NEW w \in Workers, NEW place \in Unanswered, pc[w] \in Unanswered,
             pc' = [pc EXCEPT ![w] = place]
      PROVE  In(Unanswered)' = In(Unanswered)
  BY <1>9 DEF In, TypeOK
<1>10. ASSUME NEW w \in Workers, NEW place \in Places \ Unanswered, pc[w] \notin Unanswered,
              pc' = [pc EXCEPT ![w] = place]
       PROVE  In(Unanswered)' = In(Unanswered)
  BY <1>10 DEF In, TypeOK
<1>11. ASSUME NEW w \in Workers, LockReceiver(w) \/ Measure(w) PROVE OnePlace'
  <2>1. In(Unanswered)' = In(Unanswered)
    BY <1>10, <1>11 DEF LockReceiver, Measure, Places, Holding, Handling, Unanswered
  <2> QED
    BY <1>8, <1>11, <2>1 DEF LockReceiver, Measure
<1>12. ASSUME NEW w \in Workers, Leave(w) PROVE OnePlace'
  <2>1. In(Unanswered)' = In(Unanswered)
    BY <1>10, <1>12 DEF Leave, Places, Unanswered
  <2>2. \A v \in In(Unanswered) : conn'[v] = conn[v]
    BY <1>12 DEF Leave, In, Unanswered, TypeOK
  <2> QED
    BY <1>8, <1>12, <2>1, <2>2 DEF Leave
<1>13. ASSUME NEW w \in Workers, Begin(w) PROVE OnePlace'
  <2>1. In(Unanswered)' = In(Unanswered)
    BY <1>9, <1>13 DEF Begin, Unanswered
  <2> QED
    BY <1>8, <1>13, <2>1 DEF Begin
<1>14. ASSUME NEW w \in Workers, ReadHead(w) \/ ReadBody(w) \/ ReadFails(w) PROVE OnePlace'
  <2>1. pc[w] \in Unanswered /\ UNCHANGED <<offered, queue, conn, fate>>
    BY <1>14, ReadCases DEF Unanswered
  <2>2. \/ \E o \in Errors : Decide(w, o)
        \/ \E total, length : Continue(w, total, length)
    BY <1>14, ReadCases
  <2>3. PICK place \in Unanswered : pc' = [pc EXCEPT ![w] = place]
    BY <2>2 DEF Decide, Continue, Unanswered
  <2>4. In(Unanswered)' = In(Unanswered)
    BY <1>9, <2>1, <2>3
  <2> QED
    BY <1>8, <2>1, <2>4
<1>15. ASSUME NEW w \in Workers, Route(w) PROVE OnePlace'
  <2>1. In(Unanswered)' = In(Unanswered)
    BY <1>9, <1>15 DEF Route, Decide, Unanswered
  <2> QED
    BY <1>8, <1>15, <2>1 DEF Route
<1>16. ASSUME NEW w \in Workers, Write(w) \/ WriteFails(w) PROVE OnePlace'
  <2>1. w \in In(Unanswered) /\ In(Unanswered)' = In(Unanswered) \ {w}
    BY <1>16 DEF Write, WriteFails, In, Unanswered, TypeOK
  <2>2. UNCHANGED <<offered, queue, conn>> /\ Queued' = Queued
    BY <1>16 DEF Write, WriteFails, Queued
  <2>3. conn[w] \in Served /\ conn[w] \in Connections
    BY <1>2, <2>1 DEF Served
  <2>4. Open' = Open \ {conn[w]}
    BY <1>16, <2>3 DEF Write, WriteFails, Open, TypeOK
  <2>5. Served' = Served \ {conn[w]}
    <3>1. \A u, v \in In(Unanswered) : conn[u] = conn[v] => u = v
      BY DEF OnePlace
    <3> QED
      BY <2>1, <2>2, <3>1 DEF Served
  <2>6. \A u, v \in In(Unanswered)' : conn'[u] = conn'[v] => u = v
    BY <2>1, <2>2 DEF OnePlace
  <2> QED
    BY <2>2, <2>3, <2>4, <2>5, <2>6 DEF OnePlace
<1>17. CASE UNCHANGED vars
  BY <1>8, <1>17 DEF vars, In
<1> QED
  BY <1>4, <1>5, <1>6, <1>7, <1>11, <1>12, <1>13, <1>14, <1>15, <1>16, <1>17
  DEF Next, Acceptor, Worker

-----------------------------------------------------------------------------
(* The invariant holds, and what follows from it *)

LEMMA IndInit == Init => IndInv
<1> SUFFICES ASSUME Init PROVE IndInv
  OBVIOUS
<1>1. TypeOK
  BY TypeInit
<1>2. Shape /\ RequestsFit
  BY DEF Init, Shape, RequestsFit, Holding, Handling
<1>3. In(Handling) = {} /\ In(Unanswered) = {} /\ In({"receiving"}) = {}
  BY DEF Init, In, Handling, Unanswered
<1>4. InFlight
  BY <1>3, FS_EmptySet DEF Init, InFlight, Counters
<1>5. MutexOnlyToReceive
  BY <1>3 DEF Init, MutexOnlyToReceive
<1>6. Open = {} /\ Queued = {} /\ Served = {} /\ DOMAIN queue = {}
  BY <1>3 DEF Init, Open, Queued, Served
<1>7. OnePlace
  BY <1>3, <1>6 DEF Init, OnePlace
<1> QED
  BY <1>1, <1>2, <1>4, <1>5, <1>7 DEF IndInv

LEMMA IndStep == IndInv /\ [Next]_vars => IndInv'
BY TypeStep, ShapeStep, FlightStep, MutexStep, PlaceStep, FitStep DEF IndInv

\* The invariant on which the other theorems rest: types, the shape of the
\* workers, the in-flight count, the mutex, the places and the requests.
THEOREM Inductive == Spec => []IndInv
<1> QED
  BY IndInit, IndStep, PTL DEF Spec

\* Every variable of the service keeps its type; in particular in_flight never
\* wraps below zero and the queue never exceeds its capacity.
THEOREM TypeCorrect == Spec => []TypeOK
<1>1. IndInv => TypeOK
  BY DEF IndInv
<1> QED
  BY <1>1, Inductive, PTL

\* The receiver is locked only by the worker that waits for a connection.
THEOREM ServesUnlocked == Spec => []MutexOnlyToReceive
<1>1. IndInv => MutexOnlyToReceive
  BY DEF IndInv
<1> QED
  BY <1>1, Inductive, PTL

\* Every open connection is with the acceptor, in the queue or with one worker.
THEOREM NoneIsLost == Spec => []OnePlace
<1>1. IndInv => OnePlace
  BY DEF IndInv
<1> QED
  BY <1>1, Inductive, PTL

\* Only complete requests within the byte limit are routed.
THEOREM RequestsAreComplete == Spec => []RequestsFit
<1>1. IndInv => RequestsFit
  BY DEF IndInv
<1> QED
  BY <1>1, Inductive, PTL

\* A sequence has at most as many members as positions.
LEMMA QueuedIsBounded ==
  ASSUME TypeOK
  PROVE  IsFiniteSet(Queued) /\ Cardinality(Queued) <= QueueCapacity
<1>1. Len(queue) \in Nat /\ DOMAIN queue = 1 .. Len(queue) /\ Len(queue) <= QueueCapacity
  BY DEF TypeOK
<1>2. IsFiniteSet(DOMAIN queue) /\ Cardinality(DOMAIN queue) = Len(queue)
  <2>1. /\ IsFiniteSet(1 .. Len(queue))
        /\ Cardinality(1 .. Len(queue))
             = IF 1 > Len(queue) THEN 0 ELSE Len(queue) - 1 + 1
    BY <1>1, FS_Interval
  <2> QED
    BY <1>1, <2>1
<1>3. queue \in Surjection(DOMAIN queue, Queued)
  BY DEF Surjection, Queued, TypeOK
<1>4. IsFiniteSet(Queued) /\ Cardinality(Queued) <= Cardinality(DOMAIN queue)
  BY <1>2, <1>3, FS_Surjection
<1>5. Cardinality(Queued) \in Nat
  BY <1>4, FS_CardinalityType
<1> QED
  BY <1>1, <1>2, <1>4, <1>5, SizesAssumption

\* The workers hold at most one connection each.
LEMMA ServedIsBounded ==
  IsFiniteSet(Served) /\ Cardinality(Served) <= Cardinality(Workers)
<1>1. IsFiniteSet(In(Unanswered)) /\ Cardinality(In(Unanswered)) <= Cardinality(Workers)
  BY WorkersAssumption, FS_Subset DEF In
<1> DEFINE f == [w \in In(Unanswered) |-> conn[w]]
<1>2. f \in Surjection(In(Unanswered), Served)
  BY DEF Surjection, Served
<1>3. IsFiniteSet(Served) /\ Cardinality(Served) <= Cardinality(In(Unanswered))
  BY <1>1, <1>2, FS_Surjection
<1>4. /\ Cardinality(Served) \in Nat /\ Cardinality(In(Unanswered)) \in Nat
      /\ Cardinality(Workers) \in Nat
  BY <1>1, <1>3, WorkersAssumption, FS_CardinalityType
<1> QED
  BY <1>1, <1>3, <1>4

\* However many connections peers make, the service holds at most one per
\* worker, a full queue, and the one the acceptor is about to place.
THEOREM WorkIsBounded == Spec => []BoundedWork
<1>1. ASSUME IndInv PROVE BoundedWork
  <2>1. Open = ({offered} \ {None}) \cup (Queued \cup Served)
    BY <1>1 DEF IndInv, OnePlace
  <2>2. IsFiniteSet(Queued) /\ Cardinality(Queued) <= QueueCapacity
    BY <1>1, QueuedIsBounded DEF IndInv
  <2>3. IsFiniteSet(Served) /\ Cardinality(Served) <= Cardinality(Workers)
    BY ServedIsBounded
  <2>4. /\ IsFiniteSet(Queued \cup Served)
        /\ Cardinality(Queued \cup Served)
             = Cardinality(Queued) + Cardinality(Served) - Cardinality(Queued \cap Served)
    BY <2>2, <2>3, FS_Union
  <2>5. Queued \cap Served = {} /\ Cardinality({}) = 0
    BY <1>1, FS_EmptySet DEF IndInv, OnePlace
  <2>6. /\ Cardinality(Queued) \in Nat /\ Cardinality(Served) \in Nat
        /\ Cardinality(Workers) \in Nat /\ Cardinality(Queued \cup Served) \in Nat
    BY <2>2, <2>3, <2>4, WorkersAssumption, FS_CardinalityType
  <2>7. Cardinality(Queued \cup Served) <= Cardinality(Workers) + QueueCapacity
    <3>1. Cardinality(Queued \cap Served) = 0
      BY <2>5
    <3>2. QueueCapacity \in Nat
      BY SizesAssumption
    <3> QED
      BY <2>2, <2>3, <2>4, <2>6, <3>1, <3>2
  <2>8. CASE offered = None
    <3>1. Open = Queued \cup Served
      BY <2>1, <2>8
    <3> QED
      BY <2>6, <2>7, <3>1, SizesAssumption DEF BoundedWork
  <2>9. CASE offered # None
    <3>1. Open = (Queued \cup Served) \cup {offered} /\ offered \notin Queued \cup Served
      BY <1>1, <2>1, <2>9 DEF IndInv, OnePlace
    <3>2. Cardinality(Open) = Cardinality(Queued \cup Served) + 1
      BY <2>4, <3>1, FS_AddElement
    <3> QED
      BY <2>6, <2>7, <3>2, SizesAssumption DEF BoundedWork
  <2> QED
    BY <2>8, <2>9
<1> QED
  BY <1>1, Inductive, PTL

-----------------------------------------------------------------------------
(* The counters add up *)

Ended(f) == {c \in Connections : fate[c] = f}
Decided(S) == {c \in Connections : outcome[c] \in S}
Seen == {c \in Connections : fate[c] # "unseen"}

\* Nothing is decided for a connection before its worker writes.
DecidedOnce ==
  \A c \in Connections : outcome[c] # None =>
    \/ fate[c] \in {"answered", "dropped"}
    \/ \E w \in Workers : pc[w] = "writing" /\ conn[w] = c

\* Finitely many connections were accepted, whatever Connections is.
AccountInv ==
  /\ IndInv
  /\ IsFiniteSet(Seen)
  /\ DecidedOnce
  /\ Accounting

\* All that is counted is finite.
LEMMA CountsAreNatural ==
  ASSUME IndInv, IsFiniteSet(Seen), DecidedOnce
  PROVE  /\ \A f \in Fates \ {"unseen"} :
              IsFiniteSet(Ended(f)) /\ Cardinality(Ended(f)) \in Nat
         /\ \A S \in SUBSET Outcomes :
              IsFiniteSet(Decided(S)) /\ Cardinality(Decided(S)) \in Nat
         /\ \A places \in SUBSET Places :
              IsFiniteSet(In(places)) /\ Cardinality(In(places)) \in Nat
         /\ Cardinality({offered} \ {None}) \in Nat
         /\ Len(queue) \in Nat
<1>1. ASSUME NEW f \in Fates \ {"unseen"}
      PROVE  IsFiniteSet(Ended(f)) /\ Cardinality(Ended(f)) \in Nat
  <2>1. Ended(f) \in SUBSET Seen
    BY <1>1 DEF Ended, Seen
  <2> QED
    BY <2>1, FS_Subset, FS_CardinalityType
<1>2. ASSUME NEW S \in SUBSET Outcomes
      PROVE  IsFiniteSet(Decided(S)) /\ Cardinality(Decided(S)) \in Nat
  <2>1. ASSUME NEW c \in Connections, outcome[c] # None PROVE c \in Seen
    <3>1. CASE fate[c] \in {"answered", "dropped"}
      BY <3>1 DEF Seen
    <3>2. CASE \E w \in Workers : pc[w] = "writing" /\ conn[w] = c
      <4>1. c \in Open
        BY <3>2 DEF IndInv, OnePlace, Served, In, Unanswered
      <4> QED
        BY <4>1 DEF Open, Seen
    <3> QED
      BY <2>1, <3>1, <3>2 DEF DecidedOnce
  <2>2. Decided(S) \in SUBSET Seen
    BY <2>1, NoneAssumption DEF Decided
  <2> QED
    BY <2>2, FS_Subset, FS_CardinalityType
<1>3. ASSUME NEW places PROVE IsFiniteSet(In(places)) /\ Cardinality(In(places)) \in Nat
  <2>1. In(places) \in SUBSET Workers
    BY DEF In
  <2> QED
    BY <2>1, WorkersAssumption, FS_Subset, FS_CardinalityType
<1>4. Cardinality({offered} \ {None}) \in Nat
  <2>1. IsFiniteSet({offered}) /\ {offered} \ {None} \in SUBSET {offered}
    BY FS_Singleton
  <2> QED
    BY <2>1, FS_Subset, FS_CardinalityType
<1>5. Len(queue) \in Nat
  BY DEF IndInv, TypeOK
<1> QED
  BY <1>1, <1>2, <1>3, <1>4, <1>5

\* A connection that gets another fate is counted where it arrives.
LEMMA FateMoves ==
  ASSUME IndInv, IsFiniteSet(Seen), DecidedOnce,
         NEW c \in Connections, NEW f \in Fates \ {"unseen"},
         fate[c] # f, fate' = [fate EXCEPT ![c] = f]
  PROVE  /\ Cardinality(Ended(f)') = Cardinality(Ended(f)) + 1
         /\ \A g \in Fates \ {f, fate[c]} : Ended(g)' = Ended(g)
         /\ IsFiniteSet(Seen')
<1>1. Ended(f)' = Ended(f) \cup {c} /\ c \notin Ended(f)
  BY DEF Ended, IndInv, TypeOK
<1>2. Cardinality(Ended(f)') = Cardinality(Ended(f)) + 1
  BY <1>1, CountsAreNatural, FS_AddElement
<1>3. \A g \in Fates \ {f, fate[c]} : Ended(g)' = Ended(g)
  BY DEF Ended, IndInv, TypeOK
<1>4. Seen' = Seen \cup {c}
  BY DEF Seen, IndInv, TypeOK
<1> QED
  BY <1>2, <1>3, <1>4, FS_AddElement

\* A worker that goes from one place to another.
LEMMA WorkerMoves ==
  ASSUME IndInv, IsFiniteSet(Seen), DecidedOnce,
         NEW w \in Workers, NEW place \in Places, pc' = [pc EXCEPT ![w] = place]
  PROVE  \A places \in SUBSET Places :
           /\ pc[w] \in places /\ place \notin places =>
                Cardinality(In(places)') = Cardinality(In(places)) - 1
           /\ pc[w] \notin places /\ place \in places =>
                Cardinality(In(places)') = Cardinality(In(places)) + 1
           /\ (pc[w] \in places <=> place \in places) => In(places)' = In(places)
<1> TAKE places \in SUBSET Places
<1>1. IsFiniteSet(In(places))
  BY CountsAreNatural
<1>2. ASSUME pc[w] \in places, place \notin places
      PROVE  Cardinality(In(places)') = Cardinality(In(places)) - 1
  <2>1. In(places)' = In(places) \ {w} /\ w \in In(places)
    BY <1>2 DEF In, IndInv, TypeOK
  <2> QED
    BY <1>1, <2>1, FS_RemoveElement
<1>3. ASSUME pc[w] \notin places, place \in places
      PROVE  Cardinality(In(places)') = Cardinality(In(places)) + 1
  <2>1. In(places)' = In(places) \cup {w} /\ w \notin In(places)
    BY <1>3 DEF In, IndInv, TypeOK
  <2> QED
    BY <1>1, <2>1, FS_AddElement
<1>4. ASSUME pc[w] \in places <=> place \in places PROVE In(places)' = In(places)
  BY <1>4 DEF In, IndInv, TypeOK
<1> QED
  BY <1>2, <1>3, <1>4

\* A decision is counted once, as what it is.
LEMMA DecisionCounts ==
  ASSUME IndInv, IsFiniteSet(Seen), DecidedOnce,
         NEW w \in Workers, pc[w] \in {"reading", "routing"},
         NEW o \in Outcomes, Decide(w, o), UNCHANGED <<conn, fate>>
  PROVE  /\ \A S \in SUBSET Outcomes :
              Cardinality(Decided(S)') = IF o \in S THEN Cardinality(Decided(S)) + 1
                                                    ELSE Cardinality(Decided(S))
         /\ DecidedOnce'
<1>1. conn[w] \in Connections /\ conn[w] \in Served
  BY DEF IndInv, Shape, TypeOK, Holding, Handling, Served, In, Unanswered
<1>2. fate[conn[w]] = "open"
  BY <1>1 DEF IndInv, OnePlace, Open
<1>3. ASSUME NEW v \in Workers, pc[v] = "writing" PROVE conn[v] # conn[w]
  <2>1. v \in In(Unanswered) /\ w \in In(Unanswered) /\ v # w
    BY <1>3 DEF In, Unanswered
  <2> QED
    BY <2>1 DEF IndInv, OnePlace
<1>4. outcome[conn[w]] = None
  BY <1>1, <1>2, <1>3 DEF DecidedOnce
<1>5. outcome' = [outcome EXCEPT ![conn[w]] = o] /\ pc' = [pc EXCEPT ![w] = "writing"]
  BY DEF Decide
<1>6. ASSUME NEW S \in SUBSET Outcomes
      PROVE  Cardinality(Decided(S)') = IF o \in S THEN Cardinality(Decided(S)) + 1
                                                   ELSE Cardinality(Decided(S))
  <2>1. conn[w] \notin Decided(S)
    BY <1>4, NoneAssumption DEF Decided
  <2>2. CASE o \in S
    <3>1. Decided(S)' = Decided(S) \cup {conn[w]}
      BY <1>1, <1>5, <2>2 DEF Decided, IndInv, TypeOK
    <3> QED
      BY <2>1, <2>2, <3>1, CountsAreNatural, FS_AddElement
  <2>3. CASE o \notin S
    <3>1. Decided(S)' = Decided(S)
      BY <1>1, <1>5, <2>1, <2>3 DEF Decided, IndInv, TypeOK
    <3> QED
      BY <2>3, <3>1
  <2> QED
    BY <2>2, <2>3
<1>7. ASSUME NEW c \in Connections, outcome'[c] # None
      PROVE  \/ fate'[c] \in {"answered", "dropped"}
             \/ \E v \in Workers : pc'[v] = "writing" /\ conn'[v] = c
  <2>1. CASE c = conn[w]
    BY <1>5, <2>1 DEF IndInv, TypeOK
  <2>2. CASE c # conn[w]
    <3>1. outcome[c] # None
      BY <1>5, <1>7, <2>2 DEF IndInv, TypeOK
    <3> QED
      BY <1>5, <3>1 DEF DecidedOnce, IndInv, TypeOK
  <2> QED
    BY <2>1, <2>2
<1> QED
  BY <1>6, <1>7 DEF DecidedOnce

\* The numbers the counters are compared with, and the comparisons.
Refusals   == Cardinality(Ended("refused"))
Answers    == Cardinality(Ended("answered"))
Drops      == Cardinality(Ended("dropped"))
Faults     == Cardinality(Decided(Errors))
Strangers  == Cardinality(Decided({"unauthorized"}))
Giants     == Cardinality(Decided({"oversized"}))
Handlers   == Cardinality(In(Handling))
Unfinished == Cardinality(In(Handling \cap Unanswered))
Takers     == Cardinality(In({"taken"}))
Offers     == Cardinality({offered} \ {None})

Sums ==
  /\ metrics.rejected = Refusals
  /\ metrics.completed = Answers
  /\ metrics.failures = Faults + Drops
  /\ metrics.unauthorized = Strangers
  /\ metrics.oversized = Giants
  /\ metrics.in_flight = Handlers
  /\ metrics.requests = Answers + Drops + Unfinished
  /\ metrics.accepted = metrics.rejected + metrics.requests + Len(queue) + Offers + Takers

LEMMA SumsAreAccounting == Accounting <=> Sums
BY DEF Accounting, Sums, Ended, Decided, Refusals, Answers, Drops, Faults, Strangers,
       Giants, Handlers, Unfinished, Takers, Offers

LEMMA NumbersAreNatural ==
  ASSUME IndInv, IsFiniteSet(Seen), DecidedOnce
  PROVE  /\ Refusals \in Nat /\ Answers \in Nat /\ Drops \in Nat
         /\ Faults \in Nat /\ Strangers \in Nat /\ Giants \in Nat
         /\ Handlers \in Nat /\ Unfinished \in Nat /\ Takers \in Nat
         /\ Offers \in Nat /\ Len(queue) \in Nat
<1>1. "refused" \in Fates \ {"unseen"} /\ "answered" \in Fates \ {"unseen"}
      /\ "dropped" \in Fates \ {"unseen"}
  BY DEF Fates
<1>2. /\ Errors \in SUBSET Outcomes /\ {"unauthorized"} \in SUBSET Outcomes
      /\ {"oversized"} \in SUBSET Outcomes
  BY DEF Outcomes, Errors
<1>3. /\ Handling \in SUBSET Places /\ Handling \cap Unanswered \in SUBSET Places
      /\ {"taken"} \in SUBSET Places
  BY DEF Places, Holding, Handling
<1> QED
  BY <1>1, <1>2, <1>3, CountsAreNatural
  DEF Refusals, Answers, Drops, Faults, Strangers, Giants, Handlers, Unfinished, Takers, Offers

\* What a step leaves alone.
SameFates   == UNCHANGED <<Refusals, Answers, Drops>>
SameVerdicts == UNCHANGED <<Faults, Strangers, Giants>>
SameWorkers == UNCHANGED <<Handlers, Unfinished, Takers>>

LEMMA FateUnchanged == UNCHANGED fate => SameFates /\ Seen' = Seen
BY DEF SameFates, Refusals, Answers, Drops, Ended, Seen
LEMMA OutcomeUnchanged == UNCHANGED outcome => SameVerdicts
BY DEF SameVerdicts, Faults, Strangers, Giants, Decided
LEMMA PlacesUnchanged == UNCHANGED pc => SameWorkers
BY DEF SameWorkers, Handlers, Unfinished, Takers, In

\* A worker goes from one place to another.
LEMMA WorkerCounts ==
  ASSUME IndInv, IsFiniteSet(Seen), DecidedOnce,
         NEW w \in Workers, NEW place \in Places, pc' = [pc EXCEPT ![w] = place]
  PROVE  /\ Handlers' = IF pc[w] \in Handling
                           THEN IF place \in Handling THEN Handlers ELSE Handlers - 1
                           ELSE IF place \in Handling THEN Handlers + 1 ELSE Handlers
         /\ Unfinished' =
              IF pc[w] \in Handling \cap Unanswered
              THEN IF place \in Handling \cap Unanswered THEN Unfinished ELSE Unfinished - 1
              ELSE IF place \in Handling \cap Unanswered THEN Unfinished + 1 ELSE Unfinished
         /\ Takers' = IF pc[w] = "taken"
                         THEN IF place = "taken" THEN Takers ELSE Takers - 1
                         ELSE IF place = "taken" THEN Takers + 1 ELSE Takers
<1>1. ASSUME NEW places \in SUBSET Places
      PROVE  Cardinality(In(places)') =
               IF pc[w] \in places
               THEN IF place \in places THEN Cardinality(In(places))
                                        ELSE Cardinality(In(places)) - 1
               ELSE IF place \in places THEN Cardinality(In(places)) + 1
                                        ELSE Cardinality(In(places))
  BY WorkerMoves
<1>2. /\ Handling \in SUBSET Places /\ Handling \cap Unanswered \in SUBSET Places
      /\ {"taken"} \in SUBSET Places
  BY DEF Places, Holding, Handling
<1>3. /\ Handlers' = Cardinality(In(Handling)')
      /\ Unfinished' = Cardinality(In(Handling \cap Unanswered)')
      /\ Takers' = Cardinality(In({"taken"})')
  BY DEF Handlers, Unfinished, Takers
<1>4. pc[w] = "taken" <=> pc[w] \in {"taken"}
  OBVIOUS
<1>5. place = "taken" <=> place \in {"taken"}
  OBVIOUS
<1> QED
  BY <1>1, <1>2, <1>3, <1>4, <1>5 DEF Handlers, Unfinished, Takers

\* What was decided stays with a worker that writes or a connection that ended.
LEMMA DecidedKept ==
  ASSUME DecidedOnce, UNCHANGED outcome,
         \A c \in Connections : fate[c] \in {"answered", "dropped"} =>
                                fate'[c] \in {"answered", "dropped"},
         \A v \in Workers : pc[v] = "writing" =>
            \/ pc'[v] = "writing" /\ conn'[v] = conn[v]
            \/ fate'[conn[v]] \in {"answered", "dropped"}
  PROVE  DecidedOnce'
BY DEF DecidedOnce

\* The acceptor holds one connection or none.
LEMMA OfferedCount ==
  /\ Cardinality({None} \ {None}) = 0
  /\ \A c \in Connections : Cardinality({c} \ {None}) = 1
<1>1. {None} \ {None} = {} /\ \A c \in Connections : {c} \ {None} = {c}
  BY NoneAssumption
<1> QED
  BY <1>1, FS_EmptySet, FS_Singleton

LEMMA AccountStep ==
  ASSUME AccountInv, [Next]_vars
  PROVE  IsFiniteSet(Seen') /\ DecidedOnce' /\ Sums'
<1> USE DEF AccountInv
<1>1. Sums
  BY SumsAreAccounting
<1>2. /\ Refusals \in Nat /\ Answers \in Nat /\ Drops \in Nat
      /\ Faults \in Nat /\ Strangers \in Nat /\ Giants \in Nat
      /\ Handlers \in Nat /\ Unfinished \in Nat /\ Takers \in Nat
      /\ Offers \in Nat /\ Len(queue) \in Nat
  BY NumbersAreNatural
<1>3. TypeOK /\ \A m \in Counters : metrics[m] \in Nat
  BY DEF IndInv, TypeOK
<1>4. ASSUME NEW names, metrics' = Counted(names), NEW m \in Counters
      PROVE  metrics'[m] = IF m \in names THEN metrics[m] + 1 ELSE metrics[m]
  BY <1>3, <1>4 DEF Counted
<1>5. ASSUME NEW c \in Connections, Accept(c)
      PROVE  IsFiniteSet(Seen') /\ DecidedOnce' /\ Sums'
  <2>1. fate[c] = "unseen" /\ fate' = [fate EXCEPT ![c] = "open"]
    BY <1>5 DEF Accept
  <2>2. IsFiniteSet(Seen')
    <3>1. Seen' = Seen \cup {c}
      BY <1>3, <2>1 DEF Seen, TypeOK
    <3> QED
      BY <3>1, FS_AddElement
  <2>3. SameFates
    <3>1. \A f \in {"refused", "answered", "dropped"} : Ended(f)' = Ended(f)
      BY <1>3, <2>1 DEF Ended, TypeOK
    <3> QED
      BY <3>1 DEF SameFates, Refusals, Answers, Drops
  <2>4. DecidedOnce'
    BY <1>3, <1>5, DecidedKept DEF Accept, TypeOK
  <2>5. Offers' = Offers + 1
    BY <1>5, OfferedCount DEF Accept, Offers
  <2>6. SameVerdicts /\ SameWorkers /\ queue' = queue
    BY <1>5, OutcomeUnchanged, PlacesUnchanged DEF Accept
  <2>7. /\ metrics'.accepted = metrics.accepted + 1
        /\ UNCHANGED <<metrics.rejected, metrics.completed, metrics.failures,
                       metrics.unauthorized, metrics.oversized, metrics.in_flight,
                       metrics.requests>>
    BY <1>4, <1>5 DEF Accept, Counters
  <2>8. Sums'
    BY <1>1, <1>2, <2>3, <2>5, <2>6, <2>7, SMTT(30)
       DEF Sums, SameFates, SameVerdicts, SameWorkers
  <2> QED
    BY <2>2, <2>4, <2>8
<1>6. ASSUME Enqueue PROVE IsFiniteSet(Seen') /\ DecidedOnce' /\ Sums'
  <2>1. DecidedOnce'
    BY <1>6, DecidedKept DEF Enqueue
  <2>2. Len(queue') = Len(queue) + 1
    BY <1>3, <1>6 DEF Enqueue, TypeOK
  <2>3. Offers' = 0 /\ Offers = 1
    BY <1>3, <1>6, OfferedCount DEF Enqueue, Offers, TypeOK
  <2>4. SameFates /\ SameVerdicts /\ SameWorkers /\ metrics' = metrics /\ Seen' = Seen
    BY <1>6, FateUnchanged, OutcomeUnchanged, PlacesUnchanged DEF Enqueue
  <2>5. Sums'
    BY <1>1, <1>2, <2>2, <2>3, <2>4, SMTT(30) DEF Sums, SameFates, SameVerdicts, SameWorkers
  <2> QED
    BY <2>1, <2>4, <2>5
<1>7. ASSUME Refuse PROVE IsFiniteSet(Seen') /\ DecidedOnce' /\ Sums'
  <2>1. offered \in Connections /\ fate[offered] = "open"
    BY <1>3, <1>7 DEF Refuse, TypeOK, IndInv, OnePlace, Open
  <2>2. /\ Refusals' = Refusals + 1 /\ Answers' = Answers /\ Drops' = Drops
        /\ IsFiniteSet(Seen')
    <3>1. fate' = [fate EXCEPT ![offered] = "refused"] /\ fate[offered] # "refused"
          /\ "refused" \in Fates \ {"unseen"}
      BY <1>7, <2>1 DEF Refuse, Fates
    <3>2. /\ Cardinality(Ended("refused")') = Cardinality(Ended("refused")) + 1
          /\ \A g \in Fates \ {"refused", "open"} : Ended(g)' = Ended(g)
          /\ IsFiniteSet(Seen')
      BY <2>1, <3>1, FateMoves
    <3> QED
      BY <3>2 DEF Refusals, Answers, Drops, Fates
  <2>3. DecidedOnce'
    BY <1>3, <1>7, <2>1, DecidedKept DEF Refuse, TypeOK
  <2>4. Offers' = 0 /\ Offers = 1
    BY <1>7, <2>1, OfferedCount DEF Refuse, Offers
  <2>5. SameVerdicts /\ SameWorkers /\ queue' = queue
    BY <1>7, OutcomeUnchanged, PlacesUnchanged DEF Refuse
  <2>6. /\ metrics'.rejected = metrics.rejected + 1
        /\ UNCHANGED <<metrics.accepted, metrics.completed, metrics.failures,
                       metrics.unauthorized, metrics.oversized, metrics.in_flight,
                       metrics.requests>>
    BY <1>4, <1>7 DEF Refuse, Counters
  <2>7. Sums'
    BY <1>1, <1>2, <2>2, <2>4, <2>5, <2>6 DEF Sums, SameVerdicts, SameWorkers
  <2> QED
    BY <2>2, <2>3, <2>7
<1>8. ASSUME NEW w \in Workers, LockReceiver(w)
      PROVE  IsFiniteSet(Seen') /\ DecidedOnce' /\ Sums'
  <2>1. SameWorkers
    <3>1. /\ pc' = [pc EXCEPT ![w] = "receiving"] /\ "receiving" \in Places
          /\ pc[w] \notin Handling /\ "receiving" \notin Handling
          /\ pc[w] # "taken"
      BY <1>8 DEF LockReceiver, Places, Handling
    <3> QED
      BY <3>1, WorkerCounts DEF SameWorkers
  <2>2. DecidedOnce'
    BY <1>3, <1>8, DecidedKept DEF LockReceiver, TypeOK
  <2>3. SameFates /\ SameVerdicts /\ Seen' = Seen /\ Offers' = Offers
    BY <1>8, FateUnchanged, OutcomeUnchanged DEF LockReceiver, Offers
  <2>4. Sums'
    BY <1>1, <1>8, <2>1, <2>3 DEF LockReceiver, Sums, SameFates, SameVerdicts, SameWorkers
  <2> QED
    BY <2>2, <2>3, <2>4
<1>9. ASSUME NEW w \in Workers, Receive(w)
      PROVE  IsFiniteSet(Seen') /\ DecidedOnce' /\ Sums'
  <2>1. Handlers' = Handlers /\ Unfinished' = Unfinished /\ Takers' = Takers + 1
    BY <1>9, WorkerCounts DEF Receive, Places, Holding, Handling
  <2>2. DecidedOnce'
    BY <1>3, <1>9, DecidedKept DEF Receive, TypeOK
  <2>3. Len(queue') = Len(queue) - 1
    BY <1>3, <1>9 DEF Receive, TypeOK
  <2>4. SameFates /\ SameVerdicts /\ Seen' = Seen /\ Offers' = Offers /\ metrics' = metrics
    BY <1>9, FateUnchanged, OutcomeUnchanged DEF Receive, Offers
  <2>5. Sums'
    <3>1. \A past \in Nat : past + Len(queue') + Offers' + Takers'
                               = past + Len(queue) + Offers + Takers
      BY <1>2, <2>1, <2>3, <2>4
    <3>2. metrics'.accepted = metrics'.rejected + metrics'.requests
                                + Len(queue') + Offers' + Takers'
      <4>1. metrics.rejected + metrics.requests \in Nat
        BY <1>3 DEF Counters
      <4>2. metrics.accepted = metrics.rejected + metrics.requests
                                 + Len(queue) + Offers + Takers
        BY <1>1 DEF Sums
      <4>3. metrics.accepted = metrics.rejected + metrics.requests
                                 + Len(queue') + Offers' + Takers'
        BY <3>1, <4>1, <4>2
      <4> QED
        BY <2>4, <4>3
    <3> QED
      BY <1>1, <2>1, <2>4, <3>2 DEF Sums, SameFates, SameVerdicts
  <2> QED
    BY <2>2, <2>4, <2>5
<1>10. ASSUME NEW w \in Workers, Begin(w)
       PROVE  IsFiniteSet(Seen') /\ DecidedOnce' /\ Sums'
  <2>1. Handlers' = Handlers + 1 /\ Unfinished' = Unfinished + 1 /\ Takers' = Takers - 1
    BY <1>10, WorkerCounts DEF Begin, Places, Holding, Handling, Unanswered
  <2>2. DecidedOnce'
    BY <1>3, <1>10, DecidedKept DEF Begin, TypeOK
  <2>3. /\ metrics'.in_flight = metrics.in_flight + 1
        /\ metrics'.requests = metrics.requests + 1
        /\ UNCHANGED <<metrics.accepted, metrics.rejected, metrics.completed,
                       metrics.failures, metrics.unauthorized, metrics.oversized>>
    BY <1>4, <1>10 DEF Begin, Counters
  <2>4. SameFates /\ SameVerdicts /\ Seen' = Seen /\ Offers' = Offers /\ queue' = queue
    BY <1>10, FateUnchanged, OutcomeUnchanged DEF Begin, Offers
  <2>5. Sums'
    BY <1>1, <1>2, <2>1, <2>3, <2>4 DEF Sums, SameFates, SameVerdicts
  <2> QED
    BY <2>2, <2>4, <2>5
<1>11. ASSUME NEW w \in Workers, pc[w] \in {"reading", "routing"}, NEW o \in Outcomes,
              Decide(w, o), UNCHANGED <<offered, queue, conn, fate>>
       PROVE  IsFiniteSet(Seen') /\ DecidedOnce' /\ Sums'
  <2>1. /\ Faults' = IF o \in Errors THEN Faults + 1 ELSE Faults
        /\ Strangers' = IF o = "unauthorized" THEN Strangers + 1 ELSE Strangers
        /\ Giants' = IF o = "oversized" THEN Giants + 1 ELSE Giants
        /\ DecidedOnce'
    <3>1. /\ \A S \in SUBSET Outcomes :
               Cardinality(Decided(S)') = IF o \in S THEN Cardinality(Decided(S)) + 1
                                                     ELSE Cardinality(Decided(S))
          /\ DecidedOnce'
      BY <1>11, DecisionCounts
    <3>2. /\ Errors \in SUBSET Outcomes /\ {"unauthorized"} \in SUBSET Outcomes
          /\ {"oversized"} \in SUBSET Outcomes
      BY DEF Outcomes, Errors
    <3>3. /\ Faults' = Cardinality(Decided(Errors)')
          /\ Strangers' = Cardinality(Decided({"unauthorized"})')
          /\ Giants' = Cardinality(Decided({"oversized"})')
      BY DEF Faults, Strangers, Giants
    <3> QED
      BY <3>1, <3>2, <3>3 DEF Faults, Strangers, Giants
  <2>2. SameWorkers
    <3>1. pc' = [pc EXCEPT ![w] = "writing"] /\ "writing" \in Places
          /\ pc[w] \in Handling \cap Unanswered /\ "writing" \in Handling \cap Unanswered
          /\ pc[w] # "taken"
      BY <1>11 DEF Decide, Places, Holding, Handling, Unanswered
    <3> QED
      BY <3>1, WorkerCounts DEF SameWorkers
  <2>3. /\ metrics'.failures = IF o \in Errors THEN metrics.failures + 1 ELSE metrics.failures
        /\ metrics'.unauthorized = IF o = "unauthorized" THEN metrics.unauthorized + 1
                                                         ELSE metrics.unauthorized
        /\ metrics'.oversized = IF o = "oversized" THEN metrics.oversized + 1
                                                   ELSE metrics.oversized
        /\ UNCHANGED <<metrics.accepted, metrics.rejected, metrics.completed,
                       metrics.in_flight, metrics.requests>>
    <3>1. CASE o = "ok"
      <4>1. metrics' = Counted({})
        BY <1>11, <3>1 DEF Decide
      <4> QED
        BY <1>4, <3>1, <4>1 DEF Counters, Errors
    <3>2. CASE o # "ok"
      <4>1. metrics' = Counted({"failures", o} \cap Counters) /\ o \in Errors
        BY <1>11, <3>2 DEF Decide, Outcomes
      <4>2. \A m \in Counters :
               metrics'[m] = IF m \in {"failures", o} THEN metrics[m] + 1 ELSE metrics[m]
        BY <1>4, <4>1
      <4>3. /\ o \notin {"accepted", "rejected", "completed", "in_flight", "requests"}
            /\ o # "failures"
        BY <4>1 DEF Errors
      <4>4. /\ metrics'["failures"] = metrics["failures"] + 1
            /\ metrics'["unauthorized"] = IF o = "unauthorized" THEN metrics["unauthorized"] + 1
                                                               ELSE metrics["unauthorized"]
            /\ metrics'["oversized"] = IF o = "oversized" THEN metrics["oversized"] + 1
                                                         ELSE metrics["oversized"]
        BY <4>2, <4>3 DEF Counters
      <4>5. \A m \in {"accepted", "rejected", "completed", "in_flight", "requests"} :
               metrics'[m] = metrics[m]
        BY <4>2, <4>3 DEF Counters
      <4> QED
        BY <4>1, <4>4, <4>5
    <3> QED
      BY <3>1, <3>2
  <2>4. SameFates /\ Seen' = Seen /\ Offers' = Offers
    BY <1>11, FateUnchanged DEF Offers
  <2>5. Sums'
    <3>1. queue' = queue
      BY <1>11
    <3> QED
      BY <1>1, <1>2, <2>1, <2>2, <2>3, <2>4, <3>1 DEF Sums, SameFates, SameWorkers
  <2> QED
    BY <2>1, <2>4, <2>5
<1>12. ASSUME NEW w \in Workers, ReadHead(w) \/ ReadBody(w) \/ ReadFails(w)
       PROVE  IsFiniteSet(Seen') /\ DecidedOnce' /\ Sums'
  <2>1. pc[w] = "reading" /\ UNCHANGED <<offered, queue, holder, conn, fate>>
    BY <1>12, ReadCases DEF IndInv
  <2>2. ASSUME NEW total, NEW length, Continue(w, total, length)
        PROVE  IsFiniteSet(Seen') /\ DecidedOnce' /\ Sums'
    <3>1. PICK place \in {"reading", "routing"} : pc' = [pc EXCEPT ![w] = place]
      BY <2>2 DEF Continue
    <3>2. SameWorkers
      <4>1. place \in Places /\ place \in Handling \cap Unanswered /\ place # "taken"
            /\ pc[w] \in Handling \cap Unanswered /\ pc[w] # "taken"
        BY <2>1 DEF Places, Holding, Handling, Unanswered
      <4> QED
        BY <3>1, <4>1, WorkerCounts DEF SameWorkers
    <3>3. DecidedOnce'
      BY <1>3, <2>1, <2>2, <3>1, DecidedKept DEF Continue, TypeOK
    <3>4. /\ SameFates /\ SameVerdicts /\ Seen' = Seen /\ Offers' = Offers
          /\ metrics' = metrics /\ queue' = queue
      BY <2>1, <2>2, FateUnchanged, OutcomeUnchanged DEF Continue, Offers
    <3>5. Sums'
      BY <1>1, <3>2, <3>4 DEF Sums, SameFates, SameVerdicts, SameWorkers
    <3> QED
      BY <3>3, <3>4, <3>5
  <2> QED
    BY <1>11, <1>12, <2>1, <2>2, ReadCases DEF IndInv, Outcomes
<1>13. ASSUME NEW w \in Workers, Route(w)
       PROVE  IsFiniteSet(Seen') /\ DecidedOnce' /\ Sums'
  BY <1>11, <1>13 DEF Route
<1>14. ASSUME NEW w \in Workers, NEW f \in {"answered", "dropped"}, pc[w] = "writing",
              fate' = [fate EXCEPT ![conn[w]] = f],
              pc' = [pc EXCEPT ![w] = "measuring"],
              UNCHANGED <<offered, queue, conn, outcome>>
       PROVE  /\ IsFiniteSet(Seen') /\ DecidedOnce'
              /\ Cardinality(Ended(f)') = Cardinality(Ended(f)) + 1
              /\ \A g \in Fates \ {f, "open"} : Ended(g)' = Ended(g)
              /\ Unfinished' = Unfinished - 1 /\ Handlers' = Handlers /\ Takers' = Takers
              /\ SameVerdicts /\ Offers' = Offers /\ queue' = queue
  <2>1. conn[w] \in Connections /\ fate[conn[w]] = "open"
    <3>1. conn[w] \in Served
      BY <1>14 DEF Served, In, Unanswered
    <3> QED
      BY <3>1 DEF IndInv, OnePlace, Open
  <2>2. f \in Fates \ {"unseen"} /\ fate[conn[w]] # f
    BY <2>1 DEF Fates
  <2>3. /\ IsFiniteSet(Seen') /\ Cardinality(Ended(f)') = Cardinality(Ended(f)) + 1
        /\ \A g \in Fates \ {f, "open"} : Ended(g)' = Ended(g)
    BY <1>14, <2>1, <2>2, FateMoves
  <2>4. DecidedOnce'
    BY <1>3, <1>14, <2>1, DecidedKept DEF TypeOK
  <2>5. Unfinished' = Unfinished - 1 /\ Handlers' = Handlers /\ Takers' = Takers
    <3>1. /\ "measuring" \in Places /\ "measuring" \in Handling
          /\ "measuring" \notin Handling \cap Unanswered
          /\ pc[w] \in Handling \cap Unanswered /\ pc[w] # "taken"
      BY <1>14 DEF Places, Holding, Handling, Unanswered
    <3> QED
      BY <1>14, <3>1, WorkerCounts
  <2>6. SameVerdicts /\ Offers' = Offers
    BY <1>14, OutcomeUnchanged DEF Offers
  <2> QED
    BY <1>14, <2>3, <2>4, <2>5, <2>6
<1>15. ASSUME NEW w \in Workers, Write(w)
       PROVE  IsFiniteSet(Seen') /\ DecidedOnce' /\ Sums'
  <2>1. /\ IsFiniteSet(Seen') /\ DecidedOnce'
        /\ Cardinality(Ended("answered")') = Cardinality(Ended("answered")) + 1
        /\ \A g \in Fates \ {"answered", "open"} : Ended(g)' = Ended(g)
        /\ Unfinished' = Unfinished - 1 /\ Handlers' = Handlers /\ Takers' = Takers
        /\ SameVerdicts /\ Offers' = Offers /\ queue' = queue
    BY <1>14, <1>15 DEF Write
  <2>2. Answers' = Answers + 1 /\ Refusals' = Refusals /\ Drops' = Drops
    BY <2>1 DEF Answers, Refusals, Drops, Fates
  <2>3. /\ metrics'.completed = metrics.completed + 1
        /\ UNCHANGED <<metrics.accepted, metrics.rejected, metrics.failures,
                       metrics.unauthorized, metrics.oversized, metrics.in_flight,
                       metrics.requests>>
    BY <1>4, <1>15 DEF Write, Counters
  <2>4. Sums'
    BY <1>1, <1>2, <2>1, <2>2, <2>3 DEF Sums, SameVerdicts
  <2> QED
    BY <2>1, <2>4
<1>16. ASSUME NEW w \in Workers, WriteFails(w)
       PROVE  IsFiniteSet(Seen') /\ DecidedOnce' /\ Sums'
  <2>1. /\ IsFiniteSet(Seen') /\ DecidedOnce'
        /\ Cardinality(Ended("dropped")') = Cardinality(Ended("dropped")) + 1
        /\ \A g \in Fates \ {"dropped", "open"} : Ended(g)' = Ended(g)
        /\ Unfinished' = Unfinished - 1 /\ Handlers' = Handlers /\ Takers' = Takers
        /\ SameVerdicts /\ Offers' = Offers /\ queue' = queue
    BY <1>14, <1>16 DEF WriteFails
  <2>2. Drops' = Drops + 1 /\ Refusals' = Refusals /\ Answers' = Answers
    BY <2>1 DEF Answers, Refusals, Drops, Fates
  <2>3. /\ metrics'.failures = metrics.failures + 1
        /\ UNCHANGED <<metrics.accepted, metrics.rejected, metrics.completed,
                       metrics.unauthorized, metrics.oversized, metrics.in_flight,
                       metrics.requests>>
    BY <1>4, <1>16 DEF WriteFails, Counters
  <2>4. Sums'
    BY <1>1, <1>2, <2>1, <2>2, <2>3 DEF Sums, SameVerdicts
  <2> QED
    BY <2>1, <2>4
<1>17. ASSUME NEW w \in Workers, Measure(w) \/ Leave(w)
       PROVE  IsFiniteSet(Seen') /\ DecidedOnce' /\ Sums'
  <2>1. DecidedOnce'
    BY <1>3, <1>17, DecidedKept DEF Measure, Leave, TypeOK
  <2>2. SameFates /\ SameVerdicts /\ Seen' = Seen /\ Offers' = Offers /\ queue' = queue
    BY <1>17, FateUnchanged, OutcomeUnchanged DEF Measure, Leave, Offers
  <2>3. CASE Measure(w)
    <3>1. SameWorkers
      BY <2>3, WorkerCounts DEF Measure, Places, Holding, Handling, Unanswered, SameWorkers
    <3>2. UNCHANGED <<metrics.accepted, metrics.rejected, metrics.completed, metrics.failures,
                      metrics.unauthorized, metrics.oversized, metrics.in_flight,
                      metrics.requests>>
      BY <1>4, <2>3 DEF Measure, Counters
    <3> QED
      BY <1>1, <2>1, <2>2, <3>1, <3>2 DEF Sums, SameFates, SameVerdicts, SameWorkers
  <2>4. CASE Leave(w)
    <3>1. Handlers' = Handlers - 1 /\ Unfinished' = Unfinished /\ Takers' = Takers
      <4>1. /\ pc' = [pc EXCEPT ![w] = "idle"] /\ "idle" \in Places
            /\ pc[w] \in Handling /\ pc[w] \notin Handling \cap Unanswered
            /\ "idle" \notin Handling /\ pc[w] # "taken"
        BY <2>4 DEF Leave, Places, Handling, Unanswered
      <4> QED
        BY <4>1, WorkerCounts
    <3>2. /\ metrics'.in_flight = metrics.in_flight - 1
          /\ UNCHANGED <<metrics.accepted, metrics.rejected, metrics.completed,
                         metrics.failures, metrics.unauthorized, metrics.oversized,
                         metrics.requests>>
      BY <1>3, <2>4 DEF Leave, TypeOK, Counters
    <3> QED
      BY <1>1, <2>1, <2>2, <3>1, <3>2 DEF Sums, SameFates, SameVerdicts
  <2> QED
    BY <1>17, <2>3, <2>4
<1>18. CASE UNCHANGED vars
  <2>1. SameFates /\ SameVerdicts /\ SameWorkers /\ Seen' = Seen
    BY <1>18, FateUnchanged, OutcomeUnchanged, PlacesUnchanged DEF vars
  <2>2. DecidedOnce' /\ Offers' = Offers
    BY <1>18 DEF vars, DecidedOnce, Offers
  <2> QED
    BY <1>1, <1>18, <2>1, <2>2 DEF vars, Sums, SameFates, SameVerdicts, SameWorkers
<1> QED
  BY <1>5, <1>6, <1>7, <1>8, <1>9, <1>10, <1>12, <1>13, <1>15, <1>16, <1>17, <1>18
  DEF Next, Acceptor, Worker

LEMMA AccountInit == Init => AccountInv
<1> SUFFICES ASSUME Init PROVE AccountInv
  OBVIOUS
<1>1. IndInv
  BY IndInit
<1>2. Seen = {} /\ IsFiniteSet({}) /\ Cardinality({}) = 0
  BY FS_EmptySet DEF Init, Seen
<1>3. DecidedOnce
  BY DEF Init, DecidedOnce
<1>4. /\ \A f \in {"refused", "answered", "dropped"} : Ended(f) = {}
      /\ \A S \in SUBSET Outcomes : Decided(S) = {}
      /\ \A places \in SUBSET Holding : In(places) = {}
    BY NoneAssumption DEF Init, Ended, Decided, In, Holding, Handling
<1>5. /\ Handling \in SUBSET Holding /\ Handling \cap Unanswered \in SUBSET Holding
      /\ {"taken"} \in SUBSET Holding
      /\ Errors \in SUBSET Outcomes /\ {"unauthorized"} \in SUBSET Outcomes
      /\ {"oversized"} \in SUBSET Outcomes
  BY DEF Holding, Outcomes, Errors
<1>6. Len(queue) = 0 /\ offered = None /\ \A m \in Counters : metrics[m] = 0
  BY DEF Init
<1>7. /\ Refusals = 0 /\ Answers = 0 /\ Drops = 0
      /\ Faults = 0 /\ Strangers = 0 /\ Giants = 0
  BY <1>2, <1>4, <1>5 DEF Refusals, Answers, Drops, Faults, Strangers, Giants
<1>8. Handlers = 0 /\ Unfinished = 0 /\ Takers = 0 /\ Offers = 0
  BY <1>2, <1>4, <1>5, <1>6, OfferedCount DEF Handlers, Unfinished, Takers, Offers
<1>9. /\ metrics.accepted = 0 /\ metrics.rejected = 0 /\ metrics.requests = 0
      /\ metrics.completed = 0 /\ metrics.failures = 0 /\ metrics.unauthorized = 0
      /\ metrics.oversized = 0 /\ metrics.in_flight = 0
  BY <1>6 DEF Counters
<1>10. Sums
  BY <1>6, <1>7, <1>8, <1>9 DEF Sums
<1> QED
  BY <1>1, <1>2, <1>3, <1>10, SumsAreAccounting DEF AccountInv

\* The counters of /metrics add up at every instant between two steps, whatever
\* the peers do and however many connections they make.
THEOREM CountersAddUp == Spec => []Accounting
<1>1. AccountInv /\ [Next]_vars => AccountInv'
  <2> SUFFICES ASSUME AccountInv, [Next]_vars PROVE AccountInv'
    OBVIOUS
  <2>1. IndInv'
    BY IndStep DEF AccountInv
  <2>2. IsFiniteSet(Seen') /\ DecidedOnce' /\ Sums'
    BY AccountStep
  <2>3. Accounting' <=> Sums'
    BY SumsAreAccounting, PTL
  <2> QED
    BY <2>1, <2>2, <2>3 DEF AccountInv
<1>2. AccountInv => Accounting
  BY DEF AccountInv
<1> QED
  BY <1>1, <1>2, AccountInit, PTL DEF Spec
=============================================================================
