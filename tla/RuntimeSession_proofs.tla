------------------------ MODULE RuntimeSession_proofs ------------------------
(***************************************************************************)
(* What a session keeps true for any notebooks, runtimes, runs and Stops.  *)
(***************************************************************************)
EXTENDS RuntimeSession, TLAPS

USE SessionAssumption

-----------------------------------------------------------------------------
(* Queues. *)

\* x is in the queue q, and nothing is there twice.
In(q, x) == \E k \in 1 .. Len(q) : q[k] = x

Once(q) == \A j, k \in 1 .. Len(q) : q[j] = q[k] => j = k

\* What leaves a queue at its head.
LEMMA TailOf ==
  ASSUME NEW S, NEW q \in Seq(S), q # <<>>
  PROVE  /\ Head(q) \in S /\ Tail(q) \in Seq(S) /\ In(q, Head(q))
         /\ \A x : In(q, x) <=> x = Head(q) \/ In(Tail(q), x)
         /\ Once(q) => Once(Tail(q)) /\ ~ In(Tail(q), Head(q))
<1>1. /\ Len(q) \in Nat \ {0} /\ Head(q) = q[1] /\ Head(q) \in S
      /\ Tail(q) \in Seq(S) /\ Len(Tail(q)) = Len(q) - 1
      /\ \A k \in 1 .. Len(Tail(q)) : Tail(q)[k] = q[k + 1]
  OBVIOUS
<1>2. \A x : In(Tail(q), x) => In(q, x)
  BY <1>1 DEF In
<1>3. \A x : In(q, x) => x = q[1] \/ In(Tail(q), x)
  <2>. SUFFICES ASSUME NEW k \in 1 .. Len(q), k # 1
                PROVE  In(Tail(q), q[k])
    BY DEF In
  <2>1. k - 1 \in 1 .. Len(Tail(q)) /\ Tail(q)[k - 1] = q[k]
    BY <1>1
  <2>. QED BY <2>1 DEF In
<1>4. Once(q) => Once(Tail(q)) /\ ~ In(Tail(q), q[1])
  BY <1>1 DEF Once, In
<1>5. In(q, q[1])
  BY <1>1 DEF In
<1>. QED BY <1>1, <1>2, <1>3, <1>4, <1>5

\* What joins a queue at its end.
LEMMA AppendOf ==
  ASSUME NEW S, NEW q \in Seq(S), NEW x \in S
  PROVE  /\ Append(q, x) \in Seq(S)
         /\ \A y : In(Append(q, x), y) <=> In(q, y) \/ y = x
         /\ Once(q) /\ ~ In(q, x) => Once(Append(q, x))
<1>1. /\ Len(q) \in Nat /\ Append(q, x) \in Seq(S)
      /\ Len(Append(q, x)) = Len(q) + 1 /\ Append(q, x)[Len(q) + 1] = x
      /\ \A k \in 1 .. Len(q) : Append(q, x)[k] = q[k]
  OBVIOUS
<1>2. \A y : In(Append(q, x), y) => In(q, y) \/ y = x
  <2>. SUFFICES ASSUME NEW k \in 1 .. Len(q) + 1, k # Len(q) + 1
                PROVE  In(q, Append(q, x)[k])
    BY <1>1 DEF In
  <2>1. k \in 1 .. Len(q)
    BY <1>1
  <2>. QED BY <1>1, <2>1 DEF In
<1>3. \A y : In(q, y) => In(Append(q, x), y)
  BY <1>1 DEF In
<1>4. In(Append(q, x), x)
  BY <1>1 DEF In
<1>5. Once(q) /\ ~ In(q, x) => Once(Append(q, x))
  <2>. SUFFICES ASSUME Once(q), ~ In(q, x),
                       NEW j \in 1 .. Len(q) + 1, NEW k \in 1 .. Len(q) + 1,
                       Append(q, x)[j] = Append(q, x)[k]
                PROVE  j = k
    BY <1>1 DEF Once
  <2>1. CASE j \in 1 .. Len(q) /\ k \in 1 .. Len(q)
    BY <1>1, <2>1 DEF Once
  <2>2. CASE j = Len(q) + 1 /\ k \in 1 .. Len(q)
    BY <1>1, <2>2 DEF In
  <2>3. CASE k = Len(q) + 1 /\ j \in 1 .. Len(q)
    BY <1>1, <2>3 DEF In
  <2>. QED BY <1>1, <2>1, <2>2, <2>3
<1>. QED BY <1>1, <1>2, <1>3, <1>4, <1>5

\* What is left of a queue that is cut off.
LEMMA FirstOfIs ==
  ASSUME NEW S, NEW q \in Seq(S), NEW n \in Nat
  PROVE  /\ FirstOf(q, n) \in Seq(S)
         /\ Len(FirstOf(q, n)) <= Len(q)
         /\ \A k \in 1 .. Len(FirstOf(q, n)) : FirstOf(q, n)[k] = q[k]
<1>. DEFINE m == IF n < Len(q) THEN n ELSE Len(q)
<1>1. Len(q) \in Nat /\ m \in Nat /\ m <= Len(q) /\ FirstOf(q, n) = SubSeq(q, 1, m)
  BY DEF FirstOf
<1>. HIDE DEF m
<1>. QED BY <1>1

\* An empty queue.
LEMMA EmptyOf ==
  /\ \A x : ~ In(<<>>, x)
  /\ Once(<<>>)
BY DEF In, Once

\* A queue of which the end has been lost.
Part(p, q) == Len(p) <= Len(q) /\ \A k \in 1 .. Len(p) : p[k] = q[k]

-----------------------------------------------------------------------------
(* Shapes. *)

\* Messages, and calls of runCell.
Messages == [run : Links, type : {"output", "done"}]

Phases == {"none", "post", "poll", "STARTING", "READY", "FAILED", "starting",
           "executing", "done", "failed", "late"}

RunRecords == [phase : Phases, notebook : Notebooks \union {None}, visit : Nat,
               runtime : Runtimes \union {None}, link : Links \union {None},
               got : Nat]

\* A Stop under way is about a runtime, also when its caller has given up.
StopRecords ==
  [phase : {"none", "done", "failed"}, visit : Nat,
   shown : Runtimes \union {None}, runtime : Runtimes \union {None}]
  \union [phase : {"sent", "handled", "late"}, visit : Nat,
          shown : Runtimes \union {None}, runtime : Runtimes]

\* The types of the variables, module by module.
PoolTypes ==
  /\ phase \in [Runtimes -> {"absent", "starting", "healthy", "gone"}]
  /\ owner \in [Runtimes -> Notebooks \union {None}]

QueueTypes ==
  /\ up \in [Links -> Seq(Links)] /\ inbox \in [Links -> Seq(Links)]
  /\ outbox \in [Links -> Seq(Messages)] /\ down \in [Links -> Seq(Messages)]

GatewayTypes ==
  /\ target \in [Links -> Runtimes \union {None}]
  /\ http \in [Links -> {"none", "lookup", "forward", "ok", "error"}]
  /\ bridge \in [Links -> {"none", "lookup", "connect", "open", "closing", "closed"}]
  /\ tasks \in [Links -> SUBSET Tasks]
  /\ browserEnd \in [Links -> {"none", "open", "closed"}]
  /\ upstreamEnd \in [Links -> {"none", "open", "closed"}]

SessionTypes ==
  /\ page \in [notebook : Notebooks, visit : Nat \ {0},
               shown : Runtimes \union {None}, running : Links \union {None}]
  /\ runs \in [Links -> RunRecords]
  /\ stops \in [Stops -> StopRecords]
  /\ current \in Runtimes \union {None}
  /\ client \in [runtime : Runtimes \union {None}, link : Links \union {None}]
  /\ strayed \in BOOLEAN

TypeInv == PoolTypes /\ QueueTypes /\ GatewayTypes /\ SessionTypes

-----------------------------------------------------------------------------
(* Links and runs. *)

\* A runtime that was started for the notebook, whatever became of it.
OwnedBy(r, n) == r \in Runtimes /\ phase[r] # "absent" /\ owner[r] = n

\* The code of run i has been sent; the run waits for its messages on link l.
Sent(i) == runs[i].phase \in {"executing", "done", "failed"}
Executing(i, l) == runs[i].phase = "executing" /\ runs[i].link = l

\* A link is addressed before its kernel is asked for, connected after, and
\* silent before it is connected.
LinkOK(l) ==
  /\ bridge[l] = "none" <=> browserEnd[l] = "none"
  /\ tasks[l] # {} => bridge[l] = "open"
  /\ bridge[l] \in {"open", "closing"} => upstreamEnd[l] # "none"
  /\ http[l] # "none" <=> runs[l].phase = "starting"
  /\ browserEnd[l] = "none" =>
       up[l] = <<>> /\ inbox[l] = <<>> /\ outbox[l] = <<>> /\ down[l] = <<>>
  /\ ~ Sent(l) => browserEnd[l] = "none"

\* A call has a runtime of its notebook from the first answer on, and a kernel
\* in this runtime from its start on.
RunOK(i) ==
  /\ runs[i].phase \notin {"none", "done", "failed"} =>
       runs[i].notebook \in Notebooks
  /\ runs[i].phase \in {"STARTING", "READY", "FAILED", "poll", "starting",
                       "executing"} =>
       OwnedBy(runs[i].runtime, runs[i].notebook)
  /\ runs[i].phase = "starting" => target[i] = runs[i].runtime
  /\ runs[i].phase = "executing" =>
       /\ runs[i].link \in Links /\ browserEnd[runs[i].link] # "none"
       /\ target[runs[i].link] = runs[i].runtime
  /\ ~ Sent(i) => runs[i].got = 0
  /\ runs[i].phase = "done" => runs[i].got = 1

\* The client knows where its kernel is.
ClientOK ==
  client.link # None => /\ target[client.link] = client.runtime
                        /\ browserEnd[client.link] # "none"

-----------------------------------------------------------------------------
(* What is on its way on a link. *)

\* Of a run's two messages the output comes first.
Ordered(q) ==
  \A j, k \in 1 .. Len(q) :
    q[j].run = q[k].run /\ q[j].type = "done" /\ q[k].type = "output" => k < j

\* Nothing is there twice, neither a request nor a message, and messages keep
\* their order.
Flow(u, n, o, d) ==
  /\ Once(u) /\ Once(n) /\ Once(o) /\ Once(d)
  /\ Ordered(o) /\ Ordered(d)
  /\ \A i \in Links : In(u, i) => ~ In(n, i)
  /\ \A m \in Messages : In(o, m) \/ In(d, m) => ~ In(u, m.run) /\ ~ In(n, m.run)
  /\ \A m \in Messages : In(o, m) => ~ In(d, m)
  /\ \A i \in Links : In(d, Message(i, "done")) => ~ In(o, Message(i, "output"))

\* g outputs of run i have come: none before its output, one before its end.
Progress(i, g, u, n, o, d) ==
  /\ In(u, i) \/ In(n, i) => g = 0
  /\ In(o, Message(i, "output")) \/ In(d, Message(i, "output")) => g = 0
  /\ \/ In(o, Message(i, "output")) \/ In(d, Message(i, "output")) \/ g = 1
     \/ ~ In(o, Message(i, "done")) /\ ~ In(d, Message(i, "done"))

\* Where run i is on link l: before the kernel, between the kernel and the
\* gateway, between the gateway and the browser.
Waits(l, i) == In(up[l], i) \/ In(inbox[l], i)
Told(l, i) == In(outbox[l], Message(i, "output")) \/ In(outbox[l], Message(i, "done"))
Reported(l, i) == In(down[l], Message(i, "output")) \/ In(down[l], Message(i, "done"))

\* Only what was sent is on a link, in a runtime of the run's notebook; while
\* anyone listens, the run waits for it, and has got what came before.
PairOK(l, i) ==
  /\ Waits(l, i) \/ Told(l, i) \/ Reported(l, i) => Sent(i)
  /\ Waits(l, i) => OwnedBy(target[l], runs[i].notebook)
  /\ browserEnd[l] = "open" /\ (Waits(l, i) \/ Told(l, i)) => Executing(i, l)
  /\ Reported(l, i) => Executing(i, l)
  /\ Executing(i, l) =>
       Progress(i, runs[i].got, up[l], inbox[l], outbox[l], down[l])

\* Everything about links and runs.
LinksOK == \A l \in Links : LinkOK(l)
RunsOK == \A i \in Links : RunOK(i)
FlowsOK == \A l \in Links : Flow(up[l], inbox[l], outbox[l], down[l])
PairsOK == \A l, i \in Links : PairOK(l, i)

LinkInv == LinksOK /\ RunsOK /\ ClientOK /\ FlowsOK /\ PairsOK

-----------------------------------------------------------------------------
(* The page and the calls made on it. *)

\* What is shown as running is a call of this visit.
RunningOK ==
  page.running # None => /\ runs[page.running].phase \notin Over
                         /\ runs[page.running].notebook = page.notebook
                         /\ runs[page.running].visit = page.visit

\* What the manager knows exists.
CurrentOK == current # None => phase[current] # "absent"

\* Until a page is left during a call, all calls are the shown page's, and the
\* page shows what the manager knows.
TogetherOK ==
  ~ strayed =>
    /\ \A i \in Links : runs[i].phase \notin Over => Mounted(runs[i])
    /\ \A j \in Stops :
         /\ stops[j].phase \in {"sent", "handled"} =>
              Mounted(stops[j]) /\ stops[j].shown = stops[j].runtime
         /\ stops[j].phase = "done" =>
              stops[j].shown \in Runtimes /\ phase[stops[j].shown] = "gone"
    /\ page.shown \in {None, current}

PageInv == RunningOK /\ CurrentOK /\ TogetherOK

\* The inductive invariant.
IInv == TypeInv /\ LinkInv /\ PageInv
-----------------------------------------------------------------------------
(* How messages move on one link. *)

\* A message is its run and its type.
LEMMA MessageIs ==
  ASSUME NEW i \in Links
  PROVE  /\ Message(i, "output") \in Messages /\ Message(i, "done") \in Messages
         /\ Message(i, "output").run = i /\ Message(i, "done").run = i
         /\ Message(i, "output") # Message(i, "done")
         /\ \A m \in Messages :
              /\ m.run = i /\ m.type = "output" <=> m = Message(i, "output")
              /\ m.run = i /\ m.type = "done" <=> m = Message(i, "done")
BY DEF Message, Messages

\* What is left of a queue was in it, once if everything was, and in its order.
LEMMA PartOf ==
  ASSUME NEW S, NEW p \in Seq(S), NEW q \in Seq(S), Part(p, q)
  PROVE  /\ \A x : In(p, x) => In(q, x)
         /\ Once(q) => Once(p)
         /\ Ordered(q) => Ordered(p)
<1>1. /\ Len(p) \in Nat /\ Len(q) \in Nat /\ Len(p) <= Len(q)
      /\ \A k \in 1 .. Len(p) : k \in 1 .. Len(q) /\ p[k] = q[k]
  BY DEF Part
<1>2. \A x : In(p, x) => In(q, x)
  BY <1>1 DEF In
<1>3. Once(q) => Once(p)
  BY <1>1 DEF Once
<1>4. Ordered(q) => Ordered(p)
  BY <1>1 DEF Ordered
<1>. QED BY <1>2, <1>3, <1>4

\* A queue is a part of itself, and so is the empty one.
LEMMA PartOfItself ==
  ASSUME NEW S, NEW q \in Seq(S)
  PROVE  Part(q, q) /\ Part(<<>>, q) /\ <<>> \in Seq(S)
BY DEF Part

\* Whoever is left of a run's two messages, the output goes last.
LEMMA OutputStays ==
  ASSUME NEW p \in Seq(Messages), NEW q \in Seq(Messages), Part(p, q), Ordered(q),
         NEW i \in Links, In(p, Message(i, "done")), In(q, Message(i, "output"))
  PROVE  In(p, Message(i, "output"))
<1>1. PICK j \in 1 .. Len(p) : p[j] = Message(i, "done")
  BY DEF In
<1>2. PICK k \in 1 .. Len(q) : q[k] = Message(i, "output")
  BY DEF In
<1>3. /\ Len(p) \in Nat /\ Len(q) \in Nat
      /\ j \in 1 .. Len(q) /\ q[j] = Message(i, "done")
  BY <1>1 DEF Part
<1>4. /\ q[j].run = i /\ q[j].type = "done" /\ q[k].run = i /\ q[k].type = "output"
  BY <1>2, <1>3, MessageIs
<1>5. k < j
  BY <1>3, <1>4 DEF Ordered
<1>6. k \in 1 .. Len(p) /\ p[k] = q[k]
  BY <1>1, <1>2, <1>3, <1>5 DEF Part
<1>. QED BY <1>2, <1>6 DEF In

\* The order outlives the head, and behind an end there is no output.
LEMMA OrderedTail ==
  ASSUME NEW q \in Seq(Messages), q # <<>>, Ordered(q)
  PROVE  /\ Ordered(Tail(q))
         /\ \A i \in Links : Head(q) = Message(i, "done") =>
              ~ In(q, Message(i, "output"))
<1>1. /\ Len(q) \in Nat \ {0} /\ Head(q) = q[1]
      /\ Tail(q) \in Seq(Messages) /\ Len(Tail(q)) = Len(q) - 1
      /\ \A k \in 1 .. Len(Tail(q)) :
           k + 1 \in 1 .. Len(q) /\ Tail(q)[k] = q[k + 1]
  OBVIOUS
<1>2. Ordered(Tail(q))
  <2>. SUFFICES ASSUME NEW j \in 1 .. Len(Tail(q)), NEW k \in 1 .. Len(Tail(q)),
                       Tail(q)[j].run = Tail(q)[k].run,
                       Tail(q)[j].type = "done", Tail(q)[k].type = "output"
                PROVE  k < j
    BY DEF Ordered
  <2>1. k + 1 < j + 1
    BY <1>1 DEF Ordered
  <2>. QED BY <1>1, <2>1
<1>3. ASSUME NEW i \in Links, Head(q) = Message(i, "done"),
             In(q, Message(i, "output"))
      PROVE  FALSE
  <2>1. PICK k \in 1 .. Len(q) : q[k] = Message(i, "output")
    BY <1>3 DEF In
  <2>2. 1 \in 1 .. Len(q) /\ q[1] = Message(i, "done")
    BY <1>1, <1>3
  <2>3. q[1].run = q[k].run /\ q[1].type = "done" /\ q[k].type = "output"
    BY <2>1, <2>2, MessageIs
  <2>4. k < 1
    BY <2>2, <2>3 DEF Ordered
  <2>. QED BY <1>1, <2>4
<1>. QED BY <1>2, <1>3

\* A message may join unless it is an output whose end is there.
LEMMA OrderedAppend ==
  ASSUME NEW q \in Seq(Messages), NEW m \in Messages, Ordered(q),
         m.type = "output" => ~ In(q, Message(m.run, "done"))
  PROVE  Ordered(Append(q, m))
<1>1. /\ Len(q) \in Nat /\ Len(Append(q, m)) = Len(q) + 1
      /\ Append(q, m)[Len(q) + 1] = m
      /\ \A k \in 1 .. Len(q) : Append(q, m)[k] = q[k] /\ q[k] \in Messages
  OBVIOUS
<1>. SUFFICES ASSUME NEW j \in 1 .. Len(q) + 1, NEW k \in 1 .. Len(q) + 1,
                     Append(q, m)[j].run = Append(q, m)[k].run,
                     Append(q, m)[j].type = "done",
                     Append(q, m)[k].type = "output"
              PROVE  k < j
  BY <1>1 DEF Ordered
<1>2. CASE j \in 1 .. Len(q) /\ k \in 1 .. Len(q)
  BY <1>1, <1>2 DEF Ordered
<1>3. CASE j = Len(q) + 1 /\ k \in 1 .. Len(q)
  BY <1>1, <1>3
<1>4. CASE k = Len(q) + 1 /\ j \in 1 .. Len(q)
  <2>1. /\ q[j] \in Messages /\ q[j].run = m.run /\ q[j].type = "done"
        /\ m.type = "output" /\ m.run \in Links
    BY <1>1, <1>4 DEF Messages
  <2>2. q[j] = Message(m.run, "done")
    BY <2>1, MessageIs
  <2>. QED BY <1>4, <2>1, <2>2 DEF In
<1>5. CASE k = Len(q) + 1 /\ j = Len(q) + 1
  BY <1>1, <1>5
<1>. QED BY <1>1, <1>2, <1>3, <1>4, <1>5

\* A request is sent that is not on the link.
LEMMA FlowSend ==
  ASSUME NEW u \in Seq(Links), NEW n \in Seq(Links), NEW o \in Seq(Messages),
         NEW d \in Seq(Messages), NEW x \in Links, Flow(u, n, o, d),
         ~ In(u, x), ~ In(n, x),
         \A m \in Messages : In(o, m) \/ In(d, m) => m.run # x
  PROVE  Flow(Append(u, x), n, o, d)
<1>1. /\ \A y : In(Append(u, x), y) <=> In(u, y) \/ y = x
      /\ Once(u) => Once(Append(u, x))
  BY AppendOf
<1>. QED BY <1>1 DEF Flow

\* The gateway forwards a request.
LEMMA FlowForward ==
  ASSUME NEW u \in Seq(Links), NEW n \in Seq(Links), NEW o \in Seq(Messages),
         NEW d \in Seq(Messages), Flow(u, n, o, d), u # <<>>
  PROVE  /\ Flow(Tail(u), Append(n, Head(u)), o, d)
         /\ \A i \in Links : In(Tail(u), i) \/ In(Append(n, Head(u)), i)
                             <=> In(u, i) \/ In(n, i)
<1>1. /\ Head(u) \in Links /\ Tail(u) \in Seq(Links) /\ In(u, Head(u))
      /\ \A x : In(u, x) <=> x = Head(u) \/ In(Tail(u), x)
      /\ Once(u) => Once(Tail(u)) /\ ~ In(Tail(u), Head(u))
  BY TailOf
<1>2. /\ \A y : In(Append(n, Head(u)), y) <=> In(n, y) \/ y = Head(u)
      /\ Once(n) /\ ~ In(n, Head(u)) => Once(Append(n, Head(u)))
  BY <1>1, AppendOf
<1>3. Flow(Tail(u), Append(n, Head(u)), o, d)
  BY <1>1, <1>2 DEF Flow
<1>4. \A i \in Links : In(Tail(u), i) \/ In(Append(n, Head(u)), i)
                       <=> In(u, i) \/ In(n, i)
  BY <1>1, <1>2
<1>. QED BY <1>3, <1>4

\* The messages that answer request i follow those of q.
Answered(q, i) == q \o <<Message(i, "output"), Message(i, "done")>>

\* The kernel answers a request.
LEMMA FlowExecute ==
  ASSUME NEW u \in Seq(Links), NEW n \in Seq(Links), NEW o \in Seq(Messages),
         NEW d \in Seq(Messages), Flow(u, n, o, d), n # <<>>
  PROVE  /\ Answered(o, Head(n)) \in Seq(Messages)
         /\ Flow(u, Tail(n), Answered(o, Head(n)), d)
         /\ \A x : In(Answered(o, Head(n)), x)
                   <=> \/ In(o, x) \/ x = Message(Head(n), "output")
                       \/ x = Message(Head(n), "done")
         /\ In(n, Head(n)) /\ ~ In(Tail(n), Head(n)) /\ ~ In(u, Head(n))
<1>. DEFINE a == Message(Head(n), "output")
            b == Message(Head(n), "done")
            r == Answered(o, Head(n))
<1>1. /\ Head(n) \in Links /\ Tail(n) \in Seq(Links) /\ In(n, Head(n))
      /\ \A x : In(n, x) <=> x = Head(n) \/ In(Tail(n), x)
      /\ Once(n) => Once(Tail(n)) /\ ~ In(Tail(n), Head(n))
  BY TailOf
<1>2. /\ a \in Messages /\ b \in Messages /\ a.run = Head(n) /\ b.run = Head(n)
      /\ a # b /\ a.type = "output" /\ b.type = "done"
  BY <1>1, MessageIs DEF Message
<1>3. r = Append(Append(o, a), b)
  <2>. HIDE DEF a, b
  <2>1. r = o \o <<a, b>>
    BY DEF a, b, r, Answered
  <2>. QED BY <1>2, <2>1
<1>4. /\ ~ In(o, a) /\ ~ In(o, b) /\ ~ In(d, a) /\ ~ In(d, b)
      /\ ~ In(u, Head(n)) /\ ~ In(Tail(n), Head(n))
  BY <1>1, <1>2 DEF Flow
<1>. HIDE DEF a, b, r
<1>5. /\ Append(o, a) \in Seq(Messages)
      /\ \A y : In(Append(o, a), y) <=> In(o, y) \/ y = a
      /\ Once(o) => Once(Append(o, a))
  BY <1>2, <1>4, AppendOf
<1>6. /\ r \in Seq(Messages)
      /\ \A y : In(r, y) <=> In(Append(o, a), y) \/ y = b
      /\ Once(Append(o, a)) => Once(r)
  <2>1. ~ In(Append(o, a), b)
    BY <1>2, <1>4, <1>5
  <2>. DEFINE p == Append(o, a)
  <2>. HIDE DEF p
  <2>2. p \in Seq(Messages) /\ ~ In(p, b) /\ r = Append(p, b)
    BY <1>3, <1>5, <2>1 DEF p
  <2>3. /\ Append(p, b) \in Seq(Messages)
        /\ \A y : In(Append(p, b), y) <=> In(p, y) \/ y = b
        /\ Once(p) => Once(Append(p, b))
    BY <1>2, <2>2, AppendOf
  <2>. QED BY <2>2, <2>3 DEF p
<1>7. Ordered(r)
  <2>1. Ordered(Append(o, a))
    <3>1. ~ In(o, Message(a.run, "done"))
      BY <1>2, <1>4 DEF b
    <3>. QED BY <1>2, <3>1, OrderedAppend DEF Flow
  <2>2. b.type # "output"
    BY <1>2
  <2>. QED BY <1>2, <1>3, <1>5, <2>1, <2>2, OrderedAppend
<1>8. Flow(u, Tail(n), r, d)
  <2>1. \A m \in Messages : In(r, m) => In(o, m) \/ m = a \/ m = b
    BY <1>5, <1>6
  <2>2. \A i \in Links : In(d, Message(i, "done")) => ~ In(r, Message(i, "output"))
    <3>. SUFFICES ASSUME NEW i \in Links, In(d, Message(i, "done")),
                         In(r, Message(i, "output"))
                  PROVE  FALSE
      OBVIOUS
    <3>1. /\ Message(i, "done") \in Messages /\ Message(i, "done").run = i
          /\ Message(i, "output") \in Messages /\ Message(i, "output").run = i
      BY MessageIs
    <3>2. i # Head(n)
      BY <1>1, <3>1 DEF Flow
    <3>3. In(o, Message(i, "output"))
      BY <1>2, <2>1, <3>1, <3>2
    <3>. QED BY <3>3 DEF Flow
  <2>3. \A m \in Messages : In(r, m) \/ In(d, m) => ~ In(u, m.run) /\ ~ In(Tail(n), m.run)
    BY <1>1, <1>2, <1>4, <2>1 DEF Flow
  <2>4. \A m \in Messages : In(r, m) => ~ In(d, m)
    BY <1>4, <2>1 DEF Flow
  <2>. QED BY <1>1, <1>5, <1>6, <1>7, <2>2, <2>3, <2>4 DEF Flow
<1>9. \A x : In(r, x) <=> In(o, x) \/ x = a \/ x = b
  BY <1>5, <1>6
<1>. QED BY <1>1, <1>4, <1>6, <1>8, <1>9, Zenon DEF a, b, r

\* The gateway forwards a message.
LEMMA FlowReport ==
  ASSUME NEW u \in Seq(Links), NEW n \in Seq(Links), NEW o \in Seq(Messages),
         NEW d \in Seq(Messages), Flow(u, n, o, d), o # <<>>
  PROVE  /\ Flow(u, n, Tail(o), Append(d, Head(o)))
         /\ \A m : In(o, m) <=> In(Tail(o), m) \/ m = Head(o)
         /\ \A m : In(Append(d, Head(o)), m) <=> In(d, m) \/ m = Head(o)
<1>1. /\ Head(o) \in Messages /\ Tail(o) \in Seq(Messages) /\ In(o, Head(o))
      /\ \A x : In(o, x) <=> x = Head(o) \/ In(Tail(o), x)
      /\ Once(o) => Once(Tail(o)) /\ ~ In(Tail(o), Head(o))
  BY TailOf
<1>2. /\ \A y : In(Append(d, Head(o)), y) <=> In(d, y) \/ y = Head(o)
      /\ Once(d) /\ ~ In(d, Head(o)) => Once(Append(d, Head(o)))
  BY <1>1, AppendOf
<1>3. /\ Ordered(Tail(o))
      /\ \A i \in Links : Head(o) = Message(i, "done") =>
           ~ In(o, Message(i, "output"))
  BY OrderedTail DEF Flow
<1>4. Ordered(Append(d, Head(o)))
  <2>1. ASSUME Head(o).type = "output"
        PROVE  ~ In(d, Message(Head(o).run, "done"))
    <3>1. Head(o).run \in Links
      BY <1>1 DEF Messages
    <3>2. Head(o) = Message(Head(o).run, "output")
      BY <1>1, <2>1, <3>1, MessageIs
    <3>. QED BY <1>1, <3>1, <3>2 DEF Flow
  <2>. QED BY <1>1, <2>1, OrderedAppend DEF Flow
<1>5. \A i \in Links : In(Append(d, Head(o)), Message(i, "done")) =>
        ~ In(Tail(o), Message(i, "output"))
  BY <1>1, <1>2, <1>3 DEF Flow
<1>. QED BY <1>1, <1>2, <1>3, <1>4, <1>5 DEF Flow

\* The browser receives a message: an output is the only one and its end is
\* still to come, and with an end nothing of its run is left.
LEMMA FlowReceive ==
  ASSUME NEW u \in Seq(Links), NEW n \in Seq(Links), NEW o \in Seq(Messages),
         NEW d \in Seq(Messages), Flow(u, n, o, d), d # <<>>
  PROVE  /\ Head(d) \in Messages /\ In(d, Head(d)) /\ Flow(u, n, o, Tail(d))
         /\ \A m : In(d, m) <=> In(Tail(d), m) \/ m = Head(d)
         /\ ~ In(Tail(d), Head(d)) /\ ~ In(o, Head(d))
         /\ ~ In(u, Head(d).run) /\ ~ In(n, Head(d).run)
         /\ \A i \in Links : Head(d) = Message(i, "done") =>
              ~ In(d, Message(i, "output")) /\ ~ In(o, Message(i, "output"))
<1>1. /\ Head(d) \in Messages /\ Tail(d) \in Seq(Messages) /\ In(d, Head(d))
      /\ \A x : In(d, x) <=> x = Head(d) \/ In(Tail(d), x)
      /\ Once(d) => Once(Tail(d)) /\ ~ In(Tail(d), Head(d))
  BY TailOf
<1>2. /\ Ordered(Tail(d))
      /\ \A i \in Links : Head(d) = Message(i, "done") =>
           ~ In(d, Message(i, "output"))
  BY OrderedTail DEF Flow
<1>. QED BY <1>1, <1>2 DEF Flow

\* Parts of the queues are lost.
LEMMA FlowLoses ==
  ASSUME NEW u \in Seq(Links), NEW n \in Seq(Links), NEW o \in Seq(Messages),
         NEW d \in Seq(Messages), Flow(u, n, o, d),
         NEW u2 \in Seq(Links), NEW n2 \in Seq(Links), NEW o2 \in Seq(Messages),
         NEW d2 \in Seq(Messages),
         Part(u2, u), Part(n2, n), Part(o2, o), Part(d2, d)
  PROVE  /\ Flow(u2, n2, o2, d2)
         /\ \A x : /\ In(u2, x) => In(u, x)
                   /\ In(n2, x) => In(n, x)
                   /\ In(o2, x) => In(o, x)
                   /\ In(d2, x) => In(d, x)
<1>1. (\A x : In(u2, x) => In(u, x)) /\ (Once(u) => Once(u2))
  BY PartOf
<1>2. (\A x : In(n2, x) => In(n, x)) /\ (Once(n) => Once(n2))
  BY PartOf
<1>3. /\ \A x : In(o2, x) => In(o, x)
      /\ Once(o) => Once(o2)
      /\ Ordered(o) => Ordered(o2)
  BY PartOf
<1>4. /\ \A x : In(d2, x) => In(d, x)
      /\ Once(d) => Once(d2)
      /\ Ordered(d) => Ordered(d2)
  BY PartOf
<1>. QED BY <1>1, <1>2, <1>3, <1>4 DEF Flow

\* The run has got what came before all the same, if the browser's end of the
\* link loses nothing.
LEMMA ProgressLoses ==
  ASSUME NEW u \in Seq(Links), NEW n \in Seq(Links), NEW o \in Seq(Messages),
         NEW d \in Seq(Messages), Flow(u, n, o, d),
         NEW u2 \in Seq(Links), NEW n2 \in Seq(Links), NEW o2 \in Seq(Messages),
         Part(u2, u), Part(n2, n), Part(o2, o),
         NEW i \in Links, NEW g, Progress(i, g, u, n, o, d)
  PROVE  Progress(i, g, u2, n2, o2, d)
<1>1. \A x : /\ In(u2, x) => In(u, x)
             /\ In(n2, x) => In(n, x)
             /\ In(o2, x) => In(o, x)
  BY PartOf
<1>2. In(o2, Message(i, "done")) /\ In(o, Message(i, "output"))
      => In(o2, Message(i, "output"))
  BY OutputStays DEF Flow
<1>3. In(d, Message(i, "done")) => ~ In(o, Message(i, "output"))
  BY DEF Flow
<1>. QED BY <1>1, <1>2, <1>3 DEF Progress
-----------------------------------------------------------------------------
(* Frames. *)

\* Runtimes are never given back, nor given to another notebook, and what is
\* gone stays gone.
PoolGrows ==
  \A r \in Runtimes :
    /\ phase[r] # "absent" => phase'[r] # "absent" /\ owner'[r] = owner[r]
    /\ phase[r] = "gone" => phase'[r] = "gone"

\* The runtimes at any step.
LEMMA PoolStep ==
  ASSUME PoolTypes,
         \/ UNCHANGED poolVars
         \/ \E r \in Runtimes :
              \/ \E n \in Notebooks \union {None} : Launch(n, r)
              \/ BecomesHealthy(r) \/ Vanishes(r) \/ ReportStopped(r)
  PROVE  PoolTypes' /\ PoolGrows
<1>1. CASE UNCHANGED poolVars
  BY <1>1 DEF poolVars, PoolTypes, PoolGrows
<1>2. ASSUME NEW r \in Runtimes, NEW n \in Notebooks \union {None}, Launch(n, r)
      PROVE  PoolTypes' /\ PoolGrows
  BY <1>2 DEF Launch, PoolTypes, PoolGrows
<1>3. ASSUME NEW r \in Runtimes, BecomesHealthy(r) \/ Vanishes(r) \/ ReportStopped(r)
      PROVE  PoolTypes' /\ PoolGrows
  BY <1>3 DEF BecomesHealthy, Vanishes, ReportStopped, Alive, PoolTypes, PoolGrows
<1>. QED BY <1>1, <1>2, <1>3

\* Nothing moves on link l.
SameQueues(l) ==
  /\ up'[l] = up[l] /\ inbox'[l] = inbox[l]
  /\ outbox'[l] = outbox[l] /\ down'[l] = down[l]

\* A link nothing happens to, and a run nothing happens to.
LEMMA PairKept ==
  ASSUME PoolGrows, NEW l \in Links, NEW i \in Links, PairOK(l, i), SameQueues(l),
         browserEnd'[l] = "open" => browserEnd[l] = "open",
         target'[l] = target[l], runs'[i] = runs[i]
  PROVE  PairOK(l, i)'
<1>1. /\ Waits(l, i)' <=> Waits(l, i)
      /\ Told(l, i)' <=> Told(l, i)
      /\ Reported(l, i)' <=> Reported(l, i)
      /\ Sent(i)' <=> Sent(i)
      /\ Executing(i, l)' <=> Executing(i, l)
  BY DEF SameQueues, Waits, Told, Reported, Sent, Executing
<1>2. OwnedBy(target[l], runs[i].notebook)
      => OwnedBy(target[l], runs[i].notebook)'
  BY DEF OwnedBy, PoolGrows
<1>3. Progress(i, runs'[i].got, up'[l], inbox'[l], outbox'[l], down'[l])
      <=> Progress(i, runs[i].got, up[l], inbox[l], outbox[l], down[l])
  BY DEF SameQueues
<1>. QED BY <1>1, <1>2, <1>3 DEF PairOK

\* Nothing of a run that was not sent is on its way.
LEMMA PairSilent ==
  ASSUME NEW l \in Links, NEW i \in Links, PairOK(l, i), ~ Sent(i),
         up'[l] = up[l] /\ inbox'[l] = inbox[l] /\ outbox'[l] = outbox[l],
         down'[l] = down[l] \/ down'[l] = <<>>
  PROVE  PairOK(l, i)'
<1>1. ~ Waits(l, i) /\ ~ Told(l, i) /\ ~ Reported(l, i)
  BY DEF PairOK
<1>2. ~ Waits(l, i)' /\ ~ Told(l, i)' /\ ~ Reported(l, i)'
  BY <1>1, EmptyOf DEF Waits, Told, Reported
<1>3. Progress(i, runs'[i].got, up'[l], inbox'[l], outbox'[l], down'[l])
  BY <1>2 DEF Waits, Told, Reported, Progress
<1>. QED BY <1>2, <1>3 DEF PairOK

\* Nothing is on an empty link.
LEMMA PairEmpty ==
  ASSUME NEW l \in Links, NEW i \in Links,
         up'[l] = <<>> /\ inbox'[l] = <<>> /\ outbox'[l] = <<>> /\ down'[l] = <<>>
  PROVE  PairOK(l, i)'
<1>1. ~ Waits(l, i)' /\ ~ Told(l, i)' /\ ~ Reported(l, i)'
  BY EmptyOf DEF Waits, Told, Reported
<1>2. Progress(i, runs'[i].got, up'[l], inbox'[l], outbox'[l], down'[l])
  BY <1>1 DEF Waits, Told, Reported, Progress
<1>. QED BY <1>1, <1>2 DEF PairOK

\* An empty link is in order.
LEMMA FlowEmpty == Flow(<<>>, <<>>, <<>>, <<>>)
BY EmptyOf DEF Flow, Ordered

\* What does not depend on what is on the links.
LEMMA CallsAlone ==
  ASSUME TypeInv, LinkInv, PoolGrows, UNCHANGED <<runs, client>>, target' = target,
         \A l \in Links : browserEnd[l] # "none" => browserEnd'[l] # "none"
  PROVE  RunsOK' /\ ClientOK'
<1>1. RunsOK'
  <2>. SUFFICES ASSUME NEW i \in Links
                PROVE  RunOK(i)'
    BY DEF RunsOK
  <2>1. RunOK(i) /\ runs'[i] = runs[i]
    BY DEF LinkInv, RunsOK
  <2>2. OwnedBy(runs[i].runtime, runs[i].notebook)
        => OwnedBy(runs[i].runtime, runs[i].notebook)'
    BY <2>1 DEF OwnedBy, PoolGrows
  <2>3. Sent(i)' <=> Sent(i)
    BY <2>1 DEF Sent
  <2>. QED BY <2>1, <2>2, <2>3 DEF RunOK
<1>2. ClientOK'
  BY DEF TypeInv, SessionTypes, LinkInv, ClientOK
<1>. QED BY <1>1, <1>2

\* The page while calls and Stops do not move.
LEMMA PageAlone ==
  ASSUME TypeInv, PageInv, PoolGrows, UNCHANGED sessionVars
  PROVE  SessionTypes' /\ PageInv'
<1>1. SessionTypes'
  BY DEF TypeInv, SessionTypes, sessionVars
<1>2. RunningOK'
  BY DEF PageInv, RunningOK, sessionVars
<1>3. CurrentOK'
  BY DEF TypeInv, SessionTypes, PageInv, CurrentOK, PoolGrows, sessionVars
<1>4. TogetherOK'
  BY DEF PageInv, TogetherOK, Mounted, PoolGrows, sessionVars
<1>. QED BY <1>1, <1>2, <1>3, <1>4 DEF PageInv
-----------------------------------------------------------------------------
(* Records written field by field. *)

\* A call of runCell and one of stopRuntime.
Call(p, n, v, r, l, g) ==
  [phase |-> p, notebook |-> n, visit |-> v, runtime |-> r, link |-> l, got |-> g]

StopCall(p, v, s, r) == [phase |-> p, visit |-> v, shown |-> s, runtime |-> r]

\* A call that is clicked.
LEMMA ClickedIs ==
  ASSUME NEW n, NEW v
  PROVE  [NoRun EXCEPT !.phase = "post", !.notebook = n, !.visit = v]
           = Call("post", n, v, None, None, 0)
<1>1. [NoRun EXCEPT !.phase = "post"] = Call("post", None, 0, None, None, 0)
  BY DEF NoRun, Call
<1>2. [Call("post", None, 0, None, None, 0) EXCEPT !.notebook = n]
        = Call("post", n, 0, None, None, 0)
  BY DEF Call
<1>3. [Call("post", n, 0, None, None, 0) EXCEPT !.visit = v]
        = Call("post", n, v, None, None, 0)
  BY DEF Call
<1>4. [NoRun EXCEPT !.phase = "post", !.notebook = n, !.visit = v]
        = [[[NoRun EXCEPT !.phase = "post"] EXCEPT !.notebook = n] EXCEPT !.visit = v]
  BY Zenon
<1>. QED BY <1>1, <1>2, <1>3, <1>4, Zenon

\* A call that is over keeps its notebook and, when it has succeeded, what it
\* has got.
LEMMA EndedIs ==
  ASSUME NEW i \in Links, NEW outcome \in {"done", "failed", "late"}
  PROVE  EndedRun(i, outcome)
           = Call(outcome, runs[i].notebook, 0, None, None,
                  IF outcome = "done" THEN runs[i].got ELSE 0)
<1>. DEFINE g == IF outcome = "done" THEN runs[i].got ELSE 0
            n == runs[i].notebook
<1>1. [NoRun EXCEPT !.phase = outcome] = Call(outcome, None, 0, None, None, 0)
  BY DEF NoRun, Call
<1>2. EndedRun(i, outcome)
        = [[[NoRun EXCEPT !.phase = outcome] EXCEPT !.notebook = n] EXCEPT !.got = g]
  BY Zenon DEF EndedRun
<1>. HIDE DEF g, n
<1>3. [Call(outcome, None, 0, None, None, 0) EXCEPT !.notebook = n]
        = Call(outcome, n, 0, None, None, 0)
  BY DEF Call
<1>4. [Call(outcome, n, 0, None, None, 0) EXCEPT !.got = g]
        = Call(outcome, n, 0, None, None, g)
  BY DEF Call
<1>5. EndedRun(i, outcome) = Call(outcome, n, 0, None, None, g)
  BY <1>1, <1>2, <1>3, <1>4, Zenon
<1>. QED BY <1>5 DEF g, n

\* A call whose phase changes.
LEMMA PhaseIs ==
  ASSUME NEW f \in [Links -> RunRecords], NEW i \in Links, NEW p
  PROVE  [f EXCEPT ![i].phase = p]
           = [f EXCEPT ![i] = Call(p, f[i].notebook, f[i].visit,
                                       f[i].runtime, f[i].link, f[i].got)]
<1>1. f[i] \in RunRecords
  OBVIOUS
<1>2. [f[i] EXCEPT !.phase = p]
        = Call(p, f[i].notebook, f[i].visit,
                 f[i].runtime, f[i].link, f[i].got)
  BY <1>1 DEF RunRecords, Call
<1>. QED BY <1>2, Zenon

\* A call that learns its runtime.
LEMMA RuntimeIs ==
  ASSUME NEW f \in [Links -> RunRecords], NEW i \in Links, NEW r
  PROVE  [f EXCEPT ![i].runtime = r]
           = [f EXCEPT ![i] = Call(f[i].phase, f[i].notebook, f[i].visit,
                                       r, f[i].link, f[i].got)]
<1>1. f[i] \in RunRecords
  OBVIOUS
<1>2. [f[i] EXCEPT !.runtime = r]
        = Call(f[i].phase, f[i].notebook, f[i].visit,
                 r, f[i].link, f[i].got)
  BY <1>1 DEF RunRecords, Call
<1>. QED BY <1>2, Zenon

\* A call that has its kernel.
LEMMA LinkIs ==
  ASSUME NEW f \in [Links -> RunRecords], NEW i \in Links, NEW l
  PROVE  [f EXCEPT ![i].link = l]
           = [f EXCEPT ![i] = Call(f[i].phase, f[i].notebook, f[i].visit,
                                       f[i].runtime, l, f[i].got)]
<1>1. f[i] \in RunRecords
  OBVIOUS
<1>2. [f[i] EXCEPT !.link = l]
        = Call(f[i].phase, f[i].notebook, f[i].visit,
                 f[i].runtime, l, f[i].got)
  BY <1>1 DEF RunRecords, Call
<1>. QED BY <1>2, Zenon

\* A call that receives an output.
LEMMA GotIs ==
  ASSUME NEW f \in [Links -> RunRecords], NEW i \in Links
  PROVE  [f EXCEPT ![i].got = @ + 1]
           = [f EXCEPT ![i] = Call(f[i].phase, f[i].notebook, f[i].visit,
                                       f[i].runtime, f[i].link, f[i].got + 1)]
<1>1. f[i] \in RunRecords
  OBVIOUS
<1>2. [f[i] EXCEPT !.got = @ + 1]
        = Call(f[i].phase, f[i].notebook, f[i].visit,
                 f[i].runtime, f[i].link, f[i].got + 1)
  BY <1>1 DEF RunRecords, Call
<1>. QED BY <1>2, Zenon

\* What an answer says.
LEMMA AnswerIs ==
  ASSUME NEW container
  PROVE  Answer(container) \in {"STARTING", "READY", "FAILED"}
BY DEF Answer

\* A call that learns its runtime as its request is answered.
Posted(f, i, p, r) == [f EXCEPT ![i].phase = p, ![i].runtime = r]

LEMMA PostedIs ==
  ASSUME NEW f \in [Links -> RunRecords], NEW i \in Links, NEW r \in Runtimes,
         NEW p \in Phases
  PROVE  Posted(f, i, p, r)
           = [f EXCEPT ![i] = Call(p, f[i].notebook, f[i].visit, r,
                                   f[i].link, f[i].got)]
<1>. DEFINE c == Call(p, f[i].notebook, f[i].visit, f[i].runtime, f[i].link,
                      f[i].got)
            mid == [f EXCEPT ![i] = c]
<1>1. [f EXCEPT ![i].phase = p] = mid
  BY PhaseIs DEF c, mid
<1>2. f[i] \in RunRecords /\ c \in RunRecords
  BY DEF RunRecords, Call, Phases
<1>3. mid \in [Links -> RunRecords] /\ mid[i] = c
  BY <1>2
<1>4. [mid EXCEPT ![i].runtime = r]
        = [mid EXCEPT ![i] = Call(p, f[i].notebook, f[i].visit, r,
                                  f[i].link, f[i].got)]
  <2>1. [mid EXCEPT ![i].runtime = r]
          = [mid EXCEPT ![i] = Call(mid[i].phase, mid[i].notebook, mid[i].visit, r,
                                    mid[i].link, mid[i].got)]
    <3>. HIDE DEF mid
    <3>. QED BY <1>3, RuntimeIs
  <2>2. /\ c.phase = p /\ c.notebook = f[i].notebook /\ c.visit = f[i].visit
        /\ c.link = f[i].link /\ c.got = f[i].got
    BY DEF Call
  <2>. QED BY <1>3, <2>1, <2>2, Zenon
<1>5. [mid EXCEPT ![i] = Call(p, f[i].notebook, f[i].visit, r, f[i].link,
                              f[i].got)]
        = [f EXCEPT ![i] = Call(p, f[i].notebook, f[i].visit, r, f[i].link,
                                f[i].got)]
  BY DEF mid
<1>6. Posted(f, i, p, r)
        = [[f EXCEPT ![i].phase = p] EXCEPT ![i].runtime = r]
  BY Zenon DEF Posted
<1>. QED BY <1>1, <1>4, <1>5, <1>6, Zenon

\* A call that is sent to its kernel.
LEMMA ExecutingIs ==
  ASSUME NEW f \in [Links -> RunRecords], NEW i \in Links, NEW l \in Links
  PROVE  [f EXCEPT ![i].phase = "executing", ![i].link = l]
           = [f EXCEPT ![i] = Call("executing", f[i].notebook, f[i].visit,
                                   f[i].runtime, l, f[i].got)]
<1>. DEFINE c == Call("executing", f[i].notebook, f[i].visit, f[i].runtime, f[i].link,
                      f[i].got)
            mid == [f EXCEPT ![i] = c]
<1>1. [f EXCEPT ![i].phase = "executing"] = mid
  BY PhaseIs DEF c, mid
<1>2. f[i] \in RunRecords /\ c \in RunRecords
  BY DEF RunRecords, Call, Phases
<1>3. mid \in [Links -> RunRecords] /\ mid[i] = c
  BY <1>2
<1>4. [mid EXCEPT ![i].link = l]
        = [mid EXCEPT ![i] = Call("executing", f[i].notebook, f[i].visit,
                                  f[i].runtime, l, f[i].got)]
  <2>1. [mid EXCEPT ![i].link = l]
          = [mid EXCEPT ![i] = Call(mid[i].phase, mid[i].notebook, mid[i].visit,
                                    mid[i].runtime, l, mid[i].got)]
    <3>. HIDE DEF mid
    <3>. QED BY <1>3, LinkIs
  <2>2. /\ c.phase = "executing" /\ c.notebook = f[i].notebook /\ c.visit = f[i].visit
        /\ c.runtime = f[i].runtime /\ c.got = f[i].got
    BY DEF Call
  <2>. QED BY <1>3, <2>1, <2>2, Zenon
<1>5. [mid EXCEPT ![i] = Call("executing", f[i].notebook, f[i].visit, f[i].runtime,
                              l, f[i].got)]
        = [f EXCEPT ![i] = Call("executing", f[i].notebook, f[i].visit,
                                f[i].runtime, l, f[i].got)]
  BY DEF mid
<1>6. [f EXCEPT ![i].phase = "executing", ![i].link = l]
        = [[f EXCEPT ![i].phase = "executing"] EXCEPT ![i].link = l]
  BY Zenon
<1>. QED BY <1>1, <1>4, <1>5, <1>6, Zenon

-----------------------------------------------------------------------------
(* The page. *)

\* The notebook pages.
Pages == [notebook : Notebooks, visit : Nat \ {0}, shown : Runtimes \union {None},
          running : Links \union {None}]

\* A page p that shows r, and one that runs nothing.
LEMMA PageFields ==
  ASSUME NEW p \in Pages, NEW r \in Runtimes \union {None}
  PROVE  /\ [p EXCEPT !.shown = r]
              = [notebook |-> p.notebook, visit |-> p.visit, shown |-> r,
                 running |-> p.running]
         /\ [p EXCEPT !.running = None]
              = [notebook |-> p.notebook, visit |-> p.visit, shown |-> p.shown,
                 running |-> None]
         /\ [p EXCEPT !.shown = r, !.running = None]
              = [notebook |-> p.notebook, visit |-> p.visit, shown |-> r,
                 running |-> None]
<1>1. [p EXCEPT !.shown = r]
        = [notebook |-> p.notebook, visit |-> p.visit, shown |-> r,
           running |-> p.running]
  BY DEF Pages
<1>2. [p EXCEPT !.running = None]
        = [notebook |-> p.notebook, visit |-> p.visit, shown |-> p.shown,
           running |-> None]
  BY DEF Pages
<1>3. [[p EXCEPT !.shown = r] EXCEPT !.running = None]
        = [notebook |-> p.notebook, visit |-> p.visit, shown |-> r,
           running |-> None]
  <2>1. [[notebook |-> p.notebook, visit |-> p.visit, shown |-> r,
          running |-> p.running] EXCEPT !.running = None]
          = [notebook |-> p.notebook, visit |-> p.visit, shown |-> r,
             running |-> None]
    OBVIOUS
  <2>. QED BY <1>1, <2>1, Zenon
<1>4. [p EXCEPT !.shown = r, !.running = None]
        = [[p EXCEPT !.shown = r] EXCEPT !.running = None]
  BY Zenon
<1>. QED BY <1>1, <1>2, <1>3, <1>4, Zenon

\* The pages calls leave behind differ in what is shown and what is running.
LEMMA PagesAre ==
  ASSUME page \in Pages, NEW i \in Links
  PROVE  /\ PageAfter(i) \in Pages
         /\ PageAfter(i).notebook = page.notebook
         /\ PageAfter(i).visit = page.visit /\ PageAfter(i).shown = page.shown
         /\ PageAfter(i).running
              = IF Mounted(runs[i]) THEN None ELSE page.running
         /\ PageAfterDispose \in Pages
         /\ PageAfterDispose.notebook = page.notebook
         /\ PageAfterDispose.visit = page.visit
         /\ PageAfterDispose.shown = page.shown
         /\ PageAfterDispose.running
              = IF page.running \in Canceled THEN None ELSE page.running
<1>1. [page EXCEPT !.running = None]
        = [notebook |-> page.notebook, visit |-> page.visit, shown |-> page.shown,
           running |-> None]
  BY PageFields
<1>2. PageAfter(i)
        = IF Mounted(runs[i])
          THEN [notebook |-> page.notebook, visit |-> page.visit,
                shown |-> page.shown, running |-> None]
          ELSE page
  BY <1>1 DEF PageAfter
<1>3. PageAfterDispose
        = IF page.running \in Canceled
          THEN [notebook |-> page.notebook, visit |-> page.visit,
                shown |-> page.shown, running |-> None]
          ELSE page
  BY <1>1 DEF PageAfterDispose
<1>. HIDE DEF Mounted, Canceled
<1>. QED BY <1>2, <1>3 DEF Pages

\* A page p that is shown r.
LEMMA ShownIs ==
  ASSUME NEW p \in Pages, NEW r \in Runtimes \union {None},
         NEW q, q = [p EXCEPT !.shown = r]
  PROVE  /\ q \in Pages /\ q.notebook = p.notebook /\ q.visit = p.visit
         /\ q.shown = r /\ q.running = p.running
<1>1. q = [notebook |-> p.notebook, visit |-> p.visit, shown |-> r,
           running |-> p.running]
  BY PageFields
<1>. QED BY <1>1 DEF Pages

\* What the manager and the page know after an answer about the runtime.
LEMMA RememberIs ==
  ASSUME page \in Pages, NEW i \in Links, runs[i].runtime \in Runtimes, Remember(i)
  PROVE  /\ current' = runs[i].runtime
         /\ page' \in Pages /\ page'.notebook = page.notebook
         /\ page'.visit = page.visit /\ page'.running = page.running
         /\ page'.shown = IF Mounted(runs[i]) THEN runs[i].runtime ELSE page.shown
<1>1. CASE Mounted(runs[i])
  <2>1. page' = [page EXCEPT !.shown = runs[i].runtime]
    BY <1>1 DEF Remember
  <2>2. current' = runs[i].runtime
    BY DEF Remember
  <2>. QED BY <1>1, <2>1, <2>2, ShownIs
<1>2. CASE ~ Mounted(runs[i])
  BY <1>2 DEF Remember
<1>. QED BY <1>1, <1>2

\* The page over a step of one call.
LEMMA CallKeepsPage ==
  ASSUME TypeInv, PageInv, PoolGrows, NEW i \in Links, NEW c \in RunRecords,
         runs' = [runs EXCEPT ![i] = c], stops' = stops, strayed' = strayed,
         page' \in Pages, page'.notebook = page.notebook, page'.visit = page.visit,
         page'.running # None => page'.running \in {page.running, i},
         page'.running = i => /\ c.phase \notin Over /\ c.notebook = page.notebook
                              /\ c.visit = page.visit,
         c.phase \notin Over => \/ c.visit = page.visit
                                \/ runs[i].phase \notin Over /\ c.visit = runs[i].visit,
         current' \in Runtimes \union {None},
         current' # None => phase'[current'] # "absent",
         ~ strayed => page'.shown \in {None, current'},
         client' \in [runtime : Runtimes \union {None}, link : Links \union {None}]
  PROVE  SessionTypes' /\ PageInv'
<1>1. /\ runs \in [Links -> RunRecords] /\ runs' \in [Links -> RunRecords]
      /\ runs'[i] = c /\ \A j \in Links : j # i => runs'[j] = runs[j]
      /\ stops \in [Stops -> StopRecords]
  BY DEF TypeInv, SessionTypes
<1>2. RunningOK'
  BY <1>1 DEF PageInv, RunningOK, Pages
<1>3. CurrentOK'
  BY DEF CurrentOK
<1>4. TogetherOK'
  <2>. SUFFICES ASSUME ~ strayed
                PROVE  TogetherOK'
    BY DEF TogetherOK
  <2>1. \A j \in Links : runs'[j].phase \notin Over => Mounted(runs[j])'
    BY <1>1 DEF PageInv, TogetherOK, Mounted
  <2>2. \A j \in Stops :
          /\ stops[j].phase \in {"sent", "handled"} =>
               Mounted(stops[j])' /\ stops[j].shown = stops[j].runtime
          /\ stops[j].phase = "done" =>
               stops[j].shown \in Runtimes /\ phase'[stops[j].shown] = "gone"
    BY DEF PageInv, TogetherOK, Mounted, PoolGrows
  <2>. QED BY <2>1, <2>2 DEF TogetherOK, Mounted
<1>. QED BY <1>1, <1>2, <1>3, <1>4 DEF TypeInv, SessionTypes, PageInv, Pages
-----------------------------------------------------------------------------
(* A call until it has its kernel. *)

\* OwnedBy in the next state, of what is known in this one.
OwnedNext(r, n) == r \in Runtimes /\ phase'[r] # "absent" /\ owner'[r] = n

\* Bridges, connections and messages stay as they are.
LinksKept == UNCHANGED <<target, bridge, tasks, browserEnd, upstreamEnd, wire>>

\* The links over a step of a call whose code has not been sent.
LEMMA CallKeepsLinks ==
  ASSUME TypeInv, LinkInv, PoolGrows, NEW i \in Links, NEW c \in RunRecords,
         runs' = [runs EXCEPT ![i] = c], LinksKept, client' = client,
         ~ Sent(i), c.phase \notin {"starting", "executing", "done"}, c.got = 0,
         c.phase \notin {"none", "done", "failed"} => c.notebook \in Notebooks,
         c.phase \in {"STARTING", "READY", "FAILED", "poll"} =>
           OwnedNext(c.runtime, c.notebook),
         \/ runs[i].phase # "starting" /\ http' = http
         \/ c.phase = "failed" /\ http' = [http EXCEPT ![i] = "none"]
  PROVE  LinkInv'
<1>1. /\ runs \in [Links -> RunRecords] /\ runs[i].phase \in Phases
      /\ runs'[i] = c /\ \A j \in Links : j # i => runs'[j] = runs[j]
      /\ \A l \in Links : SameQueues(l)
      /\ target' = target /\ bridge' = bridge /\ tasks' = tasks
      /\ browserEnd' = browserEnd /\ upstreamEnd' = upstreamEnd
  BY DEF TypeInv, SessionTypes, RunRecords, LinksKept, wire, SameQueues
<1>2. LinksOK'
  <2>. SUFFICES ASSUME NEW l \in Links
                PROVE  LinkOK(l)'
    BY DEF LinksOK
  <2>1. LinkOK(l)
    BY DEF LinkInv, LinksOK
  <2>2. SameQueues(l)
    BY <1>1
  <2>3. http'[l] # "none" <=> runs'[l].phase = "starting"
    <3>1. CASE l = i
      BY <1>1, <2>1, <3>1 DEF LinkOK, TypeInv, GatewayTypes
    <3>2. CASE l # i
      BY <1>1, <2>1, <3>2 DEF LinkOK, TypeInv, GatewayTypes
    <3>. QED BY <3>1, <3>2
  <2>4. ~ Sent(l)' => ~ Sent(l)
    BY <1>1 DEF Sent
  <2>. QED BY <1>1, <2>1, <2>2, <2>3, <2>4 DEF LinkOK, SameQueues
<1>3. RunsOK'
  <2>. SUFFICES ASSUME NEW j \in Links
                PROVE  RunOK(j)'
    BY DEF RunsOK
  <2>1. CASE j = i
    BY <1>1, <2>1 DEF RunOK, OwnedBy, OwnedNext, Sent, Over
  <2>2. CASE j # i
    <3>1. RunOK(j) /\ runs'[j] = runs[j]
      BY <1>1, <2>2 DEF LinkInv, RunsOK
    <3>2. OwnedBy(runs[j].runtime, runs[j].notebook)
          => OwnedBy(runs[j].runtime, runs[j].notebook)'
      BY <3>1 DEF OwnedBy, PoolGrows
    <3>3. Sent(j)' <=> Sent(j)
      BY <3>1 DEF Sent
    <3>. QED BY <1>1, <3>1, <3>2, <3>3 DEF RunOK
  <2>. QED BY <2>1, <2>2
<1>4. ClientOK'
  BY <1>1 DEF LinkInv, ClientOK
<1>5. FlowsOK'
  BY <1>1 DEF LinkInv, FlowsOK, SameQueues
<1>6. PairsOK'
  <2>. SUFFICES ASSUME NEW l \in Links, NEW j \in Links
                PROVE  PairOK(l, j)'
    BY DEF PairsOK
  <2>1. PairOK(l, j) /\ SameQueues(l)
    BY <1>1 DEF LinkInv, PairsOK
  <2>2. CASE j = i
    BY <2>1, <2>2, PairSilent DEF SameQueues
  <2>3. CASE j # i
    BY <1>1, <2>1, <2>3, PairKept
  <2>. QED BY <2>2, <2>3
<1>. QED BY <1>2, <1>3, <1>4, <1>5, <1>6 DEF LinkInv

\* The call is clicked.
LEMMA ClickRunKeeps ==
  ASSUME IInv, NEW i \in Links, ClickRun(i)
  PROVE  IInv'
<1>. DEFINE c == Call("post", page.notebook, page.visit, None, None, 0)
<1>1. /\ runs[i].phase = "none" /\ page.running = None
      /\ runs' = [runs EXCEPT ![i] = c]
      /\ page' = [page EXCEPT !.running = i]
      /\ UNCHANGED <<poolVars, gatewayVars, stops, current, client, strayed>>
  BY ClickedIs DEF ClickRun
<1>2. page \in Pages /\ c \in RunRecords
  BY DEF IInv, TypeInv, SessionTypes, Pages, RunRecords, Phases, Call
<1>3. page' = [notebook |-> page.notebook, visit |-> page.visit,
               shown |-> page.shown, running |-> i]
  BY <1>1, <1>2 DEF Pages
<1>4. /\ page' \in Pages /\ page'.notebook = page.notebook
      /\ page'.visit = page.visit /\ page'.running = i /\ page'.shown = page.shown
  BY <1>2, <1>3 DEF Pages
<1>5. /\ c.phase = "post" /\ c.notebook = page.notebook /\ c.visit = page.visit
      /\ c.got = 0
  BY DEF Call
<1>. HIDE DEF c
<1>6. PoolTypes' /\ PoolGrows
  BY <1>1, PoolStep DEF IInv, TypeInv
<1>7. LinkInv'
  <2>1. LinksKept /\ client' = client /\ http' = http /\ ~ Sent(i)
    BY <1>1 DEF gatewayVars, LinksKept, Sent
  <2>2. /\ c.notebook \in Notebooks /\ runs[i].phase # "starting"
        /\ c.phase = "post"
    BY <1>1, <1>2, <1>5 DEF Pages
  <2>. QED BY <1>1, <1>2, <1>5, <1>6, <2>1, <2>2, CallKeepsLinks DEF IInv
<1>8. SessionTypes' /\ PageInv'
  <2>1. /\ current' \in Runtimes \union {None}
        /\ client' \in [runtime : Runtimes \union {None}, link : Links \union {None}]
        /\ current' # None => phase'[current'] # "absent"
        /\ ~ strayed => page'.shown \in {None, current'}
    BY <1>1, <1>4 DEF IInv, TypeInv, SessionTypes, PageInv, CurrentOK, TogetherOK,
                      poolVars
  <2>2. c.phase \notin Over
    BY <1>5 DEF Over
  <2>. QED BY <1>1, <1>2, <1>4, <1>5, <1>6, <2>1, <2>2, CallKeepsPage DEF IInv
<1>9. QueueTypes' /\ GatewayTypes'
  BY <1>1 DEF IInv, TypeInv, QueueTypes, GatewayTypes, gatewayVars, wire
<1>. QED BY <1>6, <1>7, <1>8, <1>9 DEF IInv, TypeInv

\* The runtime createRuntime answers with.
LEMMA CreatedKeeps ==
  ASSUME PoolTypes, NEW n \in Notebooks \union {None}, NEW r \in Runtimes,
         CreateRuntime(n, r)
  PROVE  PoolTypes' /\ PoolGrows /\ OwnedNext(r, n)
<1>1. CASE Alive(r) /\ owner[r] = n /\ UNCHANGED poolVars
  <2>1. OwnedNext(r, n)
    BY <1>1 DEF Alive, poolVars, OwnedNext
  <2>. QED BY <1>1, <2>1, PoolStep
<1>2. CASE Launch(n, r)
  <2>1. OwnedNext(r, n)
    BY <1>2 DEF Launch, PoolTypes, OwnedNext
  <2>. QED BY <1>2, <2>1, PoolStep
<1>. QED BY <1>1, <1>2 DEF CreateRuntime

\* The service has a runtime for it.
LEMMA HandlePostKeeps ==
  ASSUME IInv, NEW i \in Links, HandlePost(i)
  PROVE  IInv'
<1>1. PICK r \in Runtimes, p \in Phases :
        /\ CreateRuntime(runs[i].notebook, r)
        /\ p \in {"STARTING", "READY", "FAILED"}
        /\ runs' = [runs EXCEPT ![i].phase = p, ![i].runtime = r]
  <2>1. PICK r \in Runtimes :
          /\ CreateRuntime(runs[i].notebook, r)
          /\ runs' = [runs EXCEPT ![i].phase = Answer(phase'[r]), ![i].runtime = r]
    BY DEF HandlePost
  <2>2. /\ Answer(phase'[r]) \in {"STARTING", "READY", "FAILED"}
        /\ Answer(phase'[r]) \in Phases
    BY AnswerIs DEF Phases
  <2>. QED BY <2>1, <2>2, Zenon
<1>2. /\ runs[i].phase = "post"
      /\ UNCHANGED <<gatewayVars, page, stops, current, client, strayed>>
  BY DEF HandlePost
<1>. DEFINE c == Call(p, runs[i].notebook, runs[i].visit, r, runs[i].link, runs[i].got)
<1>3. /\ runs \in [Links -> RunRecords] /\ runs[i] \in RunRecords /\ page \in Pages
      /\ c \in RunRecords
  BY DEF IInv, TypeInv, SessionTypes, Pages, RunRecords, Call
<1>4. runs' = [runs EXCEPT ![i] = c]
  <2>1. runs' = Posted(runs, i, p, r)
    BY <1>1, Zenon DEF Posted
  <2>. QED BY <1>3, <2>1, PostedIs, Zenon
<1>5. /\ c.phase = p /\ c.notebook = runs[i].notebook
      /\ c.visit = runs[i].visit /\ c.runtime = r /\ c.got = runs[i].got
  BY DEF Call
<1>. HIDE DEF c
<1>6. PoolTypes' /\ PoolGrows /\ OwnedNext(r, runs[i].notebook)
  <2>1. runs[i].notebook \in Notebooks \union {None}
    BY <1>3 DEF RunRecords
  <2>. QED BY <1>1, <2>1, CreatedKeeps DEF IInv, TypeInv
<1>8. LinkInv'
  <2>1. LinksKept /\ client' = client /\ http' = http /\ ~ Sent(i)
    BY <1>2 DEF gatewayVars, LinksKept, Sent
  <2>2. c.notebook \in Notebooks /\ c.got = 0
    BY <1>2, <1>5, <2>1 DEF IInv, LinkInv, RunsOK, RunOK, Over
  <2>3. OwnedNext(c.runtime, c.notebook)
    BY <1>5, <1>6
  <2>4. c.phase \notin {"starting", "executing", "done"} /\ runs[i].phase # "starting"
    BY <1>1, <1>2, <1>5
  <2>. QED BY <1>2, <1>3, <1>4, <1>5, <1>6, <2>1, <2>2, <2>3, <2>4, CallKeepsLinks DEF IInv
<1>9. SessionTypes' /\ PageInv'
  <2>1. /\ current' \in Runtimes \union {None}
        /\ client' \in [runtime : Runtimes \union {None}, link : Links \union {None}]
        /\ current' # None => phase'[current'] # "absent"
        /\ ~ strayed => page'.shown \in {None, current'}
    BY <1>2, <1>6 DEF IInv, TypeInv, SessionTypes, PageInv, CurrentOK, TogetherOK,
                      PoolGrows
  <2>2. page'.running = i => c.notebook = page.notebook /\ c.visit = page.visit
    BY <1>2, <1>5 DEF IInv, PageInv, RunningOK
  <2>3. c.phase \notin Over /\ runs[i].phase \notin Over
    BY <1>1, <1>2, <1>5 DEF Over
  <2>. QED BY <1>2, <1>3, <1>4, <1>5, <1>6, <2>1, <2>2, <2>3, CallKeepsPage DEF IInv
<1>10. QueueTypes' /\ GatewayTypes'
  BY <1>2 DEF IInv, TypeInv, QueueTypes, GatewayTypes, gatewayVars, wire
<1>. QED BY <1>6, <1>8, <1>9, <1>10 DEF IInv, TypeInv

\* A request that was given up is handled.
LEMMA LatePostKeeps ==
  ASSUME IInv, NEW i \in Links, LatePost(i)
  PROVE  IInv'
<1>. DEFINE c == Call("failed", runs[i].notebook, runs[i].visit, runs[i].runtime,
                      runs[i].link, runs[i].got)
<1>1. /\ runs[i].phase = "late" /\ runs' = [runs EXCEPT ![i].phase = "failed"]
      /\ UNCHANGED <<gatewayVars, page, stops, current, client, strayed>>
  BY DEF LatePost
<1>2. /\ runs \in [Links -> RunRecords] /\ runs[i] \in RunRecords /\ page \in Pages
      /\ c \in RunRecords
  BY DEF IInv, TypeInv, SessionTypes, Pages, RunRecords, Phases, Call
<1>3. runs' = [runs EXCEPT ![i] = c]
  BY <1>1, <1>2, PhaseIs
<1>4. c.phase = "failed" /\ c.got = runs[i].got
  BY DEF Call
<1>. HIDE DEF c
<1>5. PoolTypes' /\ PoolGrows
  <2>1. PICK r \in Runtimes : CreateRuntime(runs[i].notebook, r)
    BY DEF LatePost
  <2>2. runs[i].notebook \in Notebooks \union {None}
    BY <1>2 DEF RunRecords
  <2>. QED BY <2>1, <2>2, CreatedKeeps DEF IInv, TypeInv
<1>6. LinkInv'
  <2>1. LinksKept /\ client' = client /\ http' = http /\ ~ Sent(i)
    BY <1>1 DEF gatewayVars, LinksKept, Sent
  <2>2. c.got = 0
    BY <1>4, <2>1 DEF IInv, LinkInv, RunsOK, RunOK
  <2>. QED BY <1>1, <1>2, <1>3, <1>4, <1>5, <2>1, <2>2, CallKeepsLinks DEF IInv
<1>7. SessionTypes' /\ PageInv'
  <2>1. /\ current' \in Runtimes \union {None}
        /\ client' \in [runtime : Runtimes \union {None}, link : Links \union {None}]
        /\ current' # None => phase'[current'] # "absent"
        /\ ~ strayed => page'.shown \in {None, current'}
    BY <1>1, <1>5 DEF IInv, TypeInv, SessionTypes, PageInv, CurrentOK, TogetherOK,
                      PoolGrows
  <2>2. page'.running # None => page'.running = page.running /\ page'.running # i
    BY <1>1 DEF IInv, PageInv, RunningOK, Over
  <2>3. /\ c.phase \in Over /\ page' \in Pages /\ page'.notebook = page.notebook
        /\ page'.visit = page.visit /\ stops' = stops /\ strayed' = strayed
    BY <1>1, <1>2, <1>4 DEF Over
  <2>4. i # None
    OBVIOUS
  <2>. QED BY <1>2, <1>3, <1>5, <2>1, <2>2, <2>3, <2>4, CallKeepsPage DEF IInv
<1>8. QueueTypes' /\ GatewayTypes'
  BY <1>1 DEF IInv, TypeInv, QueueTypes, GatewayTypes, gatewayVars, wire
<1>. QED BY <1>5, <1>6, <1>7, <1>8 DEF IInv, TypeInv

\* A poll is answered.
LEMMA HandlePollKeeps ==
  ASSUME IInv, NEW i \in Links, HandlePoll(i)
  PROVE  IInv'
<1>. DEFINE r == runs[i].runtime
            p == Answer(phase[r])
            c == Call(p, runs[i].notebook, runs[i].visit, r, runs[i].link, runs[i].got)
<1>1. /\ runs[i].phase = "poll" /\ runs' = [runs EXCEPT ![i].phase = p]
      /\ UNCHANGED <<poolVars, gatewayVars, page, stops, current, client, strayed>>
  BY DEF HandlePoll
<1>2. p \in {"STARTING", "READY", "FAILED"}
  BY AnswerIs
<1>3. /\ runs \in [Links -> RunRecords] /\ runs[i] \in RunRecords /\ page \in Pages
      /\ c \in RunRecords
  BY <1>2 DEF IInv, TypeInv, SessionTypes, Pages, RunRecords, Phases, Call
<1>4. runs' = [runs EXCEPT ![i] = c]
  BY <1>1, <1>3, PhaseIs
<1>5. /\ c.phase = p /\ c.notebook = runs[i].notebook
      /\ c.visit = runs[i].visit /\ c.runtime = r /\ c.got = runs[i].got
  BY DEF Call
<1>6. /\ OwnedBy(r, runs[i].notebook) /\ runs[i].got = 0 /\ ~ Sent(i)
      /\ runs[i].notebook \in Notebooks
  BY <1>1 DEF IInv, LinkInv, RunsOK, RunOK, Sent
<1>. HIDE DEF c, p, r
<1>7. PoolTypes' /\ PoolGrows
  BY <1>1, PoolStep DEF IInv, TypeInv
<1>8. LinkInv'
  <2>1. LinksKept /\ client' = client /\ http' = http
    BY <1>1 DEF gatewayVars, LinksKept
  <2>2. OwnedNext(c.runtime, c.notebook)
    BY <1>1, <1>5, <1>6 DEF OwnedNext, OwnedBy, poolVars
  <2>3. c.phase \notin {"starting", "executing", "done"} /\ runs[i].phase # "starting"
    BY <1>1, <1>2, <1>5
  <2>. QED BY <1>3, <1>4, <1>5, <1>6, <1>7, <2>1, <2>2, <2>3, CallKeepsLinks DEF IInv
<1>9. SessionTypes' /\ PageInv'
  <2>1. /\ current' \in Runtimes \union {None}
        /\ client' \in [runtime : Runtimes \union {None}, link : Links \union {None}]
        /\ current' # None => phase'[current'] # "absent"
        /\ ~ strayed => page'.shown \in {None, current'}
    BY <1>1 DEF IInv, TypeInv, SessionTypes, PageInv, CurrentOK, TogetherOK, poolVars
  <2>2. runs[i].phase \notin Over /\ c.phase \notin Over
    BY <1>1, <1>2, <1>5 DEF Over
  <2>3. page'.running = i => c.notebook = page.notebook /\ c.visit = page.visit
    BY <1>1, <1>5 DEF IInv, PageInv, RunningOK
  <2>4. /\ stops' = stops /\ strayed' = strayed /\ page' \in Pages
        /\ page'.notebook = page.notebook /\ page'.visit = page.visit
        /\ page'.running # None => page'.running \in {page.running, i}
        /\ c.visit = runs[i].visit
    BY <1>1, <1>3, <1>5
  <2>. QED BY <1>3, <1>4, <1>7, <2>1, <2>2, <2>3, <2>4, CallKeepsPage DEF IInv
<1>10. QueueTypes' /\ GatewayTypes'
  BY <1>1 DEF IInv, TypeInv, QueueTypes, GatewayTypes, gatewayVars, wire
<1>. QED BY <1>7, <1>8, <1>9, <1>10 DEF IInv, TypeInv

\* The runtime is known to the manager and to the page.
LEMMA StillStartingKeeps ==
  ASSUME IInv, NEW i \in Links, StillStarting(i)
  PROVE  IInv'
<1>. DEFINE r == runs[i].runtime
            c == Call("poll", runs[i].notebook, runs[i].visit, r, runs[i].link,
                      runs[i].got)
<1>1. /\ runs[i].phase = "STARTING" /\ runs' = [runs EXCEPT ![i].phase = "poll"]
      /\ Remember(i)
      /\ UNCHANGED <<poolVars, gatewayVars, stops, client, strayed>>
  BY DEF StillStarting
<1>2. /\ runs \in [Links -> RunRecords] /\ runs[i] \in RunRecords /\ page \in Pages
      /\ c \in RunRecords
  BY DEF IInv, TypeInv, SessionTypes, Pages, RunRecords, Phases, Call
<1>3. runs' = [runs EXCEPT ![i] = c]
  BY <1>1, <1>2, PhaseIs
<1>4. /\ c.phase = "poll" /\ c.notebook = runs[i].notebook
      /\ c.visit = runs[i].visit /\ c.runtime = r /\ c.got = runs[i].got
  BY DEF Call
<1>5. /\ OwnedBy(r, runs[i].notebook) /\ runs[i].got = 0 /\ ~ Sent(i)
      /\ runs[i].notebook \in Notebooks
  BY <1>1 DEF IInv, LinkInv, RunsOK, RunOK, Sent, Over
<1>6. /\ current' = r
      /\ page' \in Pages /\ page'.notebook = page.notebook
      /\ page'.visit = page.visit /\ page'.running = page.running
      /\ page'.shown = IF Mounted(runs[i]) THEN r ELSE page.shown
  BY <1>1, <1>2, <1>5, RememberIs DEF OwnedBy
<1>. HIDE DEF c, r
<1>7. PoolTypes' /\ PoolGrows
  BY <1>1, PoolStep DEF IInv, TypeInv
<1>8. LinkInv'
  <2>1. LinksKept /\ client' = client /\ http' = http
    BY <1>1 DEF gatewayVars, LinksKept
  <2>2. OwnedNext(c.runtime, c.notebook)
    BY <1>1, <1>4, <1>5 DEF OwnedNext, OwnedBy, poolVars
  <2>3. c.phase \notin {"starting", "executing", "done"} /\ runs[i].phase # "starting"
    BY <1>1, <1>4
  <2>. QED BY <1>2, <1>3, <1>4, <1>5, <1>7, <2>1, <2>2, <2>3, CallKeepsLinks DEF IInv
<1>9. SessionTypes' /\ PageInv'
  <2>1. /\ current' \in Runtimes \union {None}
        /\ client' \in [runtime : Runtimes \union {None}, link : Links \union {None}]
        /\ current' # None => phase'[current'] # "absent"
    BY <1>1, <1>5, <1>6 DEF IInv, TypeInv, SessionTypes, OwnedBy, poolVars
  <2>2. runs[i].phase \notin Over /\ c.phase \notin Over
    BY <1>1, <1>4 DEF Over
  <2>3. ~ strayed => page'.shown \in {None, current'}
    BY <1>6, <2>2 DEF IInv, PageInv, TogetherOK
  <2>4. page'.running = i => c.notebook = page.notebook /\ c.visit = page.visit
    BY <1>4, <1>6 DEF IInv, PageInv, RunningOK
  <2>5. /\ stops' = stops /\ strayed' = strayed /\ page' \in Pages
        /\ page'.notebook = page.notebook /\ page'.visit = page.visit
        /\ page'.running # None => page'.running \in {page.running, i}
        /\ c.visit = runs[i].visit
    BY <1>1, <1>4, <1>6
  <2>. QED BY <1>2, <1>3, <1>7, <2>1, <2>2, <2>3, <2>4, <2>5, CallKeepsPage DEF IInv
<1>10. QueueTypes' /\ GatewayTypes'
  BY <1>1 DEF IInv, TypeInv, QueueTypes, GatewayTypes, gatewayVars, wire
<1>. QED BY <1>7, <1>8, <1>9, <1>10 DEF IInv, TypeInv

\* The call fails before its code is sent.
LEMMA CallFailsKeeps ==
  ASSUME IInv, NEW i \in Links, EnsureReadyFails(i) \/ PollEnds(i) \/ KernelFails(i)
  PROVE  IInv'
<1>. DEFINE p == IF runs[i].phase = "post" THEN "late" ELSE "failed"
            c == Call(p, runs[i].notebook, 0, None, None, 0)
<1>1. /\ runs[i].phase \in {"post", "poll", "STARTING", "READY", "FAILED", "starting"}
      /\ runs' = [runs EXCEPT ![i] = EndedRun(i, p)]
      /\ UNCHANGED poolVars /\ UNCHANGED <<stops, client, strayed>> /\ LinksKept
      /\ \/ runs[i].phase # "starting" /\ http' = http
         \/ runs[i].phase = "starting" /\ http' = [http EXCEPT ![i] = "none"]
      /\ \/ page' = PageAfter(i) /\ current' = current
         \/ /\ runs[i].phase = "FAILED" /\ current' = runs[i].runtime
            /\ page' = IF Mounted(runs[i])
                       THEN [page EXCEPT !.shown = runs[i].runtime, !.running = None]
                       ELSE page
  <2>1. CASE EnsureReadyFails(i)
    BY <2>1 DEF EnsureReadyFails, Answers, Fail, gatewayVars, LinksKept
  <2>2. CASE PollEnds(i)
    BY <2>2 DEF PollEnds, gatewayVars, LinksKept
  <2>3. CASE KernelFails(i)
    BY <2>3 DEF KernelFails, Fail, LinksKept
  <2>. QED BY <2>1, <2>2, <2>3
<1>2. /\ runs \in [Links -> RunRecords] /\ runs[i] \in RunRecords /\ page \in Pages
      /\ c \in RunRecords
  BY DEF IInv, TypeInv, SessionTypes, Pages, RunRecords, Phases, Call
<1>3. runs' = [runs EXCEPT ![i] = c]
  <2>1. p \in {"done", "failed", "late"} /\ p # "done"
    OBVIOUS
  <2>. HIDE DEF p
  <2>. QED BY <1>1, <2>1, EndedIs
<1>4. /\ c.phase = p /\ c.got = 0 /\ c.notebook = runs[i].notebook
      /\ p \in {"failed", "late"} /\ (runs[i].phase = "starting" => p = "failed")
  BY DEF Call
<1>. HIDE DEF c, p
<1>5. PoolTypes' /\ PoolGrows
  BY <1>1, PoolStep DEF IInv, TypeInv
<1>6. LinkInv'
  <2>1. ~ Sent(i)
    BY <1>1 DEF Sent
  <2>2. c.notebook \in Notebooks
    BY <1>1, <1>4 DEF IInv, LinkInv, RunsOK, RunOK
  <2>. QED BY <1>1, <1>2, <1>3, <1>4, <1>5, <2>1, <2>2, CallKeepsLinks DEF IInv
<1>7. /\ page' \in Pages /\ page'.notebook = page.notebook
      /\ page'.visit = page.visit
      /\ page'.running = IF Mounted(runs[i]) THEN None ELSE page.running
      /\ current' \in Runtimes \union {None}
      /\ current' # None => phase'[current'] # "absent"
      /\ ~ strayed => page'.shown \in {None, current'}
  <2>1. CASE page' = PageAfter(i) /\ current' = current
    BY <1>1, <1>2, <2>1, PagesAre
       DEF IInv, TypeInv, SessionTypes, PageInv, CurrentOK, TogetherOK, poolVars
  <2>2. CASE /\ runs[i].phase = "FAILED" /\ current' = runs[i].runtime
             /\ page' = IF Mounted(runs[i])
                        THEN [page EXCEPT !.shown = runs[i].runtime, !.running = None]
                        ELSE page
    <3>1. OwnedBy(runs[i].runtime, runs[i].notebook) /\ runs[i].phase \notin Over
      BY <2>2 DEF IInv, LinkInv, RunsOK, RunOK, Over
    <3>2. /\ runs[i].runtime \in Runtimes /\ phase'[runs[i].runtime] # "absent"
      BY <1>1, <3>1 DEF OwnedBy, poolVars
    <3>3. CASE Mounted(runs[i])
      <4>1. page' = [notebook |-> page.notebook, visit |-> page.visit,
                     shown |-> runs[i].runtime, running |-> None]
        BY <1>2, <2>2, <3>2, <3>3, PageFields
      <4>. QED BY <1>2, <2>2, <3>2, <3>3, <4>1 DEF Pages
    <3>4. CASE ~ Mounted(runs[i])
      BY <1>2, <2>2, <3>1, <3>2, <3>4 DEF IInv, PageInv, TogetherOK
    <3>. QED BY <3>3, <3>4
  <2>. QED BY <1>1, <2>1, <2>2
<1>8. SessionTypes' /\ PageInv'
  <2>1. page'.running # i
    BY <1>7 DEF IInv, PageInv, RunningOK, Mounted
  <2>2. client' \in [runtime : Runtimes \union {None}, link : Links \union {None}]
    BY <1>1 DEF IInv, TypeInv, SessionTypes
  <2>3. c.phase \in Over
    BY <1>4 DEF Over
  <2>. QED BY <1>1, <1>2, <1>3, <1>5, <1>7, <2>1, <2>2, <2>3, CallKeepsPage DEF IInv
<1>9. QueueTypes' /\ GatewayTypes'
  BY <1>1 DEF IInv, TypeInv, QueueTypes, GatewayTypes, LinksKept, wire
<1>. QED BY <1>5, <1>6, <1>8, <1>9 DEF IInv, TypeInv

-----------------------------------------------------------------------------
(* A call gets its kernel, and its code is sent. *)

\* What has not been sent is not on a link.
LEMMA Unsent ==
  ASSUME NEW i \in Links, NEW l \in Links, PairOK(l, i), ~ Sent(i)
  PROVE  /\ ~ In(up[l], i) /\ ~ In(inbox[l], i)
         /\ \A m \in Messages : In(outbox[l], m) \/ In(down[l], m) => m.run # i
<1>1. ~ Waits(l, i) /\ ~ Told(l, i) /\ ~ Reported(l, i)
  BY DEF PairOK
<1>2. ASSUME NEW m \in Messages, m.run = i
      PROVE  ~ In(outbox[l], m) /\ ~ In(down[l], m)
  <2>1. m = Message(i, "output") \/ m = Message(i, "done")
    BY <1>2, MessageIs DEF Messages
  <2>. QED BY <1>1, <2>1 DEF Told, Reported
<1>. QED BY <1>1, <1>2 DEF Waits

\* The links when run i is sent on link l, or would be if it were connected.
LEMMA SendKeeps ==
  ASSUME TypeInv, LinkInv, PoolGrows, NEW i \in Links, NEW l \in Links,
         NEW c \in RunRecords, runs' = [runs EXCEPT ![i] = c],
         runs[i].phase \in {"READY", "starting"},
         c.phase = "executing", c.link = l, c.notebook = runs[i].notebook,
         c.runtime = runs[i].runtime, c.got = runs[i].got,
         target' = target, target[l] = runs[i].runtime,
         browserEnd'[l] # "none",
         \A k \in Links : k # l => browserEnd'[k] = browserEnd[k],
         browserEnd'[l] = "open" => browserEnd[l] # "closed",
         \/ up' = [up EXCEPT ![l] = Append(up[l], i)] /\ browserEnd'[l] = "open"
         \/ up' = up,
         inbox' = inbox, outbox' = outbox, down' = down
  PROVE  RunsOK' /\ FlowsOK' /\ PairsOK' /\ QueueTypes'
<1>1. /\ runs \in [Links -> RunRecords] /\ runs'[i] = c
      /\ \A j \in Links : j # i => runs'[j] = runs[j]
      /\ up[l] \in Seq(Links) /\ inbox[l] \in Seq(Links)
      /\ outbox[l] \in Seq(Messages) /\ down[l] \in Seq(Messages)
      /\ up \in [Links -> Seq(Links)]
  BY DEF TypeInv, SessionTypes, QueueTypes
<1>2. ~ Sent(i) /\ Sent(i)' /\ RunOK(i) /\ LinkOK(l)
  BY <1>1 DEF Sent, LinkInv, RunsOK, LinksOK
<1>3. /\ OwnedBy(runs[i].runtime, runs[i].notebook) /\ runs[i].got = 0
      /\ runs[i].notebook \in Notebooks
  BY <1>2 DEF RunOK, Over
<1>4. /\ ~ In(up[l], i) /\ ~ In(inbox[l], i)
      /\ \A m \in Messages : In(outbox[l], m) \/ In(down[l], m) => m.run # i
  BY <1>2, Unsent DEF LinkInv, PairsOK
<1>5. /\ \A k \in Links : k # l => up'[k] = up[k]
      /\ \/ up'[l] = Append(up[l], i) /\ browserEnd'[l] = "open"
         \/ up'[l] = up[l]
      /\ \A k \in Links : up'[k] \in Seq(Links)
      /\ up' \in [Links -> Seq(Links)]
  <2>1. Append(up[l], i) \in Seq(Links)
    BY <1>1
  <2>2. CASE up' = [up EXCEPT ![l] = Append(up[l], i)] /\ browserEnd'[l] = "open"
    <3>. DEFINE a == Append(up[l], i)
    <3>1. a \in Seq(Links) /\ up' = [up EXCEPT ![l] = a]
      BY <2>1, <2>2
    <3>. HIDE DEF a
    <3>2. /\ up' \in [Links -> Seq(Links)] /\ up'[l] = a
          /\ \A k \in Links : k # l => up'[k] = up[k]
      BY <1>1, <3>1
    <3>. QED BY <2>2, <3>2 DEF a
  <2>3. CASE up' = up
    BY <1>1, <2>3
  <2>. QED BY <2>2, <2>3
<1>a. \A y : In(Append(up[l], i), y) <=> In(up[l], y) \/ y = i
  BY <1>1, AppendOf
<1>6. \A y : In(up'[l], y) => In(up[l], y) \/ y = i
  BY <1>5, <1>a
<1>7. \A y : In(up[l], y) => In(up'[l], y)
  BY <1>5, <1>a
<1>8. RunsOK'
  <2>. SUFFICES ASSUME NEW j \in Links
                PROVE  RunOK(j)'
    BY DEF RunsOK
  <2>1. OwnedBy(runs[j].runtime, runs[j].notebook)
        => OwnedBy(runs[j].runtime, runs[j].notebook)'
    <3>1. /\ runs'[j].runtime = runs[j].runtime
          /\ runs'[j].notebook = runs[j].notebook
      BY <1>1
    <3>2. OwnedBy(runs[j].runtime, runs[j].notebook) =>
            /\ runs[j].runtime \in Runtimes /\ phase'[runs[j].runtime] # "absent"
            /\ owner'[runs[j].runtime] = runs[j].notebook
      BY DEF OwnedBy, PoolGrows
    <3>. QED BY <3>1, <3>2 DEF OwnedBy
  <2>2. CASE j = i
    BY <1>1, <1>2, <1>3, <2>1, <2>2 DEF RunOK
  <2>3. CASE j # i
    <3>1. RunOK(j) /\ runs'[j] = runs[j] /\ (Sent(j)' <=> Sent(j))
      BY <1>1, <2>3 DEF LinkInv, RunsOK, Sent
    <3>2. \A k \in Links : browserEnd[k] # "none" => browserEnd'[k] # "none"
      OBVIOUS
    <3>. QED BY <2>1, <3>1, <3>2 DEF RunOK
  <2>. QED BY <2>2, <2>3
<1>9. FlowsOK'
  <2>. SUFFICES ASSUME NEW k \in Links
                PROVE  Flow(up'[k], inbox'[k], outbox'[k], down'[k])
    BY DEF FlowsOK
  <2>1. Flow(up[k], inbox[k], outbox[k], down[k])
    BY DEF LinkInv, FlowsOK
  <2>2. CASE up'[k] = up[k]
    BY <2>1, <2>2
  <2>3. CASE k = l /\ up'[l] = Append(up[l], i)
    BY <1>1, <1>4, <2>1, <2>3, FlowSend
  <2>. QED BY <1>5, <2>2, <2>3
<1>10. PairsOK'
  <2>. SUFFICES ASSUME NEW k \in Links, NEW j \in Links
                PROVE  PairOK(k, j)'
    BY DEF PairsOK
  <2>1. PairOK(k, j)
    BY DEF LinkInv, PairsOK
  <2>2. CASE k # l /\ j # i
    BY <1>1, <1>5, <2>1, <2>2, PairKept DEF SameQueues
  <2>3. CASE k # l /\ j = i
    BY <1>2, <1>5, <2>1, <2>3, PairSilent
  <2>4. CASE k = l /\ j # i
    <3>1. /\ Waits(l, j)' <=> Waits(l, j)
          /\ Told(l, j)' <=> Told(l, j)
          /\ Reported(l, j)' <=> Reported(l, j)
          /\ Sent(j)' <=> Sent(j)
          /\ Executing(j, l)' <=> Executing(j, l)
          /\ In(up'[l], j) <=> In(up[l], j)
      BY <1>1, <1>6, <1>7, <2>4 DEF Waits, Told, Reported, Sent, Executing
    <3>2. browserEnd'[l] = "open" /\ browserEnd[l] # "open" =>
            ~ Waits(l, j) /\ ~ Told(l, j)
      <4>1. browserEnd'[l] = "open" /\ browserEnd[l] # "open" => browserEnd[l] = "none"
        BY DEF TypeInv, GatewayTypes
      <4>. QED BY <1>2, <4>1, EmptyOf DEF LinkOK, Waits, Told
    <3>3. OwnedBy(target[l], runs[j].notebook)
          => OwnedBy(target[l], runs[j].notebook)'
      BY <1>1, <2>4 DEF OwnedBy, PoolGrows
    <3>4. Progress(j, runs[j].got, up[l], inbox[l], outbox[l], down[l])
          => Progress(j, runs'[j].got, up'[l], inbox'[l], outbox'[l], down'[l])
      BY <1>1, <2>4, <3>1 DEF Progress
    <3>. QED BY <2>1, <2>4, <3>1, <3>2, <3>3, <3>4 DEF PairOK
  <2>5. CASE k = l /\ j = i
    <3>1. ~ Told(l, i)' /\ ~ Reported(l, i)'
      BY <1>2, <2>1, <2>5 DEF PairOK, Told, Reported
    <3>2. Executing(i, l)'
      BY <1>1 DEF Executing
    <3>3. OwnedBy(target[l], runs[i].notebook)'
      <4>1. /\ target'[l] = runs[i].runtime
            /\ runs'[i].notebook = runs[i].notebook
        BY <1>1
      <4>2. /\ runs[i].runtime \in Runtimes /\ phase'[runs[i].runtime] # "absent"
            /\ owner'[runs[i].runtime] = runs[i].notebook
        BY <1>3 DEF OwnedBy, PoolGrows
      <4>. QED BY <4>1, <4>2 DEF OwnedBy
    <3>4. Progress(i, runs'[i].got, up'[l], inbox'[l], outbox'[l], down'[l])
      BY <1>1, <1>3, <3>1 DEF Progress, Told, Reported
    <3>. QED BY <1>2, <2>5, <3>1, <3>2, <3>3, <3>4 DEF PairOK
  <2>. QED BY <2>2, <2>3, <2>4, <2>5
<1>. QED BY <1>5, <1>8, <1>9, <1>10 DEF TypeInv, QueueTypes

\* The kernel that is there is used.
LEMMA ReuseKernelKeeps ==
  ASSUME IInv, NEW i \in Links, ReuseKernel(i)
  PROVE  IInv'
<1>. DEFINE l == client.link
            r == runs[i].runtime
            c == Call("executing", runs[i].notebook, runs[i].visit, r, l, runs[i].got)
<1>1. /\ runs[i].phase = "READY" /\ client.link # None /\ client.runtime = r
      /\ Remember(i)
      /\ runs' = [runs EXCEPT ![i].phase = "executing", ![i].link = l]
      /\ up' = IF browserEnd[l] = "open" THEN [up EXCEPT ![l] = Append(@, i)] ELSE up
      /\ UNCHANGED <<poolVars, target, http, bridge, tasks, browserEnd, upstreamEnd,
                     inbox, outbox, down, stops, client, strayed>>
  BY DEF ReuseKernel, Reusable
<1>2. /\ runs \in [Links -> RunRecords] /\ runs[i] \in RunRecords /\ page \in Pages
      /\ l \in Links
  BY <1>1 DEF IInv, TypeInv, SessionTypes, Pages
<1>3. c \in RunRecords
  BY <1>2 DEF RunRecords, Phases, Call
<1>4. runs' = [runs EXCEPT ![i] = c]
  BY <1>1, <1>2, ExecutingIs
<1>5. /\ c.phase = "executing" /\ c.link = l /\ c.notebook = runs[i].notebook
      /\ c.visit = runs[i].visit /\ c.runtime = r /\ c.got = runs[i].got
  BY DEF Call
<1>6. target[l] = r /\ browserEnd[l] # "none"
  BY <1>1 DEF IInv, LinkInv, ClientOK
<1>7. OwnedBy(r, runs[i].notebook) /\ runs[i].phase \notin Over
  BY <1>1 DEF IInv, LinkInv, RunsOK, RunOK, Over
<1>8. /\ current' = r
      /\ page' \in Pages /\ page'.notebook = page.notebook
      /\ page'.visit = page.visit /\ page'.running = page.running
      /\ page'.shown = IF Mounted(runs[i]) THEN r ELSE page.shown
  BY <1>1, <1>2, <1>7, RememberIs DEF OwnedBy
<1>9. \/ up' = [up EXCEPT ![l] = Append(up[l], i)] /\ browserEnd'[l] = "open"
      \/ up' = up
  BY <1>1
<1>. HIDE DEF l, r, c
<1>10. PoolTypes' /\ PoolGrows
  BY <1>1, PoolStep DEF IInv, TypeInv
<1>11. RunsOK' /\ FlowsOK' /\ PairsOK' /\ QueueTypes'
  <2>1. /\ target' = target /\ browserEnd' = browserEnd /\ inbox' = inbox
        /\ outbox' = outbox /\ down' = down
        /\ runs[i].phase \in {"READY", "starting"}
        /\ browserEnd'[l] # "none"
        /\ browserEnd'[l] = "open" => browserEnd[l] # "closed"
        /\ \A k \in Links : k # l => browserEnd'[k] = browserEnd[k]
    BY <1>1, <1>6
  <2>2. c.runtime = runs[i].runtime /\ target[l] = runs[i].runtime
    BY <1>5, <1>6 DEF r
  <2>. QED BY <1>2, <1>3, <1>4, <1>5, <1>9, <1>10, <2>1, <2>2, SendKeeps DEF IInv
<1>12. LinksOK'
  <2>. SUFFICES ASSUME NEW k \in Links
                PROVE  LinkOK(k)'
    BY DEF LinksOK
  <2>1. LinkOK(k)
    BY DEF IInv, LinkInv, LinksOK
  <2>2. \/ runs'[k].phase = runs[k].phase
        \/ k = i /\ runs[k].phase = "READY" /\ runs'[k].phase = "executing"
    BY <1>1, <1>2, <1>3, <1>4, <1>5
  <2>3. browserEnd[k] = "none" => up'[k] = up[k]
    BY <1>1, <1>2, <1>6 DEF IInv, TypeInv, QueueTypes, l
  <2>. QED BY <1>1, <2>1, <2>2, <2>3 DEF LinkOK, Sent
<1>13. ClientOK'
  BY <1>1 DEF IInv, LinkInv, ClientOK
<1>14. SessionTypes' /\ PageInv'
  <2>1. /\ current' \in Runtimes \union {None}
        /\ client' \in [runtime : Runtimes \union {None}, link : Links \union {None}]
        /\ current' # None => phase'[current'] # "absent"
    BY <1>1, <1>7, <1>8 DEF IInv, TypeInv, SessionTypes, OwnedBy, poolVars
  <2>2. runs[i].phase \notin Over /\ c.phase \notin Over
    BY <1>5, <1>7 DEF Over
  <2>3. ~ strayed => page'.shown \in {None, current'}
    BY <1>8, <2>2 DEF IInv, PageInv, TogetherOK
  <2>4. page'.running = i => c.notebook = page.notebook /\ c.visit = page.visit
    BY <1>5, <1>8 DEF IInv, PageInv, RunningOK
  <2>5. /\ stops' = stops /\ strayed' = strayed /\ page' \in Pages
        /\ page'.notebook = page.notebook /\ page'.visit = page.visit
        /\ page'.running # None => page'.running \in {page.running, i}
        /\ c.visit = runs[i].visit
    BY <1>1, <1>5, <1>8
  <2>. QED BY <1>3, <1>4, <1>10, <2>1, <2>2, <2>3, <2>4, <2>5, CallKeepsPage DEF IInv
<1>15. GatewayTypes'
  BY <1>1 DEF IInv, TypeInv, GatewayTypes
<1>. QED BY <1>10, <1>11, <1>12, <1>13, <1>14, <1>15 DEF IInv, TypeInv, LinkInv

\* The new kernel is the client's, and the code is sent on its link.
LEMMA KernelStartedKeeps ==
  ASSUME IInv, NEW i \in Links, KernelStarted(i)
  PROVE  IInv'
<1>. DEFINE r == runs[i].runtime
            c == Call("executing", runs[i].notebook, runs[i].visit, r, i, runs[i].got)
<1>1. /\ runs[i].phase = "starting"
      /\ client' = [runtime |-> r, link |-> i]
      /\ runs' = [runs EXCEPT ![i].phase = "executing", ![i].link = i]
      /\ bridge' = [bridge EXCEPT ![i] = "lookup"]
      /\ browserEnd' = [browserEnd EXCEPT ![i] = "open"]
      /\ up' = [up EXCEPT ![i] = <<i>>]
      /\ http' = [http EXCEPT ![i] = "none"]
      /\ UNCHANGED <<poolVars, target, tasks, upstreamEnd, inbox, outbox, down, page,
                     stops, current, strayed>>
  BY DEF KernelStarted
<1>2. /\ runs \in [Links -> RunRecords] /\ runs[i] \in RunRecords /\ page \in Pages
      /\ browserEnd \in [Links -> {"none", "open", "closed"}]
      /\ bridge \in [Links -> {"none", "lookup", "connect", "open", "closing", "closed"}]
      /\ http \in [Links -> {"none", "lookup", "forward", "ok", "error"}]
  BY DEF IInv, TypeInv, SessionTypes, GatewayTypes, Pages
<1>3. c \in RunRecords
  BY <1>2 DEF RunRecords, Phases, Call
<1>4. runs' = [runs EXCEPT ![i] = c]
  BY <1>1, <1>2, ExecutingIs
<1>5. /\ c.phase = "executing" /\ c.link = i /\ c.notebook = runs[i].notebook
      /\ c.visit = runs[i].visit /\ c.runtime = r /\ c.got = runs[i].got
  BY DEF Call
<1>6. /\ target[i] = r /\ browserEnd[i] = "none" /\ bridge[i] = "none"
      /\ tasks[i] = {} /\ up[i] = <<>>
      /\ inbox[i] = <<>> /\ outbox[i] = <<>> /\ down[i] = <<>>
  BY <1>1 DEF IInv, LinkInv, RunsOK, RunOK, LinksOK, LinkOK, Sent
<1>7. OwnedBy(r, runs[i].notebook) /\ runs[i].phase \notin Over
  BY <1>1 DEF IInv, LinkInv, RunsOK, RunOK, Over
<1>8. /\ browserEnd'[i] = "open" /\ bridge'[i] = "lookup" /\ http'[i] = "none"
      /\ \A k \in Links : k # i => /\ browserEnd'[k] = browserEnd[k]
                                   /\ bridge'[k] = bridge[k] /\ http'[k] = http[k]
  BY <1>1, <1>2
<1>9. up' = [up EXCEPT ![i] = Append(up[i], i)]
  <2>1. Append(up[i], i) = <<i>>
    BY <1>6
  <2>. QED BY <1>1, <2>1
<1>. HIDE DEF r, c
<1>10. PoolTypes' /\ PoolGrows
  BY <1>1, PoolStep DEF IInv, TypeInv
<1>11. RunsOK' /\ FlowsOK' /\ PairsOK' /\ QueueTypes'
  <2>1. /\ target' = target /\ inbox' = inbox /\ outbox' = outbox /\ down' = down
        /\ runs[i].phase \in {"READY", "starting"}
        /\ browserEnd'[i] # "none"
        /\ browserEnd'[i] = "open" => browserEnd[i] # "closed"
    BY <1>1, <1>6, <1>8
  <2>. QED BY <1>3, <1>4, <1>5, <1>6, <1>8, <1>9, <1>10, <2>1, SendKeeps
           DEF IInv, r
<1>12. LinksOK'
  <2>. SUFFICES ASSUME NEW k \in Links
                PROVE  LinkOK(k)'
    BY DEF LinksOK
  <2>1. LinkOK(k)
    BY DEF IInv, LinkInv, LinksOK
  <2>2. CASE k = i
    <3>1. runs'[i].phase = "executing" /\ tasks'[i] = {}
      BY <1>1, <1>2, <1>3, <1>4, <1>5, <1>6
    <3>. QED BY <1>8, <2>2, <3>1 DEF LinkOK, Sent
  <2>3. CASE k # i
    <3>1. runs'[k] = runs[k] /\ up'[k] = up[k]
      BY <1>1, <1>2, <1>3, <1>4, <2>3 DEF IInv, TypeInv, QueueTypes
    <3>. QED BY <1>1, <1>8, <2>1, <2>3, <3>1 DEF LinkOK, Sent
  <2>. QED BY <2>2, <2>3
<1>13. ClientOK'
  <2>1. client'.link = i /\ client'.runtime = r
    BY <1>1
  <2>. QED BY <1>1, <1>6, <1>8, <2>1 DEF ClientOK
<1>14. SessionTypes' /\ PageInv'
  <2>1. client' \in [runtime : Runtimes \union {None}, link : Links \union {None}]
    BY <1>1, <1>7 DEF OwnedBy
  <2>2. runs[i].phase \notin Over /\ c.phase \notin Over
    BY <1>5, <1>7 DEF Over
  <2>3. /\ current' \in Runtimes \union {None}
        /\ current' # None => phase'[current'] # "absent"
        /\ ~ strayed => page'.shown \in {None, current'}
    BY <1>1 DEF IInv, TypeInv, SessionTypes, PageInv, CurrentOK, TogetherOK, poolVars
  <2>4. page'.running = i => c.notebook = page.notebook /\ c.visit = page.visit
    BY <1>1, <1>5 DEF IInv, PageInv, RunningOK
  <2>5. /\ stops' = stops /\ strayed' = strayed /\ page' \in Pages
        /\ page'.notebook = page.notebook /\ page'.visit = page.visit
        /\ page'.running # None => page'.running \in {page.running, i}
        /\ c.visit = runs[i].visit
    BY <1>1, <1>2, <1>5
  <2>. QED BY <1>3, <1>4, <1>10, <2>1, <2>2, <2>3, <2>4, <2>5, CallKeepsPage DEF IInv
<1>15. GatewayTypes'
  <2>1. /\ browserEnd' \in [Links -> {"none", "open", "closed"}]
        /\ bridge' \in [Links -> {"none", "lookup", "connect", "open", "closing", "closed"}]
        /\ http' \in [Links -> {"none", "lookup", "forward", "ok", "error"}]
    BY <1>1, <1>2
  <2>. QED BY <1>1, <2>1 DEF IInv, TypeInv, GatewayTypes
<1>. QED BY <1>10, <1>11, <1>12, <1>13, <1>14, <1>15 DEF IInv, TypeInv, LinkInv

-----------------------------------------------------------------------------
(* Results. *)

\* A run that executes on another link, before and after.
LEMMA PairElsewhere ==
  ASSUME PoolGrows, NEW l \in Links, NEW i \in Links, PairOK(l, i),
         up'[l] = up[l] /\ inbox'[l] = inbox[l] /\ outbox'[l] = outbox[l],
         down'[l] = down[l],
         browserEnd'[l] = "open" => browserEnd[l] = "open",
         target'[l] = target[l],
         ~ Executing(i, l), ~ Executing(i, l)',
         Sent(i)', runs'[i].notebook = runs[i].notebook
  PROVE  PairOK(l, i)'
<1>1. /\ Waits(l, i)' <=> Waits(l, i)
      /\ Told(l, i)' <=> Told(l, i)
      /\ Reported(l, i)' <=> Reported(l, i)
  BY DEF Waits, Told, Reported
<1>2. OwnedBy(target[l], runs[i].notebook)
      => OwnedBy(target[l], runs[i].notebook)'
  BY DEF OwnedBy, PoolGrows
<1>. QED BY <1>1, <1>2 DEF PairOK

\* The links when c is what run i, which executes on link l, becomes by the
\* message that comes first there.
LEMMA ReceivedKeeps ==
  ASSUME TypeInv, LinkInv, NEW i \in Links, NEW l \in Links, down[l] # <<>>,
         Head(down[l]).run = i,
         NEW c \in RunRecords, runs' = [runs EXCEPT ![i] = c],
         c.notebook = runs[i].notebook,
         \/ /\ Head(down[l]).type = "output" /\ c.phase = "executing"
            /\ c.link = runs[i].link /\ c.runtime = runs[i].runtime
            /\ c.got = runs[i].got + 1
         \/ /\ Head(down[l]).type = "done" /\ c.phase = "done"
            /\ c.got = runs[i].got,
         down' = [down EXCEPT ![l] = Tail(@)],
         UNCHANGED <<poolVars, target, http, bridge, tasks, browserEnd, upstreamEnd,
                     up, inbox, outbox, client>>
  PROVE  LinkInv' /\ QueueTypes'
<1>. DEFINE m == Head(down[l])
<1>1. /\ runs \in [Links -> RunRecords] /\ runs'[i] = c
      /\ \A j \in Links : j # i => runs'[j] = runs[j]
      /\ up[l] \in Seq(Links) /\ inbox[l] \in Seq(Links)
      /\ outbox[l] \in Seq(Messages) /\ down[l] \in Seq(Messages)
      /\ down \in [Links -> Seq(Messages)]
  BY DEF TypeInv, SessionTypes, QueueTypes
<1>2. Flow(up[l], inbox[l], outbox[l], down[l]) /\ PairOK(l, i) /\ RunOK(i)
  BY DEF LinkInv, FlowsOK, PairsOK, RunsOK
<1>3. /\ m \in Messages /\ In(down[l], m)
      /\ Flow(up[l], inbox[l], outbox[l], Tail(down[l]))
      /\ \A x : In(down[l], x) <=> In(Tail(down[l]), x) \/ x = m
      /\ ~ In(Tail(down[l]), m) /\ ~ In(outbox[l], m)
      /\ ~ In(up[l], i) /\ ~ In(inbox[l], i)
      /\ m = Message(i, "done") =>
           ~ In(down[l], Message(i, "output")) /\ ~ In(outbox[l], Message(i, "output"))
  <2>1. /\ m \in Messages /\ In(down[l], m)
        /\ Flow(up[l], inbox[l], outbox[l], Tail(down[l]))
        /\ \A x : In(down[l], x) <=> In(Tail(down[l]), x) \/ x = m
        /\ ~ In(Tail(down[l]), m) /\ ~ In(outbox[l], m)
        /\ ~ In(up[l], m.run) /\ ~ In(inbox[l], m.run)
        /\ \A k \in Links : m = Message(k, "done") =>
             ~ In(down[l], Message(k, "output")) /\ ~ In(outbox[l], Message(k, "output"))
    BY <1>1, <1>2, FlowReceive
  <2>. QED BY <2>1
<1>4. /\ \/ m.type = "output" /\ m = Message(i, "output")
         \/ m.type = "done" /\ m = Message(i, "done")
      /\ Message(i, "output") # Message(i, "done")
  <2>1. m.type \in {"output", "done"} /\ m.run = i
    BY <1>3 DEF Messages
  <2>2. /\ Message(i, "output") # Message(i, "done")
        /\ \A x \in Messages :
             /\ x.run = i /\ x.type = "output" <=> x = Message(i, "output")
             /\ x.run = i /\ x.type = "done" <=> x = Message(i, "done")
    BY MessageIs
  <2>3. m \in Messages
    BY <1>3
  <2>. HIDE DEF m
  <2>. QED BY <2>1, <2>2, <2>3
<1>5. Executing(i, l) /\ Progress(i, runs[i].got, up[l], inbox[l], outbox[l], down[l])
  <2>1. Reported(l, i)
    BY <1>3, <1>4 DEF Reported
  <2>. QED BY <1>2, <2>1 DEF PairOK
<1>6. /\ down'[l] = Tail(down[l]) /\ Tail(down[l]) \in Seq(Messages)
      /\ \A k \in Links : k # l => down'[k] = down[k]
      /\ down' \in [Links -> Seq(Messages)]
  <2>1. Tail(down[l]) \in Seq(Messages)
    BY <1>1
  <2>. QED BY <1>1, <2>1
<1>7. Sent(i)' /\ Sent(i) /\ runs[i].link = l
  BY <1>1, <1>5 DEF Sent, Executing
<1>8. PoolGrows
  BY DEF PoolGrows, poolVars
<1>9. \/ m.type = "output" /\ runs[i].got = 0 /\ c.got = 1
      \/ m.type = "done" /\ runs[i].got = 1 /\ c.got = 1
  <2>1. CASE m = Message(i, "output")
    BY <1>3, <1>4, <1>5, <2>1 DEF Progress
  <2>2. CASE m = Message(i, "done")
    BY <1>3, <1>4, <1>5, <2>2 DEF Progress
  <2>. QED BY <1>4, <2>1, <2>2
<1>10. LinksOK'
  <2>. SUFFICES ASSUME NEW k \in Links
                PROVE  LinkOK(k)'
    BY DEF LinksOK
  <2>1. LinkOK(k) /\ LinkOK(l)
    BY DEF LinkInv, LinksOK
  <2>2. k = i => runs'[k].phase \in {"executing", "done"} /\ runs[k].phase = "executing"
    BY <1>1, <1>5 DEF Executing
  <2>3. k # i => runs'[k] = runs[k]
    BY <1>1
  <2>4. browserEnd[k] = "none" => down'[k] = down[k]
    BY <1>6, <2>1 DEF LinkOK
  <2>. QED BY <2>1, <2>2, <2>3, <2>4 DEF LinkOK, Sent
<1>11. RunsOK'
  <2>. SUFFICES ASSUME NEW j \in Links
                PROVE  RunOK(j)'
    BY DEF RunsOK
  <2>1. CASE j # i
    <3>1. RunOK(j) /\ runs'[j] = runs[j]
      BY <1>1, <2>1 DEF LinkInv, RunsOK
    <3>. QED BY <3>1 DEF RunOK, OwnedBy, Sent, poolVars
  <2>2. CASE j = i
    <3>1. CASE m.type = "output"
      BY <1>1, <1>2, <1>4, <1>5, <1>7, <2>2, <3>1
         DEF RunOK, OwnedBy, Executing, poolVars, Over
    <3>2. CASE m.type = "done"
      BY <1>1, <1>7, <1>9, <2>2, <3>2 DEF RunOK, Over
    <3>. QED BY <1>4, <3>1, <3>2
  <2>. QED BY <2>1, <2>2
<1>12. ClientOK'
  BY DEF LinkInv, ClientOK
<1>13. FlowsOK'
  <2>. SUFFICES ASSUME NEW k \in Links
                PROVE  Flow(up'[k], inbox'[k], outbox'[k], down'[k])
    BY DEF FlowsOK
  <2>. QED BY <1>3, <1>6 DEF LinkInv, FlowsOK
<1>14. PairsOK'
  <2>. SUFFICES ASSUME NEW k \in Links, NEW j \in Links
                PROVE  PairOK(k, j)'
    BY DEF PairsOK
  <2>1. PairOK(k, j)
    BY DEF LinkInv, PairsOK
  <2>2. CASE k # l /\ j # i
    BY <1>1, <1>6, <1>8, <2>1, <2>2, PairKept DEF SameQueues
  <2>3. CASE k # l /\ j = i
    <3>1. ~ Executing(i, k) /\ ~ Executing(i, k)'
      BY <1>1, <1>4, <1>7, <2>3 DEF Executing
    <3>2. runs'[i].notebook = runs[i].notebook
      BY <1>1
    <3>. QED BY <1>6, <1>7, <1>8, <2>1, <2>3, <3>1, <3>2, PairElsewhere
  <2>4. CASE k = l /\ j # i
    <3>1. Message(j, "output") # m /\ Message(j, "done") # m
      BY <2>4 DEF Message
    <3>2. /\ In(down'[l], Message(j, "output")) <=> In(down[l], Message(j, "output"))
          /\ In(down'[l], Message(j, "done")) <=> In(down[l], Message(j, "done"))
      BY <1>3, <1>6, <3>1
    <3>3. /\ Waits(l, j)' <=> Waits(l, j)
          /\ Told(l, j)' <=> Told(l, j)
          /\ Reported(l, j)' <=> Reported(l, j)
          /\ Sent(j)' <=> Sent(j)
          /\ Executing(j, l)' <=> Executing(j, l)
      BY <1>1, <2>4, <3>2 DEF Waits, Told, Reported, Sent, Executing
    <3>4. OwnedBy(target[l], runs[j].notebook)
          => OwnedBy(target[l], runs[j].notebook)'
      BY <1>1, <1>8, <2>4 DEF OwnedBy, PoolGrows
    <3>5. Progress(j, runs[j].got, up[l], inbox[l], outbox[l], down[l])
          => Progress(j, runs'[j].got, up'[l], inbox'[l], outbox'[l], down'[l])
      BY <1>1, <2>4, <3>2 DEF Progress
    <3>. QED BY <2>1, <2>4, <3>3, <3>4, <3>5 DEF PairOK
  <2>5. CASE k = l /\ j = i
    <3>1. ~ Waits(l, i)'
      BY <1>3 DEF Waits
    <3>2. CASE m.type = "output"
      <4>1. Executing(i, l)' /\ runs'[i].got = 1
        BY <1>1, <1>4, <1>7, <1>9, <3>2 DEF Executing
      <4>2. /\ ~ In(down'[l], Message(i, "output"))
            /\ ~ In(outbox'[l], Message(i, "output"))
        BY <1>3, <1>4, <1>6, <3>2
      <4>3. Progress(i, runs'[i].got, up'[l], inbox'[l], outbox'[l], down'[l])
        BY <3>1, <4>1, <4>2 DEF Progress, Waits
      <4>. QED BY <1>7, <2>5, <3>1, <4>1, <4>3 DEF PairOK
    <3>3. CASE m.type = "done"
      <4>1. ~ Executing(i, l)'
        BY <1>1, <1>4, <3>3 DEF Executing
      <4>2. ~ Told(l, i)' /\ ~ Reported(l, i)'
        BY <1>3, <1>4, <1>6, <3>3 DEF Told, Reported
      <4>. QED BY <2>5, <3>1, <4>1, <4>2 DEF PairOK
    <3>. QED BY <1>4, <3>2, <3>3
  <2>. QED BY <2>2, <2>3, <2>4, <2>5
<1>. QED BY <1>6, <1>10, <1>11, <1>12, <1>13, <1>14 DEF LinkInv, TypeInv, QueueTypes

\* An output is collected, or the run succeeds.
LEMMA ReceiveKeeps ==
  ASSUME IInv, NEW l \in Links, Receive(l)
  PROVE  IInv'
<1>. DEFINE i == Head(down[l]).run
            a == Call(runs[i].phase, runs[i].notebook, runs[i].visit, runs[i].runtime,
                      runs[i].link, runs[i].got + 1)
            b == Call("done", runs[i].notebook, 0, None, None, runs[i].got)
<1>1. /\ down[l] # <<>>
      /\ \/ /\ Head(down[l]).type = "output"
            /\ runs' = [runs EXCEPT ![i].got = @ + 1]
            /\ UNCHANGED page
         \/ /\ Head(down[l]).type = "done"
            /\ runs' = [runs EXCEPT ![i] = EndedRun(i, "done")]
            /\ page' = PageAfter(i)
      /\ down' = [down EXCEPT ![l] = Tail(@)]
      /\ UNCHANGED <<poolVars, target, http, bridge, tasks, browserEnd, upstreamEnd,
                     up, inbox, outbox, stops, current, client, strayed>>
  BY DEF Receive
<1>2. /\ runs \in [Links -> RunRecords] /\ page \in Pages
      /\ down[l] \in Seq(Messages)
  BY DEF IInv, TypeInv, SessionTypes, QueueTypes, Pages
<1>3. Head(down[l]) \in Messages /\ i \in Links
  <2>1. Head(down[l]) \in Messages
    BY <1>1, <1>2, TailOf
  <2>. QED BY <2>1 DEF Messages
<1>4. Executing(i, l)
  <2>1. In(down[l], Head(down[l]))
    BY <1>1, <1>2, TailOf
  <2>2. Reported(l, i)
    <3>. DEFINE m == Head(down[l])
    <3>1. m \in Messages /\ m.type \in {"output", "done"} /\ m.run = i /\ In(down[l], m)
      BY <1>3, <2>1 DEF Messages
    <3>. HIDE DEF m, i
    <3>2. m = Message(i, "output") \/ m = Message(i, "done")
      BY <1>3, <3>1, MessageIs
    <3>. QED BY <3>1, <3>2 DEF Reported
  <2>. QED BY <1>3, <2>2 DEF IInv, LinkInv, PairsOK, PairOK
<1>. HIDE DEF i
<1>5. runs[i] \in RunRecords /\ a \in RunRecords /\ b \in RunRecords
  BY <1>2, <1>3 DEF RunRecords, Phases, Call
<1>6. /\ a.phase = "executing" /\ a.notebook = runs[i].notebook
      /\ a.visit = runs[i].visit /\ a.runtime = runs[i].runtime
      /\ a.link = runs[i].link /\ a.got = runs[i].got + 1
      /\ b.phase = "done" /\ b.notebook = runs[i].notebook /\ b.got = runs[i].got
  BY <1>4 DEF Call, Executing
<1>7. PICK c \in RunRecords :
        /\ runs' = [runs EXCEPT ![i] = c]
        /\ \/ c = a /\ Head(down[l]).type = "output" /\ page' = page
           \/ c = b /\ Head(down[l]).type = "done" /\ page' = PageAfter(i)
  <2>1. CASE /\ Head(down[l]).type = "output"
             /\ runs' = [runs EXCEPT ![i].got = @ + 1]
             /\ UNCHANGED page
    <3>1. runs' = [runs EXCEPT ![i] = a]
      BY <1>2, <1>3, <2>1, GotIs
    <3>. QED BY <1>5, <2>1, <3>1
  <2>2. CASE /\ Head(down[l]).type = "done"
             /\ runs' = [runs EXCEPT ![i] = EndedRun(i, "done")]
             /\ page' = PageAfter(i)
    <3>1. EndedRun(i, "done") = b
      BY <1>3, EndedIs
    <3>2. runs' = [runs EXCEPT ![i] = b]
      BY <2>2, <3>1
    <3>. QED BY <1>5, <2>2, <3>2
  <2>. QED BY <1>1, <2>1, <2>2
<1>. HIDE DEF a, b
<1>8. PoolTypes' /\ PoolGrows
  BY <1>1, PoolStep DEF IInv, TypeInv
<1>9. LinkInv' /\ QueueTypes'
  <2>1. /\ c.notebook = runs[i].notebook
        /\ \/ /\ Head(down[l]).type = "output" /\ c.phase = "executing"
              /\ c.link = runs[i].link /\ c.runtime = runs[i].runtime
              /\ c.got = runs[i].got + 1
           \/ /\ Head(down[l]).type = "done" /\ c.phase = "done"
              /\ c.got = runs[i].got
    BY <1>6, <1>7
  <2>2. Head(down[l]).run = i
    BY DEF i
  <2>3. UNCHANGED <<poolVars, target, http, bridge, tasks, browserEnd, upstreamEnd,
                    up, inbox, outbox, client>>
    BY <1>1
  <2>. QED BY <1>1, <1>3, <1>7, <2>1, <2>2, <2>3, ReceivedKeeps DEF IInv
<1>10. SessionTypes' /\ PageInv'
  <2>1. /\ page' \in Pages /\ page'.notebook = page.notebook
        /\ page'.visit = page.visit /\ page'.shown = page.shown
        /\ page'.running # None => page'.running \in {page.running, i}
        /\ page'.running = i => c = a /\ page.running = i
    <3>1. CASE c = a /\ page' = page
      BY <1>2, <3>1
    <3>2. CASE page' = PageAfter(i)
      <4>1. /\ page' \in Pages /\ page'.notebook = page.notebook
            /\ page'.visit = page.visit /\ page'.shown = page.shown
            /\ page'.running = IF Mounted(runs[i]) THEN None ELSE page.running
        BY <1>2, <1>3, <3>2, PagesAre
      <4>2. page.running = i => Mounted(runs[i])
        BY <1>3 DEF IInv, PageInv, RunningOK, Mounted
      <4>3. i # None
        BY <1>3
      <4>. QED BY <4>1, <4>2, <4>3
    <3>. QED BY <1>7, <3>1, <3>2
  <2>2. /\ current' \in Runtimes \union {None}
        /\ client' \in [runtime : Runtimes \union {None}, link : Links \union {None}]
        /\ current' # None => phase'[current'] # "absent"
        /\ ~ strayed => page'.shown \in {None, current'}
        /\ stops' = stops /\ strayed' = strayed
    BY <1>1, <2>1 DEF IInv, TypeInv, SessionTypes, PageInv, CurrentOK, TogetherOK,
                      poolVars
  <2>3. /\ a.phase \notin Over /\ b.phase \in Over /\ runs[i].phase \notin Over
    BY <1>4, <1>6 DEF Over, Executing
  <2>4. page'.running = i => /\ c.phase \notin Over /\ c.notebook = page.notebook
                             /\ c.visit = page.visit
    BY <1>3, <1>6, <2>1, <2>3 DEF IInv, PageInv, RunningOK
  <2>5. c.phase \notin Over => runs[i].phase \notin Over /\ c.visit = runs[i].visit
    BY <1>6, <1>7, <2>3
  <2>. QED BY <1>3, <1>7, <1>8, <2>1, <2>2, <2>4, <2>5, CallKeepsPage DEF IInv
<1>11. GatewayTypes'
  BY <1>1 DEF IInv, TypeInv, GatewayTypes
<1>. QED BY <1>8, <1>9, <1>10, <1>11 DEF IInv, TypeInv

-----------------------------------------------------------------------------
(* dispose. *)

\* The links when the client gives up its kernel; the calls of X, of which
\* there is one or none, ask for another.
LEMMA DisposeKeeps ==
  ASSUME TypeInv, LinkInv, PoolGrows, CloseBrowserEnd, client' = NoClient,
         NEW X \in SUBSET Links, runs' \in [Links -> RunRecords],
         \A j \in Links \ X :
           runs'[j] = IF j \in Canceled
                      THEN Call("failed", runs[j].notebook, 0, None, None, 0)
                      ELSE runs[j],
         \A j \in X :
           /\ runs[j].phase = "READY"
           /\ runs'[j] = Call("starting", runs[j].notebook, runs[j].visit,
                              runs[j].runtime, runs[j].link, runs[j].got)
           /\ target'[j] = runs[j].runtime /\ http'[j] = "lookup",
         \A l \in Links \ X : target'[l] = target[l] /\ http'[l] = http[l],
         UNCHANGED <<bridge, tasks, upstreamEnd>>
  PROVE  /\ LinkInv' /\ QueueTypes'
         /\ browserEnd' \in [Links -> {"none", "open", "closed"}]
<1>1. /\ runs \in [Links -> RunRecords]
      /\ browserEnd \in [Links -> {"none", "open", "closed"}]
      /\ client.link \in Links \union {None}
      /\ up \in [Links -> Seq(Links)] /\ inbox \in [Links -> Seq(Links)]
      /\ outbox \in [Links -> Seq(Messages)] /\ down \in [Links -> Seq(Messages)]
  BY DEF TypeInv, SessionTypes, GatewayTypes, QueueTypes
<1>2. /\ up' = up /\ inbox' = inbox /\ outbox' = outbox
      /\ down' \in [Links -> Seq(Messages)]
      /\ browserEnd' \in [Links -> {"none", "open", "closed"}]
      /\ \A l \in Links :
           /\ l = client.link => down'[l] = <<>> /\ browserEnd'[l] = "closed"
           /\ l # client.link => down'[l] = down[l] /\ browserEnd'[l] = browserEnd[l]
  <2>0. up' = up /\ inbox' = inbox /\ outbox' = outbox
    BY DEF CloseBrowserEnd
  <2>1. CASE client.link = None
    <3>1. down' = down /\ browserEnd' = browserEnd
      BY <2>1 DEF CloseBrowserEnd
    <3>2. \A l \in Links : l # client.link
      BY <2>1
    <3>. QED BY <1>1, <2>0, <3>1, <3>2
  <2>2. CASE client.link # None
    <3>1. /\ down' = [down EXCEPT ![client.link] = <<>>]
          /\ browserEnd' = [browserEnd EXCEPT ![client.link] = "closed"]
          /\ client.link \in Links
      BY <1>1, <2>2 DEF CloseBrowserEnd
    <3>2. down' \in [Links -> Seq(Messages)]
      <4>1. <<>> \in Seq(Messages)
        BY PartOfItself
      <4>. QED BY <1>1, <3>1, <4>1
    <3>3. browserEnd' \in [Links -> {"none", "open", "closed"}]
      BY <1>1, <3>1
    <3>. QED BY <1>1, <2>0, <3>1, <3>2, <3>3
  <2>. QED BY <2>1, <2>2
<1>3. \A l \in Links : l = client.link => browserEnd[l] # "none"
  BY DEF LinkInv, ClientOK
<1>4. \A l \in X : browserEnd[l] = "none" /\ l # client.link
  BY <1>3 DEF LinkInv, LinksOK, LinkOK, Sent
<1>5. \A j \in Links :
        /\ j \in Canceled <=> client.link # None /\ Executing(j, client.link)
        /\ j \in Canceled => j \notin X
  BY DEF Canceled, Executing
<1>6. \A j \in Links \ X :
        /\ j \in Canceled => /\ runs'[j].phase = "failed" /\ runs'[j].got = 0
                             /\ runs'[j].notebook = runs[j].notebook
        /\ j \notin Canceled => runs'[j] = runs[j]
  BY DEF Call
<1>7. \A j \in X : /\ runs'[j].phase = "starting" /\ runs'[j].got = runs[j].got
                   /\ runs'[j].notebook = runs[j].notebook
                   /\ runs'[j].runtime = runs[j].runtime
  <2>. TAKE j \in X
  <2>1. runs'[j] = Call("starting", runs[j].notebook, runs[j].visit,
                        runs[j].runtime, runs[j].link, runs[j].got)
    OBVIOUS
  <2>. QED BY <2>1 DEF Call
<1>8. LinksOK'
  <2>. SUFFICES ASSUME NEW l \in Links
                PROVE  LinkOK(l)'
    BY DEF LinksOK
  <2>1. LinkOK(l)
    BY DEF LinkInv, LinksOK
  <2>2. CASE l \in X
    BY <1>2, <1>4, <1>7, <2>1, <2>2 DEF LinkOK
  <2>3. CASE l \notin X /\ l \in Canceled
    <3>1. runs[l].phase = "executing"
      BY <2>3 DEF Canceled
    <3>. QED BY <1>2, <1>3, <1>6, <2>1, <2>3, <3>1 DEF LinkOK, Sent
  <2>4. CASE l \notin X /\ l \notin Canceled
    BY <1>2, <1>3, <1>6, <2>1, <2>4 DEF LinkOK, Sent
  <2>. QED BY <2>2, <2>3, <2>4
<1>9. RunsOK'
  <2>. SUFFICES ASSUME NEW j \in Links
                PROVE  RunOK(j)'
    BY DEF RunsOK
  <2>1. RunOK(j)
    BY DEF LinkInv, RunsOK
  <2>2. /\ runs'[j].runtime = runs[j].runtime /\ runs'[j].notebook = runs[j].notebook
        /\ OwnedBy(runs[j].runtime, runs[j].notebook)
        => OwnedBy(runs[j].runtime, runs[j].notebook)'
    <3>1. OwnedBy(runs[j].runtime, runs[j].notebook) =>
            /\ runs[j].runtime \in Runtimes /\ phase'[runs[j].runtime] # "absent"
            /\ owner'[runs[j].runtime] = runs[j].notebook
      BY DEF OwnedBy, PoolGrows
    <3>. QED BY <3>1 DEF OwnedBy
  <2>3. CASE j \in X
    BY <1>7, <2>1, <2>2, <2>3 DEF RunOK, Sent, Over
  <2>4. CASE j \notin X /\ j \in Canceled
    BY <1>6, <2>4 DEF RunOK, Sent, Over
  <2>5. CASE j \notin X /\ j \notin Canceled
    <3>1. runs'[j] = runs[j]
      BY <1>6, <2>5
    <3>2. runs[j].phase = "executing" =>
            /\ runs[j].link \in Links /\ runs[j].link \notin X
            /\ browserEnd'[runs[j].link] # "none"
            /\ target'[runs[j].link] = runs[j].runtime
      <4>. SUFFICES ASSUME runs[j].phase = "executing"
                    PROVE  /\ runs[j].link \in Links /\ runs[j].link \notin X
                           /\ browserEnd'[runs[j].link] # "none"
                           /\ target'[runs[j].link] = runs[j].runtime
        OBVIOUS
      <4>1. /\ runs[j].link \in Links /\ browserEnd[runs[j].link] # "none"
            /\ target[runs[j].link] = runs[j].runtime
        BY <2>1 DEF RunOK
      <4>2. runs[j].link \notin X
        BY <1>4, <4>1
      <4>3. target'[runs[j].link] = target[runs[j].link]
        BY <4>1, <4>2
      <4>. QED BY <1>2, <4>1, <4>2, <4>3
    <3>3. runs[j].phase = "starting" => target'[j] = runs[j].runtime
      BY <2>1, <2>5 DEF RunOK
    <3>. QED BY <2>1, <2>2, <3>1, <3>2, <3>3 DEF RunOK, Sent
  <2>. QED BY <2>3, <2>4, <2>5
<1>10. ClientOK'
  BY DEF ClientOK, NoClient
<1>11. FlowsOK'
  <2>. SUFFICES ASSUME NEW l \in Links
                PROVE  Flow(up'[l], inbox'[l], outbox'[l], down'[l])
    BY DEF FlowsOK
  <2>1. Flow(up[l], inbox[l], outbox[l], down[l])
    BY DEF LinkInv, FlowsOK
  <2>2. /\ up[l] \in Seq(Links) /\ inbox[l] \in Seq(Links)
        /\ outbox[l] \in Seq(Messages) /\ down[l] \in Seq(Messages)
        /\ down'[l] \in Seq(Messages)
    BY <1>1, <1>2
  <2>3. /\ Part(up[l], up[l]) /\ Part(inbox[l], inbox[l])
        /\ Part(outbox[l], outbox[l]) /\ Part(down[l], down[l])
        /\ Part(<<>>, down[l])
    BY <2>2, PartOfItself
  <2>4. Part(down'[l], down[l])
    BY <1>2, <2>3
  <2>5. Flow(up[l], inbox[l], outbox[l], down'[l])
    <3>. DEFINE u == up[l]
                n == inbox[l]
                o == outbox[l]
                d == down[l]
                d2 == down'[l]
    <3>1. /\ u \in Seq(Links) /\ n \in Seq(Links) /\ o \in Seq(Messages)
          /\ d \in Seq(Messages) /\ d2 \in Seq(Messages) /\ Flow(u, n, o, d)
          /\ Part(u, u) /\ Part(n, n) /\ Part(o, o) /\ Part(d2, d)
      BY <2>1, <2>2, <2>3, <2>4
    <3>. HIDE DEF u, n, o, d, d2
    <3>2. Flow(u, n, o, d2)
      BY <3>1, FlowLoses
    <3>. QED BY <3>2 DEF u, n, o, d2
  <2>. QED BY <1>2, <2>5
<1>12. PairsOK'
  <2>. SUFFICES ASSUME NEW l \in Links, NEW j \in Links
                PROVE  PairOK(l, j)'
    BY DEF PairsOK
  <2>1. PairOK(l, j) /\ LinkOK(l)
    BY DEF LinkInv, PairsOK, LinksOK
  <2>2. CASE l \in X
    BY <1>2, <1>4, <2>1, <2>2, PairEmpty DEF LinkOK
  <2>3. CASE j \in X
    <3>1. ~ Sent(j)
      BY <2>3 DEF Sent
    <3>2. down'[l] = down[l] \/ down'[l] = <<>>
      BY <1>2
    <3>. QED BY <1>2, <2>1, <3>1, <3>2, PairSilent
  <2>4. CASE l \notin X /\ j \notin X /\ l # client.link
    <3>1. CASE j \in Canceled
      <4>1. ~ Executing(j, l) /\ ~ Executing(j, l)' /\ Sent(j)'
        BY <1>5, <1>6, <2>4, <3>1 DEF Executing, Sent
      <4>2. /\ up'[l] = up[l] /\ inbox'[l] = inbox[l] /\ outbox'[l] = outbox[l]
            /\ down'[l] = down[l] /\ browserEnd'[l] = browserEnd[l]
            /\ target'[l] = target[l] /\ runs'[j].notebook = runs[j].notebook
        BY <1>2, <1>6, <2>4, <3>1
      <4>. QED BY <2>1, <4>1, <4>2, PairElsewhere
    <3>2. CASE j \notin Canceled
      BY <1>2, <1>6, <2>1, <2>4, <3>2, PairKept DEF SameQueues
    <3>. QED BY <3>1, <3>2
  <2>5. CASE l \notin X /\ j \notin X /\ l = client.link
    <3>1. ~ Executing(j, l)'
      BY <1>5, <1>6, <2>5 DEF Executing
    <3>2. /\ Waits(l, j)' <=> Waits(l, j)
          /\ Told(l, j)' <=> Told(l, j)
          /\ ~ Reported(l, j)'
      <4>1. /\ up'[l] = up[l] /\ inbox'[l] = inbox[l] /\ outbox'[l] = outbox[l]
            /\ down'[l] = <<>>
        BY <1>2, <2>5
      <4>. QED BY <4>1, EmptyOf DEF Waits, Told, Reported
    <3>3. Sent(j) => Sent(j)'
      BY <1>6, <2>5 DEF Sent
    <3>4. OwnedBy(target[l], runs[j].notebook)
          => OwnedBy(target[l], runs[j].notebook)'
      <4>1. runs'[j].notebook = runs[j].notebook /\ target'[l] = target[l]
        BY <1>6, <2>5
      <4>2. OwnedBy(target[l], runs[j].notebook) =>
              /\ target[l] \in Runtimes /\ phase'[target[l]] # "absent"
              /\ owner'[target[l]] = runs[j].notebook
        BY DEF OwnedBy, PoolGrows
      <4>. QED BY <4>1, <4>2 DEF OwnedBy
    <3>. QED BY <1>2, <2>1, <2>5, <3>1, <3>2, <3>3, <3>4 DEF PairOK
  <2>. QED BY <2>2, <2>3, <2>4, <2>5
<1>. QED BY <1>1, <1>2, <1>8, <1>9, <1>10, <1>11, <1>12 DEF LinkInv, QueueTypes

\* The calls a dispose ends.
LEMMA DisposedRuns ==
  ASSUME TypeInv
  PROVE  /\ RunsAfterDispose \in [Links -> RunRecords]
         /\ \A j \in Links :
              RunsAfterDispose[j]
                = IF j \in Canceled
                  THEN Call("failed", runs[j].notebook, 0, None, None, 0)
                  ELSE runs[j]
<1>1. \A j \in Links :
        EndedRun(j, "failed") = Call("failed", runs[j].notebook, 0, None, None, 0)
  BY EndedIs
<1>2. \A j \in Links :
        Call("failed", runs[j].notebook, 0, None, None, 0) \in RunRecords
  BY DEF TypeInv, SessionTypes, RunRecords, Phases, Call
<1>3. \A j \in Links : runs[j] \in RunRecords
  BY DEF TypeInv, SessionTypes
<1>4. RunsAfterDispose
        = [j \in Links |-> IF j \in Canceled
                           THEN Call("failed", runs[j].notebook, 0, None, None, 0)
                           ELSE runs[j]]
  BY <1>1 DEF RunsAfterDispose
<1>. HIDE DEF Canceled
<1>. QED BY <1>2, <1>3, <1>4

\* Another kernel is asked for.
LEMMA StartKernelKeeps ==
  ASSUME IInv, NEW i \in Links, StartKernel(i)
  PROVE  IInv'
<1>. DEFINE r == runs[i].runtime
            c == Call("starting", runs[i].notebook, runs[i].visit, r, runs[i].link,
                      runs[i].got)
<1>1. /\ runs[i].phase = "READY" /\ CloseBrowserEnd /\ current' = r
      /\ page' = IF Mounted(runs[i]) THEN [PageAfterDispose EXCEPT !.shown = r]
                 ELSE PageAfterDispose
      /\ runs' = [RunsAfterDispose EXCEPT ![i].phase = "starting"]
      /\ client' = NoClient
      /\ target' = [target EXCEPT ![i] = r]
      /\ http' = [http EXCEPT ![i] = "lookup"]
      /\ UNCHANGED <<poolVars, bridge, tasks, upstreamEnd, stops, strayed>>
  BY DEF StartKernel
<1>2. /\ runs \in [Links -> RunRecords] /\ page \in Pages
      /\ target \in [Links -> Runtimes \union {None}]
      /\ http \in [Links -> {"none", "lookup", "forward", "ok", "error"}]
      /\ RunsAfterDispose \in [Links -> RunRecords]
      /\ \A j \in Links :
           RunsAfterDispose[j] = IF j \in Canceled
                                 THEN Call("failed", runs[j].notebook, 0, None, None, 0)
                                 ELSE runs[j]
  BY DisposedRuns DEF IInv, TypeInv, SessionTypes, GatewayTypes, Pages
<1>3. /\ i \notin Canceled /\ runs[i] \in RunRecords /\ r \in Runtimes \union {None}
      /\ c \in RunRecords
  BY <1>1, <1>2 DEF Canceled, RunRecords, Phases, Call
<1>4. runs' = [RunsAfterDispose EXCEPT ![i] = c]
  <2>1. RunsAfterDispose[i] = runs[i]
    BY <1>2, <1>3
  <2>2. [RunsAfterDispose EXCEPT ![i].phase = "starting"]
          = [RunsAfterDispose EXCEPT
               ![i] = Call("starting", RunsAfterDispose[i].notebook,
                           RunsAfterDispose[i].visit, RunsAfterDispose[i].runtime,
                           RunsAfterDispose[i].link, RunsAfterDispose[i].got)]
    BY <1>2, PhaseIs
  <2>. QED BY <1>1, <2>1, <2>2
<1>5. /\ OwnedBy(r, runs[i].notebook) /\ runs[i].phase \notin Over
  BY <1>1 DEF IInv, LinkInv, RunsOK, RunOK, Over
<1>6. /\ runs' \in [Links -> RunRecords] /\ runs'[i] = c
      /\ \A j \in Links \ {i} :
           runs'[j] = IF j \in Canceled
                      THEN Call("failed", runs[j].notebook, 0, None, None, 0)
                      ELSE runs[j]
  <2>. HIDE DEF c, Canceled
  <2>. QED BY <1>2, <1>3, <1>4
<1>7. PoolTypes' /\ PoolGrows
  BY <1>1, PoolStep DEF IInv, TypeInv
<1>8. /\ target' \in [Links -> Runtimes \union {None}]
      /\ http' \in [Links -> {"none", "lookup", "forward", "ok", "error"}]
      /\ target'[i] = r /\ http'[i] = "lookup"
      /\ \A l \in Links \ {i} : target'[l] = target[l] /\ http'[l] = http[l]
  BY <1>1, <1>2, <1>3
<1>9. /\ LinkInv' /\ QueueTypes'
      /\ browserEnd' \in [Links -> {"none", "open", "closed"}]
  <2>. DEFINE X == {i}
  <2>1. \A j \in X :
          /\ runs[j].phase = "READY"
          /\ runs'[j] = Call("starting", runs[j].notebook, runs[j].visit,
                             runs[j].runtime, runs[j].link, runs[j].got)
          /\ target'[j] = runs[j].runtime /\ http'[j] = "lookup"
    BY <1>1, <1>6, <1>8
  <2>2. /\ X \in SUBSET Links /\ UNCHANGED <<bridge, tasks, upstreamEnd>>
        /\ client' = NoClient /\ CloseBrowserEnd
    BY <1>1
  <2>3. /\ \A j \in Links \ X :
             runs'[j] = IF j \in Canceled
                        THEN Call("failed", runs[j].notebook, 0, None, None, 0)
                        ELSE runs[j]
        /\ \A l \in Links \ X : target'[l] = target[l] /\ http'[l] = http[l]
    BY <1>6, <1>8
  <2>. HIDE DEF X
  <2>. QED BY <1>6, <1>7, <2>1, <2>2, <2>3, DisposeKeeps DEF IInv
<1>10. /\ page' \in Pages /\ page'.notebook = page.notebook
       /\ page'.visit = page.visit
       /\ page'.running = IF page.running \in Canceled THEN None ELSE page.running
       /\ page'.shown = IF Mounted(runs[i]) THEN r ELSE page.shown
  <2>1. /\ PageAfterDispose \in Pages
        /\ PageAfterDispose.notebook = page.notebook
        /\ PageAfterDispose.visit = page.visit
        /\ PageAfterDispose.shown = page.shown
        /\ PageAfterDispose.running
             = IF page.running \in Canceled THEN None ELSE page.running
    BY <1>2, PagesAre
  <2>. DEFINE p == PageAfterDispose
  <2>2. CASE Mounted(runs[i])
    <3>1. page' = [p EXCEPT !.shown = r]
      BY <1>1, <2>2
    <3>. HIDE DEF p, r
    <3>2. /\ page' \in Pages /\ page'.notebook = p.notebook /\ page'.visit = p.visit
          /\ page'.shown = r /\ page'.running = p.running
      BY <1>3, <2>1, <3>1, ShownIs DEF p
    <3>. QED BY <2>1, <2>2, <3>2 DEF p
  <2>3. CASE ~ Mounted(runs[i])
    BY <1>1, <2>1, <2>3
  <2>. QED BY <2>2, <2>3
<1>11. \A j \in Links : runs'[j].phase \notin Over =>
         /\ j \notin Canceled
         /\ runs[j].phase \notin Over
         /\ runs'[j].visit = runs[j].visit /\ runs'[j].notebook = runs[j].notebook
  <2>. TAKE j \in Links
  <2>1. CASE j = i
    BY <1>3, <1>5, <1>6, <2>1 DEF Call
  <2>2. CASE j # i /\ j \in Canceled
    <3>1. runs'[j] = Call("failed", runs[j].notebook, 0, None, None, 0)
      BY <1>6, <2>2
    <3>. QED BY <3>1 DEF Call, Over
  <2>3. CASE j # i /\ j \notin Canceled
    <3>1. runs'[j] = runs[j]
      BY <1>6, <2>3
    <3>. QED BY <2>3, <3>1
  <2>. QED BY <2>1, <2>2, <2>3
<1>12. \A j \in Links : runs[j].phase \notin Over /\ j \notin Canceled =>
         runs'[j].phase \notin Over
  <2>. TAKE j \in Links
  <2>1. CASE j = i
    BY <1>6, <2>1 DEF Call, Over
  <2>2. CASE j # i
    BY <1>6, <2>2
  <2>. QED BY <2>1, <2>2
<1>. HIDE DEF c, r, Canceled, Over
<1>13. SessionTypes' /\ PageInv'
  <2>1. RunningOK'
    <3>. SUFFICES ASSUME page'.running # None
                  PROVE  RunningOK'
      BY DEF RunningOK
    <3>1. page'.running = page.running /\ page.running \in Links
          /\ page.running \notin Canceled
      BY <1>2, <1>10 DEF Pages
    <3>2. /\ runs[page.running].phase \notin Over
          /\ runs[page.running].notebook = page.notebook
          /\ runs[page.running].visit = page.visit
      BY <3>1 DEF IInv, PageInv, RunningOK
    <3>. QED BY <1>10, <1>11, <1>12, <3>1, <3>2 DEF RunningOK
  <2>2. /\ current' \in Runtimes \union {None}
        /\ client' \in [runtime : Runtimes \union {None}, link : Links \union {None}]
        /\ CurrentOK'
    BY <1>1, <1>5 DEF OwnedBy, CurrentOK, NoClient, poolVars
  <2>3. TogetherOK'
    <3>. SUFFICES ASSUME ~ strayed
                  PROVE  TogetherOK'
      BY <1>1 DEF TogetherOK
    <3>1. \A j \in Links : runs'[j].phase \notin Over => Mounted(runs[j])'
      BY <1>10, <1>11 DEF IInv, PageInv, TogetherOK, Mounted
    <3>2. \A j \in Stops :
            /\ stops'[j].phase \in {"sent", "handled"} =>
                 Mounted(stops[j])' /\ stops'[j].shown = stops'[j].runtime
            /\ stops'[j].phase = "done" =>
                 stops'[j].shown \in Runtimes /\ phase'[stops'[j].shown] = "gone"
      BY <1>1, <1>7, <1>10 DEF IInv, PageInv, TogetherOK, Mounted, PoolGrows
    <3>3. page'.shown \in {None, current'}
      BY <1>1, <1>5, <1>10 DEF IInv, PageInv, TogetherOK
    <3>. QED BY <3>1, <3>2, <3>3 DEF TogetherOK, Mounted
  <2>4. stops' \in [Stops -> StopRecords] /\ strayed' \in BOOLEAN
    BY <1>1 DEF IInv, TypeInv, SessionTypes
  <2>. QED BY <1>6, <1>10, <2>1, <2>2, <2>3, <2>4 DEF SessionTypes, PageInv, Pages
<1>14. GatewayTypes'
  BY <1>1, <1>8, <1>9 DEF IInv, TypeInv, GatewayTypes
<1>. QED BY <1>7, <1>9, <1>13, <1>14 DEF IInv, TypeInv

-----------------------------------------------------------------------------
(* Stop. *)

\* A Stop that is over keeps what its page showed.
LEMMA EndedStopIs ==
  ASSUME NEW j \in Stops, NEW outcome
  PROVE  EndedStop(j, outcome) = StopCall(outcome, 0, stops[j].shown, None)
<1>1. [NoStop EXCEPT !.phase = outcome] = StopCall(outcome, 0, None, None)
  BY DEF NoStop, StopCall
<1>2. [StopCall(outcome, 0, None, None) EXCEPT !.shown = stops[j].shown]
        = StopCall(outcome, 0, stops[j].shown, None)
  BY DEF StopCall
<1>3. EndedStop(j, outcome)
        = [[NoStop EXCEPT !.phase = outcome] EXCEPT !.shown = stops[j].shown]
  BY Zenon DEF EndedStop
<1>. QED BY <1>1, <1>2, <1>3, Zenon

\* What follows a Stop that does not throw.
LEMMA StoppedKeeps ==
  ASSUME IInv, PoolTypes', PoolGrows, NEW call, Stopped(call), strayed' = strayed,
         stops' \in [Stops -> StopRecords],
         current' \in Runtimes \union {None},
         current' # None => phase'[current'] # "absent",
         ~ strayed =>
           /\ Mounted(call)
           /\ \A j \in Stops :
                /\ stops'[j].phase \in {"sent", "handled"} =>
                     /\ stops'[j].visit = page.visit
                     /\ stops'[j].shown = stops'[j].runtime
                /\ stops'[j].phase = "done" =>
                     stops'[j].shown \in Runtimes /\ phase'[stops'[j].shown] = "gone"
  PROVE  IInv'
<1>1. /\ runs' = RunsAfterDispose /\ page \in Pages
      /\ runs' \in [Links -> RunRecords]
      /\ \A j \in Links :
           runs'[j] = IF j \in Canceled
                      THEN Call("failed", runs[j].notebook, 0, None, None, 0)
                      ELSE runs[j]
  BY DisposedRuns DEF IInv, TypeInv, SessionTypes, Pages, Stopped
<1>2. /\ CloseBrowserEnd /\ client' = NoClient
      /\ UNCHANGED <<target, http, bridge, tasks, upstreamEnd>>
      /\ page' = IF Mounted(call) THEN [PageAfterDispose EXCEPT !.shown = None]
                 ELSE PageAfterDispose
  BY DEF Stopped
<1>3. /\ LinkInv' /\ QueueTypes'
      /\ browserEnd' \in [Links -> {"none", "open", "closed"}]
  <2>1. PICK X \in SUBSET Links : X = {}
    OBVIOUS
  <2>2. /\ \A j \in Links \ X :
             runs'[j] = IF j \in Canceled
                        THEN Call("failed", runs[j].notebook, 0, None, None, 0)
                        ELSE runs[j]
        /\ \A l \in Links \ X : target'[l] = target[l] /\ http'[l] = http[l]
    BY <1>1, <1>2, <2>1
  <2>3. \A j \in X :
          /\ runs[j].phase = "READY"
          /\ runs'[j] = Call("starting", runs[j].notebook, runs[j].visit,
                             runs[j].runtime, runs[j].link, runs[j].got)
          /\ target'[j] = runs[j].runtime /\ http'[j] = "lookup"
    BY <2>1
  <2>4. UNCHANGED <<bridge, tasks, upstreamEnd>>
    BY <1>2
  <2>. QED BY <1>1, <1>2, <2>2, <2>3, <2>4, DisposeKeeps DEF IInv
<1>4. /\ page' \in Pages /\ page'.notebook = page.notebook
      /\ page'.visit = page.visit
      /\ page'.running = IF page.running \in Canceled THEN None ELSE page.running
      /\ Mounted(call) => page'.shown = None
  <2>. DEFINE p == PageAfterDispose
  <2>1. /\ p \in Pages /\ p.notebook = page.notebook /\ p.visit = page.visit
        /\ p.running = IF page.running \in Canceled THEN None ELSE page.running
    <3>1. CASE Links = {}
      <4>1. page.running \notin Canceled
        BY <3>1 DEF Canceled
      <4>. QED BY <1>1, <4>1 DEF PageAfterDispose
    <3>2. CASE Links # {}
      BY <1>1, <3>2, PagesAre
    <3>. QED BY <3>1, <3>2
  <2>. HIDE DEF p, Mounted, Canceled
  <2>2. CASE Mounted(call)
    <3>1. page' = [p EXCEPT !.shown = None]
      BY <1>2, <2>2 DEF p
    <3>2. /\ page' \in Pages /\ page'.notebook = p.notebook /\ page'.visit = p.visit
          /\ page'.shown = None /\ page'.running = p.running
      BY <2>1, <3>1, ShownIs
    <3>. QED BY <2>1, <2>2, <3>2
  <2>3. CASE ~ Mounted(call)
    BY <1>2, <2>1, <2>3 DEF p
  <2>. QED BY <2>2, <2>3
<1>5. \A j \in Links : runs'[j].phase \notin Over => runs'[j] = runs[j]
  <2>. TAKE j \in Links
  <2>1. CASE j \in Canceled
    <3>1. runs'[j] = Call("failed", runs[j].notebook, 0, None, None, 0)
      BY <1>1, <2>1
    <3>. QED BY <3>1 DEF Call, Over
  <2>2. CASE j \notin Canceled
    BY <1>1, <2>2
  <2>. QED BY <2>1, <2>2
<1>6. RunningOK'
  <2>. SUFFICES ASSUME page'.running # None
                PROVE  RunningOK'
    BY DEF RunningOK
  <2>1. /\ page'.running = page.running /\ page.running \in Links
        /\ page.running \notin Canceled
    BY <1>1, <1>4 DEF Pages
  <2>2. runs'[page.running] = runs[page.running]
    BY <1>1, <2>1
  <2>3. /\ runs[page.running].phase \notin Over
        /\ runs[page.running].notebook = page.notebook
        /\ runs[page.running].visit = page.visit
    BY <2>1 DEF IInv, PageInv, RunningOK
  <2>. QED BY <1>4, <2>1, <2>2, <2>3 DEF RunningOK
<1>7. TogetherOK'
  <2>. SUFFICES ASSUME ~ strayed
                PROVE  TogetherOK'
    BY DEF TogetherOK
  <2>1. \A j \in Links : runs'[j].phase \notin Over => Mounted(runs[j])'
    BY <1>4, <1>5 DEF IInv, PageInv, TogetherOK, Mounted
  <2>2. page'.shown = None
    BY <1>4
  <2>3. \A j \in Stops :
          /\ stops'[j].phase \in {"sent", "handled"} =>
               Mounted(stops[j])' /\ stops'[j].shown = stops'[j].runtime
          /\ stops'[j].phase = "done" =>
               stops'[j].shown \in Runtimes /\ phase'[stops'[j].shown] = "gone"
    BY <1>4 DEF Mounted
  <2>. QED BY <2>1, <2>2, <2>3 DEF TogetherOK
<1>8. SessionTypes'
  <2>1. client' \in [runtime : Runtimes \union {None}, link : Links \union {None}]
    BY <1>2 DEF NoClient
  <2>2. strayed' \in BOOLEAN
    BY DEF IInv, TypeInv, SessionTypes
  <2>. QED BY <1>1, <1>4, <2>1, <2>2 DEF SessionTypes, Pages
<1>9. CurrentOK'
  BY DEF CurrentOK
<1>10. GatewayTypes'
  BY <1>2, <1>3 DEF IInv, TypeInv, GatewayTypes
<1>. QED BY <1>3, <1>6, <1>7, <1>8, <1>9, <1>10 DEF IInv, TypeInv, PageInv

\* The page when a Stop moves on.
LEMMA StopMovesPage ==
  ASSUME TypeInv, PageInv, PoolGrows, NEW j \in Stops, NEW c \in StopRecords,
         stops' = [stops EXCEPT ![j] = c],
         UNCHANGED <<page, runs, current, client, strayed>>,
         c.phase # "done",
         ~ strayed /\ c.phase \in {"sent", "handled"} =>
           c.visit = page.visit /\ c.shown = c.runtime
  PROVE  SessionTypes' /\ PageInv'
<1>1. /\ stops \in [Stops -> StopRecords] /\ stops' \in [Stops -> StopRecords]
      /\ stops'[j] = c /\ \A k \in Stops : k # j => stops'[k] = stops[k]
  BY DEF TypeInv, SessionTypes
<1>2. SessionTypes'
  BY <1>1 DEF TypeInv, SessionTypes
<1>3. RunningOK'
  BY DEF PageInv, RunningOK
<1>4. CurrentOK'
  BY DEF TypeInv, SessionTypes, PageInv, CurrentOK, PoolGrows
<1>5. TogetherOK'
  <2>. SUFFICES ASSUME ~ strayed
                PROVE  TogetherOK'
    BY DEF TogetherOK
  <2>1. ASSUME NEW k \in Stops
        PROVE  /\ stops'[k].phase \in {"sent", "handled"} =>
                    /\ stops'[k].visit = page.visit
                    /\ stops'[k].shown = stops'[k].runtime
               /\ stops'[k].phase = "done" =>
                    stops'[k].shown \in Runtimes /\ phase'[stops'[k].shown] = "gone"
    <3>1. CASE k = j
      BY <1>1, <3>1
    <3>2. CASE k # j
      BY <1>1, <3>2 DEF PageInv, TogetherOK, Mounted, PoolGrows
    <3>. QED BY <3>1, <3>2
  <2>. QED BY <2>1 DEF PageInv, TogetherOK, Mounted
<1>. QED BY <1>2, <1>3, <1>4, <1>5 DEF PageInv

\* Calls and links when only a Stop moves on.
LEMMA StopMoves ==
  ASSUME IInv, NEW j \in Stops, NEW c \in StopRecords,
         stops' = [stops EXCEPT ![j] = c],
         UNCHANGED <<poolVars, gatewayVars, page, runs, current, client, strayed>>,
         c.phase # "done",
         ~ strayed /\ c.phase \in {"sent", "handled"} =>
           c.visit = page.visit /\ c.shown = c.runtime
  PROVE  IInv'
<1>1. PoolGrows
  BY DEF PoolGrows, poolVars
<1>2. SessionTypes' /\ PageInv'
  BY <1>1, StopMovesPage DEF IInv
<1>4. PoolTypes' /\ QueueTypes' /\ GatewayTypes'
  BY DEF IInv, TypeInv, PoolTypes, QueueTypes, GatewayTypes, poolVars, gatewayVars, wire
<1>3. LinkInv'
  <2>1. LinksOK'
    BY DEF IInv, LinkInv, LinksOK, LinkOK, Sent, gatewayVars, wire
  <2>2. RunsOK'
    BY DEF IInv, LinkInv, RunsOK, RunOK, OwnedBy, Sent, gatewayVars, wire, poolVars
  <2>3. ClientOK'
    BY DEF IInv, LinkInv, ClientOK, gatewayVars
  <2>4. FlowsOK'
    BY DEF IInv, LinkInv, FlowsOK, gatewayVars, wire
  <2>5. PairsOK'
    BY DEF IInv, LinkInv, PairsOK, PairOK, Waits, Told, Reported, Sent, Executing,
           OwnedBy, gatewayVars, wire, poolVars
  <2>. QED BY <2>1, <2>2, <2>3, <2>4, <2>5 DEF LinkInv
<1>. QED BY <1>2, <1>3, <1>4 DEF IInv, TypeInv

\* The button is pressed.
LEMMA ClickStopKeeps ==
  ASSUME IInv, NEW j \in Stops, ClickStop(j)
  PROVE  IInv'
<1>. DEFINE call == [phase |-> IF current = None THEN "done" ELSE "sent",
                     visit |-> page.visit, shown |-> page.shown, runtime |-> current]
<1>1. /\ page.shown # None /\ stops' = [stops EXCEPT ![j] = call]
      /\ \/ current = None /\ Stopped(call)
         \/ current # None /\ UNCHANGED <<gatewayVars, page, runs, client>>
      /\ UNCHANGED <<poolVars, current, strayed>>
  BY DEF ClickStop
<1>2. /\ call \in StopRecords
      /\ current # None => call.phase = "sent"
      /\ call.visit = page.visit /\ call.shown = page.shown /\ call.runtime = current
  BY DEF IInv, TypeInv, SessionTypes, StopRecords
<1>3. ~ strayed => current = page.shown
  BY <1>1 DEF IInv, PageInv, TogetherOK
<1>. HIDE DEF call
<1>4. CASE current = None /\ Stopped(call)
  <2>1. strayed
    BY <1>1, <1>3, <1>4
  <2>2. stops' \in [Stops -> StopRecords]
    BY <1>1, <1>2 DEF IInv, TypeInv, SessionTypes
  <2>3. PoolTypes' /\ PoolGrows
    BY <1>1, PoolStep DEF IInv, TypeInv
  <2>4. /\ current' \in Runtimes \union {None} /\ strayed' = strayed
        /\ current' # None => phase'[current'] # "absent"
    BY <1>1, <1>4 DEF IInv, TypeInv, SessionTypes
  <2>. QED BY <1>4, <2>1, <2>2, <2>3, <2>4, StoppedKeeps
<1>5. CASE current # None /\ UNCHANGED <<gatewayVars, page, runs, client>>
  BY <1>1, <1>2, <1>3, <1>5, StopMoves
<1>. QED BY <1>1, <1>4, <1>5

\* It has succeeded.
LEMMA StopArrivesKeeps ==
  ASSUME IInv, NEW j \in Stops, StopArrives(j)
  PROVE  IInv'
<1>. DEFINE c == StopCall("done", 0, stops[j].shown, None)
<1>1. /\ stops[j].phase = "handled" /\ ReportStopped(stops[j].runtime)
      /\ stops' = [stops EXCEPT ![j] = EndedStop(j, "done")]
      /\ current' = None /\ Stopped(stops[j]) /\ strayed' = strayed
  BY DEF StopArrives
<1>2. /\ stops \in [Stops -> StopRecords] /\ stops[j] \in StopRecords
      /\ stops[j].runtime \in Runtimes /\ stops[j].shown \in Runtimes \union {None}
  BY <1>1 DEF IInv, TypeInv, SessionTypes, StopRecords
<1>3. c \in StopRecords /\ c.phase = "done" /\ c.shown = stops[j].shown
  BY <1>2 DEF StopRecords, StopCall
<1>4. stops' = [stops EXCEPT ![j] = c]
  BY <1>1, EndedStopIs
<1>. HIDE DEF c
<1>5. /\ stops' \in [Stops -> StopRecords] /\ stops'[j] = c
      /\ \A k \in Stops : k # j => stops'[k] = stops[k]
  BY <1>2, <1>3, <1>4
<1>6. PoolTypes' /\ PoolGrows
  BY <1>1, <1>2, PoolStep DEF IInv, TypeInv
<1>7. phase[stops[j].runtime] = "gone" /\ phase' = phase
  BY <1>1 DEF ReportStopped
<1>8. ASSUME ~ strayed
      PROVE  /\ Mounted(stops[j])
             /\ \A k \in Stops :
                  /\ stops'[k].phase \in {"sent", "handled"} =>
                       /\ stops'[k].visit = page.visit
                       /\ stops'[k].shown = stops'[k].runtime
                  /\ stops'[k].phase = "done" =>
                       stops'[k].shown \in Runtimes /\ phase'[stops'[k].shown] = "gone"
  <2>1. Mounted(stops[j]) /\ stops[j].shown = stops[j].runtime
    BY <1>1, <1>8 DEF IInv, PageInv, TogetherOK
  <2>2. ASSUME NEW k \in Stops
        PROVE  /\ stops'[k].phase \in {"sent", "handled"} =>
                    /\ stops'[k].visit = page.visit
                    /\ stops'[k].shown = stops'[k].runtime
               /\ stops'[k].phase = "done" =>
                    stops'[k].shown \in Runtimes /\ phase'[stops'[k].shown] = "gone"
    <3>1. CASE k = j
      BY <1>2, <1>3, <1>5, <1>7, <2>1, <3>1
    <3>2. CASE k # j
      BY <1>5, <1>7, <1>8, <3>2 DEF IInv, PageInv, TogetherOK, Mounted
    <3>. QED BY <3>1, <3>2
  <2>. QED BY <2>1, <2>2
<1>. QED BY <1>1, <1>5, <1>6, <1>8, StoppedKeeps

\* A Stop whose phase changes.
LEMMA StopPhaseIs ==
  ASSUME stops \in [Stops -> StopRecords], NEW j \in Stops, NEW p
  PROVE  [stops EXCEPT ![j].phase = p]
           = [stops EXCEPT ![j] = StopCall(p, stops[j].visit, stops[j].shown,
                                           stops[j].runtime)]
<1>1. stops[j] \in StopRecords
  OBVIOUS
<1>2. [stops[j] EXCEPT !.phase = p]
        = StopCall(p, stops[j].visit, stops[j].shown, stops[j].runtime)
  BY <1>1 DEF StopRecords, StopCall
<1>. QED BY <1>2, Zenon

\* It has failed, in whatever way.
LEMMA StopFailsKeeps ==
  ASSUME IInv, NEW j \in Stops, StopFails(j)
  PROVE  IInv'
<1>. DEFINE a == StopCall("late", stops[j].visit, stops[j].shown, stops[j].runtime)
            b == StopCall("failed", 0, stops[j].shown, None)
<1>1. /\ \/ stops[j].phase = "sent" /\ stops' = [stops EXCEPT ![j].phase = "late"]
         \/ stops' = [stops EXCEPT ![j] = EndedStop(j, "failed")]
      /\ UNCHANGED <<poolVars, gatewayVars, page, runs, current, client, strayed>>
  BY DEF StopFails
<1>2. stops \in [Stops -> StopRecords] /\ stops[j] \in StopRecords
  BY DEF IInv, TypeInv, SessionTypes
<1>3. CASE stops[j].phase = "sent" /\ stops' = [stops EXCEPT ![j].phase = "late"]
  <2>1. a \in StopRecords /\ a.phase = "late"
    BY <1>2, <1>3 DEF StopRecords, StopCall
  <2>2. stops' = [stops EXCEPT ![j] = a]
    BY <1>2, <1>3, StopPhaseIs
  <2>. HIDE DEF a
  <2>. QED BY <1>1, <2>1, <2>2, StopMoves
<1>4. CASE stops' = [stops EXCEPT ![j] = EndedStop(j, "failed")]
  <2>1. b \in StopRecords /\ b.phase = "failed"
    BY <1>2 DEF StopRecords, StopCall
  <2>2. stops' = [stops EXCEPT ![j] = b]
    BY <1>4, EndedStopIs
  <2>. HIDE DEF b
  <2>. QED BY <1>1, <2>1, <2>2, StopMoves
<1>. QED BY <1>1, <1>3, <1>4

-----------------------------------------------------------------------------
(* The bridge and what ends it. *)

\* Links lose some of what is on its way to the kernel and to the gateway.
LEMMA LossKeeps ==
  ASSUME TypeInv, LinkInv, PoolGrows, runs' = runs, target' = target, down' = down,
         QueueTypes',
         \A l \in Links : /\ Part(up'[l], up[l])
                          /\ Part(inbox'[l], inbox[l])
                          /\ Part(outbox'[l], outbox[l])
                          /\ browserEnd'[l] = "open" => browserEnd[l] = "open"
  PROVE  FlowsOK' /\ PairsOK'
<1>1. ASSUME NEW l \in Links
      PROVE  /\ Flow(up'[l], inbox'[l], outbox'[l], down'[l])
             /\ \A x : /\ In(up'[l], x) => In(up[l], x)
                       /\ In(inbox'[l], x) => In(inbox[l], x)
                       /\ In(outbox'[l], x) => In(outbox[l], x)
             /\ \A i \in Links :
                  Progress(i, runs[i].got, up[l], inbox[l], outbox[l], down[l])
                  => Progress(i, runs[i].got, up'[l], inbox'[l], outbox'[l], down'[l])
  <2>1. /\ up[l] \in Seq(Links) /\ inbox[l] \in Seq(Links)
        /\ outbox[l] \in Seq(Messages) /\ down[l] \in Seq(Messages)
        /\ up'[l] \in Seq(Links) /\ inbox'[l] \in Seq(Links)
        /\ outbox'[l] \in Seq(Messages)
    BY DEF TypeInv, QueueTypes
  <2>2. Flow(up[l], inbox[l], outbox[l], down[l])
    BY DEF LinkInv, FlowsOK
  <2>3. Part(down[l], down[l])
    BY <2>1, PartOfItself
  <2>4. /\ Flow(up'[l], inbox'[l], outbox'[l], down[l])
        /\ \A x : /\ In(up'[l], x) => In(up[l], x)
                  /\ In(inbox'[l], x) => In(inbox[l], x)
                  /\ In(outbox'[l], x) => In(outbox[l], x)
    <3>. DEFINE u == up[l]
                n == inbox[l]
                o == outbox[l]
                d == down[l]
                u2 == up'[l]
                n2 == inbox'[l]
                o2 == outbox'[l]
    <3>1. /\ u \in Seq(Links) /\ n \in Seq(Links)
          /\ o \in Seq(Messages) /\ d \in Seq(Messages)
          /\ u2 \in Seq(Links) /\ n2 \in Seq(Links) /\ o2 \in Seq(Messages)
          /\ Flow(u, n, o, d)
          /\ Part(u2, u) /\ Part(n2, n) /\ Part(o2, o) /\ Part(d, d)
      BY <2>1, <2>2, <2>3
    <3>. HIDE DEF u, n, o, d, u2, n2, o2
    <3>2. /\ Flow(u2, n2, o2, d)
          /\ \A x : /\ In(u2, x) => In(u, x)
                    /\ In(n2, x) => In(n, x)
                    /\ In(o2, x) => In(o, x)
      BY <3>1, FlowLoses
    <3>. QED BY <3>2 DEF u, n, o, d, u2, n2, o2
  <2>5. ASSUME NEW i \in Links,
               Progress(i, runs[i].got, up[l], inbox[l], outbox[l], down[l])
        PROVE  Progress(i, runs[i].got, up'[l], inbox'[l], outbox'[l], down[l])
    <3>. DEFINE g == runs[i].got
                u == up[l]
                n == inbox[l]
                o == outbox[l]
                d == down[l]
                u2 == up'[l]
                n2 == inbox'[l]
                o2 == outbox'[l]
    <3>1. /\ u \in Seq(Links) /\ n \in Seq(Links) /\ o \in Seq(Messages)
          /\ d \in Seq(Messages) /\ u2 \in Seq(Links) /\ n2 \in Seq(Links)
          /\ o2 \in Seq(Messages) /\ Flow(u, n, o, d)
          /\ Part(u2, u) /\ Part(n2, n) /\ Part(o2, o)
          /\ Progress(i, g, u, n, o, d)
      BY <2>1, <2>2, <2>5
    <3>. HIDE DEF g, u, n, o, d, u2, n2, o2
    <3>2. Progress(i, g, u2, n2, o2, d)
      BY <3>1, ProgressLoses
    <3>. QED BY <3>2 DEF g, d, u2, n2, o2
  <2>. QED BY <2>4, <2>5
<1>2. PairsOK'
  <2>. SUFFICES ASSUME NEW l \in Links, NEW i \in Links
                PROVE  PairOK(l, i)'
    BY DEF PairsOK
  <2>1. PairOK(l, i)
    BY DEF LinkInv, PairsOK
  <2>2. /\ Waits(l, i)' => Waits(l, i)
        /\ Told(l, i)' => Told(l, i)
        /\ Reported(l, i)' <=> Reported(l, i)
        /\ Sent(i)' <=> Sent(i)
        /\ Executing(i, l)' <=> Executing(i, l)
    BY <1>1 DEF Waits, Told, Reported, Sent, Executing
  <2>3. OwnedBy(target[l], runs[i].notebook)
        => OwnedBy(target[l], runs[i].notebook)'
    BY DEF OwnedBy, PoolGrows
  <2>. QED BY <1>1, <2>1, <2>2, <2>3 DEF PairOK
<1>. QED BY <1>1, <1>2 DEF FlowsOK

\* The container of r goes.
LEMMA CutOffKeeps ==
  ASSUME IInv, PoolTypes', PoolGrows, NEW r \in Runtimes, CutOff(r),
         UNCHANGED <<target, http, bridge, tasks, browserEnd, page, runs, current,
                     client, strayed>>
  PROVE  /\ QueueTypes' /\ GatewayTypes' /\ LinkInv'
<1>1. /\ up \in [Links -> Seq(Links)] /\ inbox \in [Links -> Seq(Links)]
      /\ outbox \in [Links -> Seq(Messages)] /\ down \in [Links -> Seq(Messages)]
      /\ upstreamEnd \in [Links -> {"none", "open", "closed"}]
  BY DEF IInv, TypeInv, QueueTypes, GatewayTypes
<1>2. PICK n \in Nat :
        outbox' = [l \in Links |-> IF l \in Broken(r) THEN FirstOf(outbox[l], n)
                                   ELSE outbox[l]]
  <2>1. \E n \in 0 .. 2 * Cardinality(Links) :
          outbox' = [l \in Links |-> IF l \in Broken(r) THEN FirstOf(outbox[l], n)
                                     ELSE outbox[l]]
    BY DEF CutOff
  <2>2. \A n \in 0 .. 2 * Cardinality(Links) : n \in Nat
    OBVIOUS
  <2>. QED BY <2>1, <2>2
<1>3. /\ up' = up /\ down' = down
      /\ inbox' = [l \in Links |-> IF l \in Broken(r) THEN <<>> ELSE inbox[l]]
      /\ upstreamEnd' = [l \in Links |-> IF l \in Broken(r) THEN "closed"
                                         ELSE upstreamEnd[l]]
  BY DEF CutOff
<1>4. \A l \in Links :
        /\ FirstOf(outbox[l], n) \in Seq(Messages)
        /\ Part(FirstOf(outbox[l], n), outbox[l])
        /\ Part(outbox[l], outbox[l]) /\ Part(inbox[l], inbox[l])
        /\ Part(<<>>, inbox[l]) /\ <<>> \in Seq(Links)
        /\ Part(up[l], up[l])
  <2>. TAKE l \in Links
  <2>1. /\ up[l] \in Seq(Links) /\ inbox[l] \in Seq(Links)
        /\ outbox[l] \in Seq(Messages)
    BY <1>1
  <2>. QED BY <2>1, FirstOfIs, PartOfItself DEF Part
<1>5. QueueTypes'
  BY <1>1, <1>2, <1>3, <1>4 DEF QueueTypes
<1>6. GatewayTypes'
  <2>1. upstreamEnd' \in [Links -> {"none", "open", "closed"}]
    BY <1>1, <1>3
  <2>. QED BY <2>1 DEF IInv, TypeInv, GatewayTypes
<1>7. \A l \in Links : /\ Part(up'[l], up[l])
                       /\ Part(inbox'[l], inbox[l])
                       /\ Part(outbox'[l], outbox[l])
  BY <1>2, <1>3, <1>4
<1>8. FlowsOK' /\ PairsOK'
  BY <1>3, <1>5, <1>7, LossKeeps DEF IInv
<1>9. LinksOK'
  <2>. SUFFICES ASSUME NEW l \in Links
                PROVE  LinkOK(l)'
    BY DEF LinksOK
  <2>1. LinkOK(l)
    BY DEF IInv, LinkInv, LinksOK
  <2>2. upstreamEnd[l] # "none" => upstreamEnd'[l] # "none"
    BY <1>3
  <2>3. /\ inbox[l] = <<>> => inbox'[l] = <<>>
        /\ outbox[l] = <<>> => outbox'[l] = <<>>
    <3>1. outbox[l] = <<>> => FirstOf(outbox[l], n) = <<>>
      BY <1>1 DEF FirstOf
    <3>. QED BY <1>2, <1>3, <3>1
  <2>. QED BY <1>3, <2>1, <2>2, <2>3 DEF LinkOK, Sent
<1>10. RunsOK' /\ ClientOK'
  BY CallsAlone DEF IInv
<1>. QED BY <1>5, <1>6, <1>8, <1>9, <1>10 DEF LinkInv

\* The service handles a Stop, whose record becomes c.
LEMMA DeleteKeeps ==
  ASSUME IInv, NEW j \in Stops, NEW c \in StopRecords, NEW r \in Runtimes,
         stops' = [stops EXCEPT ![j] = c], DeleteRuntime(r),
         UNCHANGED <<target, http, bridge, tasks, browserEnd, page, runs, current,
                     client, strayed>>,
         c.phase # "done",
         ~ strayed /\ c.phase \in {"sent", "handled"} =>
           c.visit = page.visit /\ c.shown = c.runtime
  PROVE  IInv'
<1>1. \/ Vanishes(r) /\ CutOff(r)
      \/ UNCHANGED <<poolVars, upstreamEnd, wire>>
  BY DEF DeleteRuntime
<1>2. PoolTypes' /\ PoolGrows
  BY <1>1, PoolStep DEF IInv, TypeInv
<1>3. CASE CutOff(r)
  <2>1. QueueTypes' /\ GatewayTypes' /\ LinkInv'
    BY <1>2, <1>3, CutOffKeeps
  <2>2. SessionTypes' /\ PageInv'
    BY <1>2, StopMovesPage DEF IInv
  <2>. QED BY <1>2, <2>1, <2>2 DEF IInv, TypeInv
<1>4. CASE UNCHANGED <<poolVars, upstreamEnd, wire>>
  <2>1. UNCHANGED <<poolVars, gatewayVars, page, runs, current, client, strayed>>
    BY <1>4 DEF gatewayVars
  <2>. QED BY <2>1, StopMoves
<1>. QED BY <1>1, <1>3, <1>4

LEMMA HandleStopKeeps ==
  ASSUME IInv, NEW j \in Stops, HandleStop(j)
  PROVE  IInv'
<1>. DEFINE c == StopCall("handled", stops[j].visit, stops[j].shown, stops[j].runtime)
<1>1. /\ stops[j].phase = "sent"
      /\ stops' = [stops EXCEPT ![j].phase = "handled"]
      /\ DeleteRuntime(stops[j].runtime)
      /\ UNCHANGED <<target, http, bridge, tasks, browserEnd, page, runs, current,
                     client, strayed>>
  BY DEF HandleStop
<1>2. stops \in [Stops -> StopRecords] /\ stops[j] \in StopRecords
  BY DEF IInv, TypeInv, SessionTypes
<1>3. /\ stops[j].runtime \in Runtimes /\ c \in StopRecords /\ c.phase = "handled"
      /\ c.visit = stops[j].visit /\ c.shown = stops[j].shown
      /\ c.runtime = stops[j].runtime
  BY <1>1, <1>2 DEF StopRecords, StopCall
<1>4. stops' = [stops EXCEPT ![j] = c]
  BY <1>1, <1>2, StopPhaseIs
<1>5. ~ strayed => c.visit = page.visit /\ c.shown = c.runtime
  BY <1>1, <1>3 DEF IInv, PageInv, TogetherOK, Mounted
<1>. HIDE DEF c
<1>. QED BY <1>1, <1>3, <1>4, <1>5, DeleteKeeps

\* And one whose caller has given up.
LEMMA LateStopKeeps ==
  ASSUME IInv, NEW j \in Stops, LateStop(j)
  PROVE  IInv'
<1>. DEFINE c == StopCall("failed", 0, stops[j].shown, None)
<1>1. /\ stops[j].phase = "late"
      /\ stops' = [stops EXCEPT ![j] = EndedStop(j, "failed")]
      /\ DeleteRuntime(stops[j].runtime)
      /\ UNCHANGED <<target, http, bridge, tasks, browserEnd, page, runs, current,
                     client, strayed>>
  BY DEF LateStop
<1>2. stops[j].runtime \in Runtimes /\ stops[j].shown \in Runtimes \union {None}
  BY <1>1 DEF IInv, TypeInv, SessionTypes, StopRecords
<1>3. c \in StopRecords /\ c.phase = "failed"
  BY <1>2 DEF StopRecords, StopCall
<1>4. stops' = [stops EXCEPT ![j] = c]
  BY <1>1, EndedStopIs
<1>. HIDE DEF c
<1>. QED BY <1>1, <1>2, <1>3, <1>4, DeleteKeeps

\* A container dies.
LEMMA DiesKeeps ==
  ASSUME IInv, NEW r \in Runtimes, Dies(r)
  PROVE  IInv'
<1>1. /\ Vanishes(r) /\ CutOff(r)
      /\ UNCHANGED <<target, http, bridge, tasks, browserEnd>>
      /\ UNCHANGED sessionVars
  BY DEF Dies
<1>2. PoolTypes' /\ PoolGrows
  BY <1>1, PoolStep DEF IInv, TypeInv
<1>3. QueueTypes' /\ GatewayTypes' /\ LinkInv'
  BY <1>1, <1>2, CutOffKeeps DEF sessionVars
<1>4. SessionTypes' /\ PageInv'
  BY <1>1, <1>2, PageAlone DEF IInv
<1>. QED BY <1>2, <1>3, <1>4 DEF IInv, TypeInv

\* The gateway and the links while neither moves.
LEMMA LinksAlone ==
  ASSUME TypeInv, LinkInv, PoolGrows, UNCHANGED <<gatewayVars, runs, client>>
  PROVE  QueueTypes' /\ GatewayTypes' /\ LinkInv'
<1>1. QueueTypes' /\ GatewayTypes'
  BY DEF TypeInv, QueueTypes, GatewayTypes, gatewayVars, wire
<1>2. LinksOK'
  BY DEF LinkInv, LinksOK, LinkOK, Sent, gatewayVars, wire
<1>3. RunsOK' /\ ClientOK'
  BY CallsAlone DEF gatewayVars
<1>4. FlowsOK'
  BY DEF LinkInv, FlowsOK, gatewayVars, wire
<1>5. PairsOK'
  <2>. SUFFICES ASSUME NEW l \in Links, NEW i \in Links
                PROVE  PairOK(l, i)'
    BY DEF PairsOK
  <2>1. PairOK(l, i) /\ SameQueues(l)
    BY DEF LinkInv, PairsOK, SameQueues, gatewayVars, wire
  <2>. QED BY <2>1, PairKept DEF gatewayVars
<1>. QED BY <1>1, <1>2, <1>3, <1>4, <1>5 DEF LinkInv

\* A container becomes healthy.
LEMMA HealthyKeeps ==
  ASSUME IInv, NEW r \in Runtimes, Healthy(r)
  PROVE  IInv'
<1>1. BecomesHealthy(r) /\ UNCHANGED gatewayVars /\ UNCHANGED sessionVars
  BY DEF Healthy
<1>2. PoolTypes' /\ PoolGrows
  BY <1>1, PoolStep DEF IInv, TypeInv
<1>3. QueueTypes' /\ GatewayTypes' /\ LinkInv'
  BY <1>1, <1>2, LinksAlone DEF IInv, sessionVars
<1>4. SessionTypes' /\ PageInv'
  BY <1>1, <1>2, PageAlone DEF IInv
<1>. QED BY <1>2, <1>3, <1>4 DEF IInv, TypeInv

\* The user goes to another page.
LEMMA VisitKeeps ==
  ASSUME IInv, NEW n \in Notebooks, Visit(n)
  PROVE  IInv'
<1>1. /\ page' = [notebook |-> n, visit |-> page.visit + 1, shown |-> None,
                  running |-> None]
      /\ strayed' = (strayed \/ (\E i \in Links : runs[i].phase \notin Over)
                             \/ (\E j \in Stops : stops[j].phase \notin Over))
      /\ UNCHANGED poolVars /\ UNCHANGED gatewayVars
      /\ UNCHANGED <<runs, stops, current, client>>
  BY DEF Visit
<1>2. PoolTypes' /\ PoolGrows
  BY <1>1, PoolStep DEF IInv, TypeInv
<1>3. QueueTypes' /\ GatewayTypes' /\ LinkInv'
  BY <1>1, <1>2, LinksAlone DEF IInv
<1>4. SessionTypes'
  BY <1>1 DEF IInv, TypeInv, SessionTypes
<1>5. RunningOK' /\ CurrentOK'
  BY <1>1 DEF IInv, PageInv, RunningOK, CurrentOK, poolVars
<1>6. TogetherOK'
  <2>. SUFFICES ASSUME ~ strayed'
                PROVE  TogetherOK'
    BY DEF TogetherOK
  <2>1. /\ ~ strayed
        /\ \A i \in Links : runs'[i].phase \in Over
        /\ \A j \in Stops : stops'[j].phase \in Over
    BY <1>1
  <2>2. \A j \in Stops : stops'[j].phase \notin {"sent", "handled"}
    BY <2>1 DEF Over
  <2>3. \A j \in Stops : stops'[j].phase = "done" =>
          stops'[j].shown \in Runtimes /\ phase'[stops'[j].shown] = "gone"
    BY <1>1, <2>1 DEF IInv, PageInv, TogetherOK, poolVars
  <2>4. page'.shown = None
    BY <1>1
  <2>. QED BY <2>1, <2>2, <2>3, <2>4 DEF TogetherOK
<1>. QED BY <1>2, <1>3, <1>4, <1>5, <1>6 DEF IInv, TypeInv, PageInv

-----------------------------------------------------------------------------
(* The gateway's steps. *)

\* A step of the gateway or the kernel on link l.
LEMMA LinkMoves ==
  ASSUME IInv, NEW l \in Links, UNCHANGED poolVars, UNCHANGED sessionVars,
         target' = target, QueueTypes', GatewayTypes',
         \A k \in Links : k # l =>
           /\ SameQueues(k) /\ bridge'[k] = bridge[k] /\ tasks'[k] = tasks[k]
           /\ browserEnd'[k] = browserEnd[k] /\ upstreamEnd'[k] = upstreamEnd[k],
         \A k \in Links : http'[k] = "none" <=> http[k] = "none",
         browserEnd[l] # "none" => browserEnd'[l] # "none",
         LinkOK(l)', Flow(up'[l], inbox'[l], outbox'[l], down'[l]),
         \A i \in Links : PairOK(l, i)'
  PROVE  IInv'
<1>1. PoolTypes' /\ PoolGrows
  BY PoolStep DEF IInv, TypeInv
<1>2. SessionTypes' /\ PageInv'
  BY <1>1, PageAlone DEF IInv
<1>3. runs' = runs /\ client' = client
  BY DEF sessionVars
<1>4. RunsOK' /\ ClientOK'
  BY <1>1, <1>3, CallsAlone DEF IInv
<1>5. LinksOK'
  <2>. SUFFICES ASSUME NEW k \in Links, k # l
                PROVE  LinkOK(k)'
    BY DEF LinksOK
  <2>1. LinkOK(k)
    BY DEF IInv, LinkInv, LinksOK
  <2>. QED BY <1>3, <2>1 DEF LinkOK, Sent, SameQueues
<1>6. FlowsOK'
  <2>. SUFFICES ASSUME NEW k \in Links, k # l
                PROVE  Flow(up'[k], inbox'[k], outbox'[k], down'[k])
    BY DEF FlowsOK
  <2>1. Flow(up[k], inbox[k], outbox[k], down[k])
    BY DEF IInv, LinkInv, FlowsOK
  <2>. QED BY <2>1 DEF SameQueues
<1>7. PairsOK'
  <2>. SUFFICES ASSUME NEW k \in Links, NEW i \in Links, k # l
                PROVE  PairOK(k, i)'
    BY DEF PairsOK
  <2>1. PairOK(k, i)
    BY DEF IInv, LinkInv, PairsOK
  <2>. QED BY <1>1, <1>3, <2>1, PairKept
<1>. QED BY <1>1, <1>2, <1>4, <1>5, <1>6, <1>7 DEF IInv, TypeInv, LinkInv

\* A step of the gateway that moves no message.
LEMMA QuietMoves ==
  ASSUME IInv, NEW l \in Links, UNCHANGED poolVars, UNCHANGED sessionVars,
         target' = target, UNCHANGED wire, GatewayTypes',
         \A k \in Links : k # l =>
           /\ bridge'[k] = bridge[k] /\ tasks'[k] = tasks[k]
           /\ browserEnd'[k] = browserEnd[k] /\ upstreamEnd'[k] = upstreamEnd[k],
         \A k \in Links : http'[k] = "none" <=> http[k] = "none",
         browserEnd[l] # "none" <=> browserEnd'[l] # "none",
         browserEnd'[l] = "open" => browserEnd[l] = "open",
         \/ bridge[l] # "none" /\ bridge'[l] # "none"
         \/ bridge'[l] = bridge[l],
         tasks'[l] # {} => bridge'[l] = "open",
         bridge'[l] \in {"open", "closing"} => upstreamEnd'[l] # "none"
  PROVE  IInv'
<1>1. QueueTypes' /\ \A k \in Links : SameQueues(k)
  BY DEF IInv, TypeInv, QueueTypes, SameQueues, wire
<1>2. LinkOK(l)'
  <2>1. LinkOK(l) /\ runs' = runs
    BY DEF IInv, LinkInv, LinksOK, sessionVars
  <2>. QED BY <1>1, <2>1 DEF LinkOK, Sent, SameQueues
<1>3. Flow(up'[l], inbox'[l], outbox'[l], down'[l])
  BY <1>1 DEF IInv, LinkInv, FlowsOK, SameQueues
<1>4. PoolGrows /\ runs' = runs
  BY DEF PoolGrows, poolVars, sessionVars
<1>5. \A i \in Links : PairOK(l, i)'
  <2>. TAKE i \in Links
  <2>1. PairOK(l, i)
    BY DEF IInv, LinkInv, PairsOK
  <2>. QED BY <1>1, <1>4, <2>1, PairKept
<1>. QED BY <1>1, <1>2, <1>3, <1>5, LinkMoves

\* The request that starts a kernel.
LEMMA ProxyKeeps ==
  ASSUME IInv, NEW l \in Links, ProxyLookup(l) \/ ProxyForward(l),
         UNCHANGED sessionVars
  PROVE  IInv'
<1>1. PICK a \in {"forward", "ok", "error"} :
        /\ http[l] # "none" /\ http' = [http EXCEPT ![l] = a]
        /\ UNCHANGED <<poolVars, target, bridge, tasks, browserEnd, upstreamEnd, wire>>
  BY DEF ProxyLookup, ProxyForward
<1>2. http \in [Links -> {"none", "lookup", "forward", "ok", "error"}]
  BY DEF IInv, TypeInv, GatewayTypes
<1>3. /\ http' \in [Links -> {"none", "lookup", "forward", "ok", "error"}]
      /\ \A k \in Links : http'[k] = "none" <=> http[k] = "none"
  BY <1>1, <1>2
<1>4. GatewayTypes'
  BY <1>1, <1>3 DEF IInv, TypeInv, GatewayTypes
<1>5. LinkOK(l)
  BY DEF IInv, LinkInv, LinksOK
<1>6. /\ UNCHANGED poolVars /\ UNCHANGED wire /\ target' = target /\ bridge' = bridge
      /\ tasks' = tasks /\ browserEnd' = browserEnd /\ upstreamEnd' = upstreamEnd
  BY <1>1
<1>7. /\ tasks'[l] # {} => bridge'[l] = "open"
      /\ bridge'[l] \in {"open", "closing"} => upstreamEnd'[l] # "none"
  BY <1>5, <1>6 DEF LinkOK
<1>. QED BY <1>3, <1>4, <1>6, <1>7, QuietMoves

\* The bridge is refused, opened, and its tasks ended.
LEMMA BridgeKeeps ==
  ASSUME IInv, NEW l \in Links, BridgeLookup(l) \/ BridgeConnect(l) \/ FirstCompleted(l),
         UNCHANGED sessionVars
  PROVE  IInv'
<1>1. /\ bridge \in [Links -> {"none", "lookup", "connect", "open", "closing", "closed"}]
      /\ tasks \in [Links -> SUBSET Tasks]
      /\ browserEnd \in [Links -> {"none", "open", "closed"}]
      /\ upstreamEnd \in [Links -> {"none", "open", "closed"}]
  BY DEF IInv, TypeInv, GatewayTypes
<1>2. LinkOK(l)
  BY DEF IInv, LinkInv, LinksOK
<1>3. /\ UNCHANGED poolVars /\ UNCHANGED wire /\ target' = target /\ http' = http
  BY DEF BridgeLookup, BridgeConnect, FirstCompleted
<1>4. bridge[l] # "none" /\ browserEnd[l] # "none"
  BY <1>2 DEF LinkOK, BridgeLookup, BridgeConnect, FirstCompleted
<1>5. PICK b \in {"connect", "open", "closing", "closed"}, t \in SUBSET Tasks,
           e \in {"open", "closed"}, u \in {"none", "open", "closed"} :
        /\ bridge' = [bridge EXCEPT ![l] = b]
        /\ tasks' = [tasks EXCEPT ![l] = t]
        /\ browserEnd' = [browserEnd EXCEPT ![l] = e]
        /\ upstreamEnd' = [upstreamEnd EXCEPT ![l] = u]
        /\ e = "open" => browserEnd[l] = "open"
        /\ t # {} => b = "open"
        /\ b \in {"open", "closing"} => u # "none"
  <2>1. /\ tasks = [tasks EXCEPT ![l] = tasks[l]]
        /\ browserEnd = [browserEnd EXCEPT ![l] = browserEnd[l]]
        /\ upstreamEnd = [upstreamEnd EXCEPT ![l] = upstreamEnd[l]]
        /\ tasks[l] \in SUBSET Tasks /\ browserEnd[l] \in {"open", "closed"}
        /\ upstreamEnd[l] \in {"none", "open", "closed"}
    BY <1>1, <1>4
  <2>2. CASE BridgeLookup(l)
    <3>1. tasks[l] = {}
      BY <1>2, <2>2 DEF BridgeLookup, LinkOK
    <3>. QED BY <2>1, <2>2, <3>1 DEF BridgeLookup, Refuse
  <2>3. CASE BridgeConnect(l)
    <3>1. tasks[l] = {}
      BY <1>2, <2>3 DEF BridgeConnect, LinkOK
    <3>. QED BY <2>1, <2>3, <3>1 DEF BridgeConnect, Refuse
  <2>4. CASE FirstCompleted(l)
    <3>1. upstreamEnd[l] # "none"
      BY <1>2, <2>4 DEF FirstCompleted, LinkOK
    <3>. QED BY <2>1, <2>4, <3>1 DEF FirstCompleted
  <2>. QED BY <2>2, <2>3, <2>4
<1>6. GatewayTypes'
  BY <1>1, <1>3, <1>5 DEF IInv, TypeInv, GatewayTypes
<1>7. /\ \A k \in Links : k # l =>
           /\ bridge'[k] = bridge[k] /\ tasks'[k] = tasks[k]
           /\ browserEnd'[k] = browserEnd[k] /\ upstreamEnd'[k] = upstreamEnd[k]
      /\ bridge'[l] = b /\ tasks'[l] = t /\ browserEnd'[l] = e /\ upstreamEnd'[l] = u
  BY <1>1, <1>5
<1>8. /\ browserEnd[l] # "none" <=> browserEnd'[l] # "none"
      /\ browserEnd'[l] = "open" => browserEnd[l] = "open"
      /\ bridge[l] # "none" /\ bridge'[l] # "none"
      /\ tasks'[l] # {} => bridge'[l] = "open"
      /\ bridge'[l] \in {"open", "closing"} => upstreamEnd'[l] # "none"
  BY <1>4, <1>5, <1>7
<1>. QED BY <1>3, <1>6, <1>7, <1>8, QuietMoves

\* A task ends.
LEMMA EndTaskKeeps ==
  ASSUME IInv, NEW l \in Links, NEW task, EndTask(l, task), tasks[l] # {},
         UNCHANGED <<poolVars, target, http, bridge, browserEnd, upstreamEnd>>,
         UNCHANGED sessionVars
  PROVE  IInv'
<1>1. tasks' = [tasks EXCEPT ![l] = @ \ {task}] /\ UNCHANGED wire
  BY DEF EndTask
<1>2. tasks \in [Links -> SUBSET Tasks]
  BY DEF IInv, TypeInv, GatewayTypes
<1>3. /\ tasks' \in [Links -> SUBSET Tasks]
      /\ \A k \in Links : k # l => tasks'[k] = tasks[k]
  BY <1>1, <1>2
<1>4. GatewayTypes'
  BY <1>3 DEF IInv, TypeInv, GatewayTypes
<1>5. LinkOK(l)
  BY DEF IInv, LinkInv, LinksOK
<1>6. /\ bridge'[l] = "open"
      /\ bridge'[l] \in {"open", "closing"} => upstreamEnd'[l] # "none"
  BY <1>5 DEF LinkOK
<1>7. UNCHANGED poolVars
  OBVIOUS
<1>. QED BY <1>1, <1>3, <1>4, <1>6, <1>7, QuietMoves

\* The gateway forwards a request.
LEMMA ClientToUpstreamKeeps ==
  ASSUME IInv, NEW l \in Links, ClientToUpstream(l), UNCHANGED sessionVars
  PROVE  IInv'
<1>1. /\ UNCHANGED poolVars /\ target' = target /\ http' = http /\ bridge' = bridge
      /\ browserEnd' = browserEnd /\ upstreamEnd' = upstreamEnd /\ tasks[l] # {}
  BY DEF ClientToUpstream
<1>2. CASE EndTask(l, "client")
  BY <1>1, <1>2, EndTaskKeeps
<1>3. CASE /\ up[l] # <<>>
           /\ up' = [up EXCEPT ![l] = Tail(@)]
           /\ inbox' = [inbox EXCEPT ![l] = Append(@, Head(up[l]))]
           /\ UNCHANGED <<tasks, outbox, down>>
  <2>1. /\ up \in [Links -> Seq(Links)] /\ inbox \in [Links -> Seq(Links)]
        /\ outbox \in [Links -> Seq(Messages)] /\ down \in [Links -> Seq(Messages)]
        /\ up[l] \in Seq(Links) /\ inbox[l] \in Seq(Links)
        /\ outbox[l] \in Seq(Messages) /\ down[l] \in Seq(Messages)
    BY DEF IInv, TypeInv, QueueTypes
  <2>2. /\ Flow(up[l], inbox[l], outbox[l], down[l]) /\ LinkOK(l)
        /\ \A i \in Links : PairOK(l, i)
    BY DEF IInv, LinkInv, FlowsOK, LinksOK, PairsOK
  <2>3. Tail(up[l]) \in Seq(Links) /\ Append(inbox[l], Head(up[l])) \in Seq(Links)
    <3>1. Head(up[l]) \in Links /\ Tail(up[l]) \in Seq(Links)
      BY <1>3, <2>1, TailOf
    <3>. QED BY <2>1, <3>1, AppendOf
  <2>4. /\ up'[l] = Tail(up[l]) /\ inbox'[l] = Append(inbox[l], Head(up[l]))
        /\ outbox'[l] = outbox[l] /\ down'[l] = down[l]
        /\ \A k \in Links : k # l => SameQueues(k)
    BY <1>3, <2>1 DEF SameQueues
  <2>5. QueueTypes'
    BY <1>3, <2>1, <2>3 DEF QueueTypes
  <2>6. GatewayTypes'
    BY <1>1, <1>3 DEF IInv, TypeInv, GatewayTypes
  <2>7. /\ Flow(up'[l], inbox'[l], outbox'[l], down'[l])
        /\ \A i \in Links : In(up'[l], i) \/ In(inbox'[l], i)
                            <=> In(up[l], i) \/ In(inbox[l], i)
    BY <1>3, <2>1, <2>2, <2>4, FlowForward
  <2>8. runs' = runs
    BY DEF sessionVars
  <2>9. LinkOK(l)'
    BY <1>1, <1>3, <2>2, <2>8 DEF LinkOK, Sent
  <2>10. \A i \in Links : PairOK(l, i)'
    <3>. TAKE i \in Links
    <3>1. PairOK(l, i)
      BY <2>2
    <3>2. /\ Waits(l, i)' <=> Waits(l, i)
          /\ Told(l, i)' <=> Told(l, i)
          /\ Reported(l, i)' <=> Reported(l, i)
          /\ Sent(i)' <=> Sent(i)
          /\ Executing(i, l)' <=> Executing(i, l)
      BY <2>4, <2>7, <2>8 DEF Waits, Told, Reported, Sent, Executing
    <3>3. OwnedBy(target[l], runs[i].notebook)
          => OwnedBy(target[l], runs[i].notebook)'
      BY <1>1, <2>8 DEF OwnedBy, poolVars
    <3>4. Progress(i, runs[i].got, up[l], inbox[l], outbox[l], down[l])
          => Progress(i, runs'[i].got, up'[l], inbox'[l], outbox'[l], down'[l])
      BY <2>4, <2>7, <2>8 DEF Progress
    <3>. QED BY <1>1, <3>1, <3>2, <3>3, <3>4 DEF PairOK
  <2>. QED BY <1>1, <1>3, <2>4, <2>5, <2>6, <2>7, <2>9, <2>10, LinkMoves
<1>. QED BY <1>2, <1>3 DEF ClientToUpstream

\* The gateway forwards a message.
LEMMA UpstreamToClientKeeps ==
  ASSUME IInv, NEW l \in Links, UpstreamToClient(l), UNCHANGED sessionVars
  PROVE  IInv'
<1>1. /\ UNCHANGED poolVars /\ target' = target /\ http' = http /\ bridge' = bridge
      /\ browserEnd' = browserEnd /\ upstreamEnd' = upstreamEnd /\ tasks[l] # {}
  BY DEF UpstreamToClient
<1>2. CASE EndTask(l, "upstream")
  BY <1>1, <1>2, EndTaskKeeps
<1>3. CASE /\ outbox[l] # <<>> /\ browserEnd[l] = "open"
           /\ outbox' = [outbox EXCEPT ![l] = Tail(@)]
           /\ down' = [down EXCEPT ![l] = Append(@, Head(outbox[l]))]
           /\ UNCHANGED <<tasks, up, inbox>>
  <2>1. /\ up \in [Links -> Seq(Links)] /\ inbox \in [Links -> Seq(Links)]
        /\ outbox \in [Links -> Seq(Messages)] /\ down \in [Links -> Seq(Messages)]
        /\ up[l] \in Seq(Links) /\ inbox[l] \in Seq(Links)
        /\ outbox[l] \in Seq(Messages) /\ down[l] \in Seq(Messages)
    BY DEF IInv, TypeInv, QueueTypes
  <2>2. /\ Flow(up[l], inbox[l], outbox[l], down[l]) /\ LinkOK(l)
        /\ \A i \in Links : PairOK(l, i)
    BY DEF IInv, LinkInv, FlowsOK, LinksOK, PairsOK
  <2>3. /\ Tail(outbox[l]) \in Seq(Messages)
        /\ Append(down[l], Head(outbox[l])) \in Seq(Messages)
    <3>1. Head(outbox[l]) \in Messages /\ Tail(outbox[l]) \in Seq(Messages)
      BY <1>3, <2>1, TailOf
    <3>. QED BY <2>1, <3>1, AppendOf
  <2>4. /\ outbox'[l] = Tail(outbox[l])
        /\ down'[l] = Append(down[l], Head(outbox[l]))
        /\ up'[l] = up[l] /\ inbox'[l] = inbox[l]
        /\ \A k \in Links : k # l => SameQueues(k)
    BY <1>3, <2>1 DEF SameQueues
  <2>5. QueueTypes'
    BY <1>3, <2>1, <2>3 DEF QueueTypes
  <2>6. GatewayTypes'
    BY <1>1, <1>3 DEF IInv, TypeInv, GatewayTypes
  <2>7. /\ Flow(up'[l], inbox'[l], outbox'[l], down'[l])
        /\ \A m : In(outbox[l], m) <=> In(outbox'[l], m) \/ m = Head(outbox[l])
        /\ \A m : In(down'[l], m) <=> In(down[l], m) \/ m = Head(outbox[l])
    BY <1>3, <2>1, <2>2, <2>4, FlowReport
  <2>8. runs' = runs
    BY DEF sessionVars
  <2>9. LinkOK(l)'
    BY <1>1, <1>3, <2>2, <2>8 DEF LinkOK, Sent
  <2>10. \A i \in Links : PairOK(l, i)'
    <3>. TAKE i \in Links
    <3>1. PairOK(l, i)
      BY <2>2
    <3>2. /\ Waits(l, i)' <=> Waits(l, i)
          /\ Told(l, i)' => Told(l, i)
          /\ Reported(l, i)' => Reported(l, i) \/ Told(l, i)
          /\ Sent(i)' <=> Sent(i)
          /\ Executing(i, l)' <=> Executing(i, l)
      BY <2>4, <2>7, <2>8 DEF Waits, Told, Reported, Sent, Executing
    <3>3. OwnedBy(target[l], runs[i].notebook)
          => OwnedBy(target[l], runs[i].notebook)'
      BY <1>1, <2>8 DEF OwnedBy, poolVars
    <3>4. Progress(i, runs[i].got, up[l], inbox[l], outbox[l], down[l])
          => Progress(i, runs'[i].got, up'[l], inbox'[l], outbox'[l], down'[l])
      BY <2>4, <2>7, <2>8 DEF Progress
    <3>. QED BY <1>1, <1>3, <3>1, <3>2, <3>3, <3>4 DEF PairOK
  <2>. QED BY <1>1, <1>3, <2>4, <2>5, <2>6, <2>7, <2>9, <2>10, LinkMoves
<1>. QED BY <1>2, <1>3 DEF UpstreamToClient

\* The bridge is closed.
LEMMA CloseUpstreamKeeps ==
  ASSUME IInv, NEW l \in Links, CloseUpstream(l), UNCHANGED sessionVars
  PROVE  IInv'
<1>1. /\ bridge[l] = "closing" /\ bridge' = [bridge EXCEPT ![l] = "closed"]
      /\ upstreamEnd' = [upstreamEnd EXCEPT ![l] = "closed"]
      /\ browserEnd' = [browserEnd EXCEPT ![l] = "closed"]
      /\ up' = [up EXCEPT ![l] = <<>>]
      /\ inbox' = [inbox EXCEPT ![l] = <<>>]
      /\ outbox' = [outbox EXCEPT ![l] = <<>>]
      /\ UNCHANGED poolVars /\ target' = target /\ http' = http /\ tasks' = tasks
      /\ down' = down
  BY DEF CloseUpstream
<1>2. /\ up \in [Links -> Seq(Links)] /\ inbox \in [Links -> Seq(Links)]
      /\ outbox \in [Links -> Seq(Messages)] /\ down \in [Links -> Seq(Messages)]
      /\ bridge \in [Links -> {"none", "lookup", "connect", "open", "closing", "closed"}]
      /\ browserEnd \in [Links -> {"none", "open", "closed"}]
      /\ upstreamEnd \in [Links -> {"none", "open", "closed"}]
  BY DEF IInv, TypeInv, QueueTypes, GatewayTypes
<1>3. <<>> \in Seq(Links) /\ <<>> \in Seq(Messages)
  BY PartOfItself
<1>4. QueueTypes'
  BY <1>1, <1>2, <1>3 DEF QueueTypes
<1>5. GatewayTypes'
  BY <1>1, <1>2 DEF IInv, TypeInv, GatewayTypes
<1>6. \A k \in Links : /\ Part(up'[k], up[k])
                       /\ Part(inbox'[k], inbox[k])
                       /\ Part(outbox'[k], outbox[k])
                       /\ browserEnd'[k] = "open" => browserEnd[k] = "open"
  <2>. TAKE k \in Links
  <2>1. up[k] \in Seq(Links) /\ inbox[k] \in Seq(Links) /\ outbox[k] \in Seq(Messages)
    BY <1>2
  <2>2. /\ Part(up[k], up[k]) /\ Part(<<>>, up[k])
        /\ Part(inbox[k], inbox[k]) /\ Part(<<>>, inbox[k])
        /\ Part(outbox[k], outbox[k]) /\ Part(<<>>, outbox[k])
    BY <2>1, PartOfItself
  <2>3. CASE k = l
    BY <1>1, <1>2, <2>2, <2>3
  <2>4. CASE k # l
    BY <1>1, <1>2, <2>2, <2>4
  <2>. QED BY <2>3, <2>4
<1>7. PoolGrows /\ runs' = runs
  BY <1>1 DEF PoolGrows, poolVars, sessionVars
<1>8. FlowsOK' /\ PairsOK'
  BY <1>1, <1>4, <1>6, <1>7, LossKeeps DEF IInv
<1>9. LinkOK(l)'
  <2>1. LinkOK(l)
    BY DEF IInv, LinkInv, LinksOK
  <2>. QED BY <1>1, <1>2, <1>7, <2>1 DEF LinkOK, Sent
<1>10. /\ \A k \in Links : k # l =>
            /\ SameQueues(k) /\ bridge'[k] = bridge[k] /\ tasks'[k] = tasks[k]
            /\ browserEnd'[k] = browserEnd[k] /\ upstreamEnd'[k] = upstreamEnd[k]
       /\ browserEnd'[l] # "none"
  BY <1>1, <1>2 DEF SameQueues
<1>11. /\ Flow(up'[l], inbox'[l], outbox'[l], down'[l])
       /\ \A i \in Links : PairOK(l, i)'
  BY <1>8 DEF FlowsOK, PairsOK
<1>. QED BY <1>1, <1>4, <1>5, <1>9, <1>10, <1>11, LinkMoves

\* The kernel runs a request.
LEMMA KernelExecutesKeeps ==
  ASSUME IInv, NEW l \in Links, KernelExecutes(l), UNCHANGED sessionVars
  PROVE  IInv'
<1>. DEFINE h == Head(inbox[l])
            r == outbox[l] \o <<Message(h, "output"), Message(h, "done")>>
<1>1. /\ inbox[l] # <<>> /\ inbox' = [inbox EXCEPT ![l] = Tail(@)]
      /\ \/ outbox' = [outbox EXCEPT ![l] = r]
         \/ outbox' = outbox
      /\ UNCHANGED poolVars /\ target' = target /\ http' = http /\ bridge' = bridge
      /\ tasks' = tasks /\ browserEnd' = browserEnd /\ upstreamEnd' = upstreamEnd
      /\ up' = up /\ down' = down
  BY DEF KernelExecutes
<1>2. /\ up \in [Links -> Seq(Links)] /\ inbox \in [Links -> Seq(Links)]
      /\ outbox \in [Links -> Seq(Messages)] /\ down \in [Links -> Seq(Messages)]
      /\ up[l] \in Seq(Links) /\ inbox[l] \in Seq(Links)
      /\ outbox[l] \in Seq(Messages) /\ down[l] \in Seq(Messages)
  BY DEF IInv, TypeInv, QueueTypes
<1>3. /\ Flow(up[l], inbox[l], outbox[l], down[l]) /\ LinkOK(l)
      /\ \A i \in Links : PairOK(l, i)
  BY DEF IInv, LinkInv, FlowsOK, LinksOK, PairsOK
<1>4. /\ h \in Links /\ Tail(inbox[l]) \in Seq(Links) /\ In(inbox[l], h)
      /\ \A x : In(Tail(inbox[l]), x) => In(inbox[l], x)
      /\ Once(Tail(inbox[l]))
  <2>1. Once(inbox[l])
    BY <1>3 DEF Flow
  <2>. QED BY <1>1, <1>2, <2>1, TailOf
<1>5. /\ r \in Seq(Messages) /\ Flow(up[l], Tail(inbox[l]), r, down[l])
      /\ \A x : In(r, x) <=> \/ In(outbox[l], x) \/ x = Message(h, "output")
                             \/ x = Message(h, "done")
      /\ In(inbox[l], h) /\ ~ In(Tail(inbox[l]), h) /\ ~ In(up[l], h)
  <2>. DEFINE u == up[l]
              n == inbox[l]
              o == outbox[l]
              d == down[l]
              a == Answered(o, h)
  <2>1. /\ u \in Seq(Links) /\ n \in Seq(Links) /\ o \in Seq(Messages)
        /\ d \in Seq(Messages) /\ Flow(u, n, o, d) /\ n # <<>>
        /\ h = Head(n)
    BY <1>1, <1>2, <1>3
  <2>. HIDE DEF u, n, o, d, a, h
  <2>2. /\ Answered(o, Head(n)) \in Seq(Messages)
        /\ Flow(u, Tail(n), Answered(o, Head(n)), d)
        /\ \A x : In(Answered(o, Head(n)), x)
                  <=> \/ In(o, x) \/ x = Message(Head(n), "output")
                      \/ x = Message(Head(n), "done")
        /\ In(n, Head(n)) /\ ~ In(Tail(n), Head(n)) /\ ~ In(u, Head(n))
    BY <2>1, FlowExecute
  <2>3. /\ a \in Seq(Messages) /\ Flow(u, Tail(n), a, d)
        /\ \A x : In(a, x) <=> \/ In(o, x) \/ x = Message(h, "output")
                                \/ x = Message(h, "done")
        /\ In(n, h) /\ ~ In(Tail(n), h) /\ ~ In(u, h)
    BY <2>1, <2>2 DEF a
  <2>. QED BY <2>3 DEF u, n, o, d, a, r, Answered
<1>. HIDE DEF h, r
<1>6. /\ inbox'[l] = Tail(inbox[l]) /\ up'[l] = up[l] /\ down'[l] = down[l]
      /\ outbox'[l] = r \/ outbox'[l] = outbox[l]
      /\ \A k \in Links : k # l => SameQueues(k)
  BY <1>1, <1>2 DEF SameQueues
<1>7. QueueTypes'
  <2>1. inbox' \in [Links -> Seq(Links)]
    BY <1>1, <1>2, <1>4
  <2>2. outbox' \in [Links -> Seq(Messages)]
    <3>1. CASE outbox' = [outbox EXCEPT ![l] = r]
      BY <1>2, <1>5, <3>1
    <3>2. CASE outbox' = outbox
      BY <1>2, <3>2
    <3>. QED BY <1>1, <3>1, <3>2
  <2>. QED BY <1>1, <1>2, <2>1, <2>2 DEF QueueTypes
<1>8. GatewayTypes'
  BY <1>1 DEF IInv, TypeInv, GatewayTypes
<1>9. runs' = runs
  BY DEF sessionVars
<1>10. LinkOK(l)'
  BY <1>1, <1>3, <1>9 DEF LinkOK, Sent
<1>11. Flow(up'[l], inbox'[l], outbox'[l], down'[l])
  <2>1. CASE outbox'[l] = r
    BY <1>5, <1>6, <2>1
  <2>2. CASE outbox'[l] = outbox[l]
    BY <1>3, <1>4, <1>6, <2>2 DEF Flow
  <2>. QED BY <1>6, <2>1, <2>2
<1>12. \A i \in Links : PairOK(l, i)'
  <2>. TAKE i \in Links
  <2>1. PairOK(l, i)
    BY <1>3
  <2>2. /\ Waits(l, i)' => Waits(l, i)
        /\ Told(l, i)' => Told(l, i) \/ i = h
        /\ Reported(l, i)' <=> Reported(l, i)
        /\ Sent(i)' <=> Sent(i)
        /\ Executing(i, l)' <=> Executing(i, l)
        /\ i = h => Waits(l, i)
    <3>1. Told(l, i)' => Told(l, i) \/ i = h
      <4>1. i # h => /\ Message(i, "output") \notin {Message(h, "output"), Message(h, "done")}
                     /\ Message(i, "done") \notin {Message(h, "output"), Message(h, "done")}
        BY DEF Message
      <4>. QED BY <1>5, <1>6, <4>1 DEF Told
    <3>. QED BY <1>4, <1>6, <1>9, <3>1 DEF Waits, Reported, Sent, Executing
  <2>3. OwnedBy(target[l], runs[i].notebook)
        => OwnedBy(target[l], runs[i].notebook)'
    BY <1>1, <1>9 DEF OwnedBy, poolVars
  <2>4. Progress(i, runs[i].got, up[l], inbox[l], outbox[l], down[l])
        => Progress(i, runs'[i].got, up'[l], inbox'[l], outbox'[l], down'[l])
    <3>1. CASE outbox'[l] = outbox[l]
      BY <1>4, <1>6, <1>9, <3>1 DEF Progress
    <3>2. CASE outbox'[l] = r /\ i = h
      <4>1. In(outbox'[l], Message(i, "output"))
        BY <1>5, <3>2
      <4>. QED BY <1>4, <1>6, <1>9, <3>2, <4>1 DEF Progress
    <3>3. CASE outbox'[l] = r /\ i # h
      <4>1. /\ Message(i, "output") \notin {Message(h, "output"), Message(h, "done")}
            /\ Message(i, "done") \notin {Message(h, "output"), Message(h, "done")}
        BY <3>3 DEF Message
      <4>2. /\ In(outbox'[l], Message(i, "output")) <=> In(outbox[l], Message(i, "output"))
            /\ In(outbox'[l], Message(i, "done")) <=> In(outbox[l], Message(i, "done"))
        BY <1>5, <3>3, <4>1
      <4>. QED BY <1>4, <1>6, <1>9, <4>2 DEF Progress
    <3>. QED BY <1>6, <3>1, <3>2, <3>3
  <2>. QED BY <1>1, <2>1, <2>2, <2>3, <2>4 DEF PairOK
<1>. QED BY <1>1, <1>6, <1>7, <1>8, <1>10, <1>11, <1>12, LinkMoves

-----------------------------------------------------------------------------
(* The specification. *)

\* Nothing has happened yet.
LEMMA InitIInv == Init => IInv
<1>. SUFFICES ASSUME Init
              PROVE  IInv
  OBVIOUS
<1>1. /\ PoolInit /\ GatewayInit
      /\ page = [notebook |-> FirstNotebook, visit |-> 1, shown |-> None,
                 running |-> None]
      /\ runs = [i \in Links |-> NoRun] /\ stops = [j \in Stops |-> NoStop]
      /\ current = None /\ client = NoClient /\ strayed = FALSE
  BY DEF Init
<1>2. FirstNotebook \in Notebooks
  BY DEF FirstNotebook
<1>3. NoRun \in RunRecords /\ NoRun.phase = "none" /\ NoRun.got = 0
  BY DEF NoRun, RunRecords, Phases
<1>4. NoStop \in StopRecords /\ NoStop.phase = "none"
  BY DEF NoStop, StopRecords
<1>5. <<>> \in Seq(Links) /\ <<>> \in Seq(Messages)
  BY PartOfItself
<1>6. /\ up = [l \in Links |-> <<>>] /\ inbox = [l \in Links |-> <<>>]
      /\ outbox = [l \in Links |-> <<>>] /\ down = [l \in Links |-> <<>>]
  BY <1>1 DEF GatewayInit, Quiet
<1>7. TypeInv
  <2>1. PoolTypes
    BY <1>1 DEF PoolInit, PoolTypes
  <2>2. QueueTypes
    BY <1>5, <1>6 DEF QueueTypes
  <2>3. GatewayTypes
    BY <1>1 DEF GatewayInit, GatewayTypes
  <2>4. SessionTypes
    <3>1. client \in [runtime : Runtimes \union {None}, link : Links \union {None}]
      BY <1>1 DEF NoClient
    <3>2. page \in [notebook : Notebooks, visit : Nat \ {0},
                    shown : Runtimes \union {None}, running : Links \union {None}]
      BY <1>1, <1>2
    <3>3. runs \in [Links -> RunRecords] /\ stops \in [Stops -> StopRecords]
      BY <1>1, <1>3, <1>4
    <3>. QED BY <1>1, <3>1, <3>2, <3>3 DEF SessionTypes
  <2>. QED BY <2>1, <2>2, <2>3, <2>4 DEF TypeInv
<1>8. LinkInv
  <2>1. LinksOK
    BY <1>1, <1>3, <1>6 DEF LinksOK, LinkOK, GatewayInit
  <2>2. RunsOK
    BY <1>1, <1>3 DEF RunsOK, RunOK, Sent, Over
  <2>3. ClientOK
    BY <1>1 DEF ClientOK, NoClient
  <2>4. FlowsOK
    BY <1>6, FlowEmpty DEF FlowsOK
  <2>5. PairsOK
    <3>. SUFFICES ASSUME NEW l \in Links, NEW i \in Links
                  PROVE  PairOK(l, i)
      BY DEF PairsOK
    <3>1. ~ Executing(i, l)
      BY <1>1, <1>3 DEF Executing
    <3>2. ~ Waits(l, i) /\ ~ Told(l, i) /\ ~ Reported(l, i)
      BY <1>6, EmptyOf DEF Waits, Told, Reported
    <3>. QED BY <3>1, <3>2 DEF PairOK
  <2>. QED BY <2>1, <2>2, <2>3, <2>4, <2>5 DEF LinkInv
<1>9. PageInv
  BY <1>1, <1>3, <1>4 DEF PageInv, RunningOK, CurrentOK, TogetherOK, Over
<1>. QED BY <1>7, <1>8, <1>9 DEF IInv

\* A step of the gateway on a link.
LEMMA GatewayKeeps ==
  ASSUME IInv, NEW l \in Links, GatewayStep(l), UNCHANGED sessionVars
  PROVE  IInv'
<1>1. CASE ProxyLookup(l) \/ ProxyForward(l)
  BY <1>1, ProxyKeeps
<1>2. CASE BridgeLookup(l) \/ BridgeConnect(l) \/ FirstCompleted(l)
  BY <1>2, BridgeKeeps
<1>3. CASE ClientToUpstream(l)
  BY <1>3, ClientToUpstreamKeeps
<1>4. CASE UpstreamToClient(l)
  BY <1>4, UpstreamToClientKeeps
<1>5. CASE CloseUpstream(l)
  BY <1>5, CloseUpstreamKeeps
<1>. QED BY <1>1, <1>2, <1>3, <1>4, <1>5 DEF GatewayStep

\* No step disturbs the invariant.
LEMMA StepIInv == IInv /\ [Next]_vars => IInv'
<1>. SUFFICES ASSUME IInv, [Next]_vars
              PROVE  IInv'
  OBVIOUS
<1>1. ASSUME SystemStep
      PROVE  IInv'
  <2>1. ASSUME NEW l \in Links, GatewayStep(l), UNCHANGED sessionVars
        PROVE  IInv'
    BY <2>1, GatewayKeeps
  <2>2. ASSUME NEW l \in Links, KernelExecutes(l), UNCHANGED sessionVars
        PROVE  IInv'
    BY <2>2, KernelExecutesKeeps
  <2>3. ASSUME NEW l \in Links, KernelStarted(l)
        PROVE  IInv'
    BY <2>3, KernelStartedKeeps
  <2>4. ASSUME NEW l \in Links, KernelFails(l)
        PROVE  IInv'
    BY <2>4, CallFailsKeeps
  <2>5. ASSUME NEW l \in Links, Receive(l)
        PROVE  IInv'
    BY <2>5, ReceiveKeeps
  <2>6. ASSUME NEW r \in Runtimes, Healthy(r)
        PROVE  IInv'
    BY <2>6, HealthyKeeps
  <2>. QED BY <1>1, <2>1, <2>2, <2>3, <2>4, <2>5, <2>6 DEF SystemStep
<1>2. ASSUME NEW i \in Links,
             \/ ClickRun(i) \/ HandlePost(i) \/ LatePost(i) \/ HandlePoll(i)
             \/ StillStarting(i) \/ PollEnds(i) \/ EnsureReadyFails(i)
             \/ ReuseKernel(i) \/ StartKernel(i)
      PROVE  IInv'
  <2>1. CASE ClickRun(i)
    BY <2>1, ClickRunKeeps
  <2>2. CASE HandlePost(i)
    BY <2>2, HandlePostKeeps
  <2>3. CASE LatePost(i)
    BY <2>3, LatePostKeeps
  <2>7. CASE HandlePoll(i)
    BY <2>7, HandlePollKeeps
  <2>8. CASE StillStarting(i)
    BY <2>8, StillStartingKeeps
  <2>4. CASE EnsureReadyFails(i) \/ PollEnds(i)
    BY <2>4, CallFailsKeeps
  <2>5. CASE ReuseKernel(i)
    BY <2>5, ReuseKernelKeeps
  <2>6. CASE StartKernel(i)
    BY <2>6, StartKernelKeeps
  <2>. QED BY <1>2, <2>1, <2>2, <2>3, <2>4, <2>5, <2>6, <2>7, <2>8
<1>3. ASSUME NEW j \in Stops,
             \/ ClickStop(j) \/ HandleStop(j) \/ LateStop(j)
             \/ StopArrives(j) \/ StopFails(j)
      PROVE  IInv'
  <2>1. CASE ClickStop(j)
    BY <2>1, ClickStopKeeps
  <2>2. CASE HandleStop(j)
    BY <2>2, HandleStopKeeps
  <2>3. CASE StopArrives(j)
    BY <2>3, StopArrivesKeeps
  <2>4. CASE StopFails(j)
    BY <2>4, StopFailsKeeps
  <2>5. CASE LateStop(j)
    BY <2>5, LateStopKeeps
  <2>. QED BY <1>3, <2>1, <2>2, <2>3, <2>4, <2>5
<1>4. ASSUME NEW n \in Notebooks, Visit(n)
      PROVE  IInv'
  BY <1>4, VisitKeeps
<1>5. ASSUME NEW r \in Mortal, Dies(r)
      PROVE  IInv'
  <2>1. r \in Runtimes
    OBVIOUS
  <2>. QED BY <1>5, <2>1, DiesKeeps
<1>6. CASE UNCHANGED vars
  <2>1. UNCHANGED poolVars /\ UNCHANGED gatewayVars /\ UNCHANGED sessionVars
    BY <1>6 DEF vars
  <2>2. PoolTypes' /\ PoolGrows
    BY <2>1, PoolStep DEF IInv, TypeInv
  <2>3. QueueTypes' /\ GatewayTypes' /\ LinkInv'
    BY <2>1, <2>2, LinksAlone DEF IInv, sessionVars
  <2>4. SessionTypes' /\ PageInv'
    BY <2>1, <2>2, PageAlone DEF IInv
  <2>. QED BY <2>2, <2>3, <2>4 DEF IInv, TypeInv
<1>. QED BY <1>1, <1>2, <1>3, <1>4, <1>5, <1>6 DEF Next

\* What is on its way on a link and what the runs have got belong together, in
\* every reachable state of any size.
THEOREM Invariance == Spec => []IInv
<1>. QED BY InitIInv, StepIInv, PTL DEF Spec

\* Bridges have connections, their tasks run while they are open, and what is
\* shown as running is a call that is.
THEOREM TypeCorrect == Spec => []TypeOK
<1>1. IInv => TypeOK
  <2>. SUFFICES ASSUME IInv
                PROVE  TypeOK
    OBVIOUS
  <2>1. \A l \in Links :
          /\ bridge[l] = "none" <=> browserEnd[l] = "none"
          /\ tasks[l] # {} => bridge[l] = "open"
          /\ bridge[l] \in {"open", "closing"} => upstreamEnd[l] # "none"
          /\ http[l] # "none" <=> runs[l].phase = "starting"
    BY DEF IInv, LinkInv, LinksOK, LinkOK
  <2>2. current \in {r \in Runtimes : phase[r] # "absent"} \union {None}
    BY DEF IInv, TypeInv, SessionTypes, PageInv, CurrentOK
  <2>. QED BY <2>1, <2>2
           DEF TypeOK, IInv, LinkInv, ClientOK, PageInv, RunningOK
<1>. QED BY <1>1, Invariance, PTL

\* The code of a notebook runs in a runtime of that notebook only, whatever
\* pages are visited during which calls.
THEOREM OwnRuntime == Spec => []RunsInOwnRuntime
<1>1. IInv => RunsInOwnRuntime
  <2>. SUFFICES ASSUME IInv, NEW l \in Links, NEW k \in 1 .. Len(inbox[l])
                PROVE  owner[target[l]] = runs[inbox[l][k]].notebook
    BY DEF RunsInOwnRuntime
  <2>1. inbox[l] \in Seq(Links)
    BY DEF IInv, TypeInv, QueueTypes
  <2>2. inbox[l][k] \in Links /\ In(inbox[l], inbox[l][k])
    BY <2>1 DEF In
  <2>3. Waits(l, inbox[l][k]) /\ PairOK(l, inbox[l][k])
    BY <2>2 DEF Waits, IInv, LinkInv, PairsOK
  <2>. QED BY <2>3 DEF PairOK, OwnedBy
<1>. QED BY <1>1, Invariance, PTL

\* A run that succeeds has collected the output of its kernel.
THEOREM CompleteResults == Spec => []ResultsComplete
<1>1. IInv => ResultsComplete
  BY DEF IInv, LinkInv, RunsOK, RunOK, ResultsComplete
<1>. QED BY <1>1, Invariance, PTL

\* A Stop that succeeds has removed the runtime its page showed, unless a page
\* was left during a call.
THEOREM StopsShown == Spec => []StopStopsShown
<1>1. IInv => StopStopsShown
  BY DEF IInv, PageInv, TogetherOK, StopStopsShown
<1>. QED BY <1>1, Invariance, PTL
-----------------------------------------------------------------------------
(* The session and the pool it is composed with. *)

\* One operation of the pool keeps what it promises: a second container of a
\* notebook is not launched, and what is gone is not launched again.
LEMMA PoolPromiseStep ==
  ASSUME PoolTypes, OneAlive, StoppedAreGone, stopped \subseteq Runtimes,
         [PoolNext]_poolVars
  PROVE  PoolTypes' /\ OneAlive' /\ StoppedAreGone' /\ stopped' \subseteq Runtimes
<1>1. CASE UNCHANGED poolVars
  BY <1>1 DEF poolVars, PoolTypes, OneAlive, StoppedAreGone, Alive
<1>2. ASSUME NEW r \in Runtimes, NEW n \in Notebooks, Launch(n, r)
      PROVE  PoolTypes' /\ OneAlive' /\ StoppedAreGone' /\ stopped' \subseteq Runtimes
  <2>1. PoolTypes' /\ stopped' = stopped /\ phase[r] = "absent"
    BY <1>2 DEF Launch, PoolTypes
  <2>2. /\ \A s \in Runtimes : s # r => phase'[s] = phase[s] /\ owner'[s] = owner[s]
        /\ owner'[r] = n
        /\ \A s \in Runtimes : owner[s] = n => ~ Alive(s)
    BY <1>2 DEF Launch, PoolTypes
  <2>3. OneAlive'
    BY <2>2 DEF OneAlive, Alive
  <2>4. StoppedAreGone'
    BY <2>1, <2>2 DEF StoppedAreGone
  <2>. QED BY <2>1, <2>3, <2>4
<1>3. ASSUME NEW r \in Runtimes,
             BecomesHealthy(r) \/ BecomesUnhealthy(r) \/ Vanishes(r) \/ ReportStopped(r)
      PROVE  PoolTypes' /\ OneAlive' /\ StoppedAreGone' /\ stopped' \subseteq Runtimes
  <2>1. PoolTypes' /\ owner' = owner /\ stopped' \subseteq Runtimes
    BY <1>3 DEF BecomesHealthy, BecomesUnhealthy, Vanishes, ReportStopped, PoolTypes
  <2>2. /\ \A s \in Runtimes : phase'[s] \in {"starting", "healthy"} => Alive(s)
        /\ \A s \in Runtimes : phase[s] = "gone" => phase'[s] = "gone"
        /\ \A s \in stopped' : s \in stopped \/ phase'[s] = "gone"
    BY <1>3 DEF BecomesHealthy, BecomesUnhealthy, Vanishes, ReportStopped, Alive, PoolTypes
  <2>3. OneAlive'
    BY <2>1, <2>2 DEF OneAlive, Alive
  <2>4. StoppedAreGone'
    BY <2>2 DEF StoppedAreGone
  <2>. QED BY <2>1, <2>3, <2>4
<1>. QED BY <1>1, <1>2, <1>3 DEF PoolNext

\* Whoever implements the pool never has two containers of one notebook, nor one
\* of a runtime reported as stopped.
THEOREM PoolPromises == PoolSpec => [](OneAlive /\ StoppedAreGone)
<1>. DEFINE Promise == PoolTypes /\ OneAlive /\ StoppedAreGone /\ stopped \subseteq Runtimes
<1>1. PoolInit => Promise
  BY DEF PoolInit, PoolTypes, OneAlive, StoppedAreGone, Alive
<1>2. Promise /\ [PoolNext]_poolVars => Promise'
  BY PoolPromiseStep
<1>3. Promise => OneAlive /\ StoppedAreGone
  OBVIOUS
<1>. HIDE DEF Promise
<1>. QED BY <1>1, <1>2, <1>3, PTL DEF PoolSpec

\* To the pool every step of the session is one of its operations or none.
LEMMA StepIsPoolStep == IInv /\ [Next]_vars => [PoolNext]_poolVars
<1>. SUFFICES ASSUME IInv, [Next]_vars
              PROVE  [PoolNext]_poolVars
  OBVIOUS
<1>1. ASSUME NEW i \in Links, HandlePost(i) \/ LatePost(i)
      PROVE  [PoolNext]_poolVars
  <2>1. runs[i].notebook \in Notebooks
    BY <1>1 DEF HandlePost, LatePost, IInv, LinkInv, RunsOK, RunOK
  <2>2. \E r \in Runtimes : CreateRuntime(runs[i].notebook, r)
    BY <1>1 DEF HandlePost, LatePost
  <2>. QED BY <2>1, <2>2 DEF CreateRuntime, PoolNext
<1>2. ASSUME NEW j \in Stops, HandleStop(j) \/ LateStop(j) \/ StopArrives(j)
      PROVE  [PoolNext]_poolVars
  <2>1. stops[j].runtime \in Runtimes
    BY <1>2 DEF HandleStop, LateStop, StopArrives, IInv, TypeInv, SessionTypes,
                StopRecords
  <2>2. \/ DeleteRuntime(stops[j].runtime)
        \/ ReportStopped(stops[j].runtime)
    BY <1>2 DEF HandleStop, LateStop, StopArrives
  <2>. QED BY <2>1, <2>2 DEF DeleteRuntime, PoolNext
<1>3. ASSUME NEW r \in Runtimes, Healthy(r) \/ Dies(r)
      PROVE  [PoolNext]_poolVars
  BY <1>3 DEF Healthy, Dies, PoolNext
<1>4. ASSUME NEW l \in Links,
             \/ GatewayStep(l) \/ KernelExecutes(l)
             \/ KernelStarted(l) \/ KernelFails(l) \/ Receive(l)
      PROVE  UNCHANGED poolVars
  BY <1>4 DEF GatewayStep, ProxyLookup, ProxyForward, BridgeLookup, BridgeConnect,
              ClientToUpstream, UpstreamToClient, FirstCompleted, CloseUpstream,
              KernelExecutes, KernelStarted, KernelFails, Receive
<1>5. ASSUME NEW i \in Links,
             \/ ClickRun(i) \/ HandlePoll(i) \/ StillStarting(i) \/ PollEnds(i)
             \/ EnsureReadyFails(i) \/ ReuseKernel(i) \/ StartKernel(i)
      PROVE  UNCHANGED poolVars
  BY <1>5 DEF ClickRun, HandlePoll, StillStarting, PollEnds, EnsureReadyFails,
              ReuseKernel, StartKernel
<1>6. ASSUME NEW j \in Stops, ClickStop(j) \/ StopFails(j)
      PROVE  UNCHANGED poolVars
  BY <1>6 DEF ClickStop, StopFails
<1>7. ASSUME NEW n \in Notebooks, Visit(n)
      PROVE  UNCHANGED poolVars
  BY <1>7 DEF Visit
<1>8. Mortal \subseteq Runtimes
  BY SessionAssumption
<1>9. CASE UNCHANGED vars
  BY <1>9 DEF vars
<1>. QED BY <1>1, <1>2, <1>3, <1>4, <1>5, <1>6, <1>7, <1>8, <1>9 DEF Next, SystemStep

\* What portal, gateway and containers do to the runtimes is what the pool allows, for
\* any notebooks, runtimes, runs and Stops.
THEOREM RespectsPool == Spec => PoolSpec
<1>1. Init => PoolInit
  BY DEF Init
<1>. QED BY <1>1, StepIsPoolStep, Invariance, PTL DEF Spec, PoolSpec
=============================================================================
