---------------------------- MODULE PRServProofs ----------------------------
(***************************************************************************)
(* Proofs about PRServ, for any clients, packages, checksums, signals and  *)
(* deaths.  The heart of the argument is Synced: a row that is not on disk *)
(* makes the table dirty until the handler thread has committed, so a      *)
(* server that ends in order has nothing to lose, and what an answer rests *)
(* on survives its restart.  First comes no-history mode, then what holds  *)
(* in both modes when the server is killed, then history mode.             *)
(***************************************************************************)
EXTENDS PRServ, FiniteSetTheorems, TLAPS

(* The invariant holds initially.                                          *)
LEMMA InitInv == Init => PRInv
<1> SUFFICES ASSUME Init PROVE PRInv
  OBVIOUS
<1>1. rows \in Tables /\ committed \in Tables
  BY DEF Init, NoRows, Tables
<1>2. issued = <<>> /\ queue = <<>>
  BY DEF Init
<1>3. TypeOK
  <2>1. /\ queue \in Seq(Clients) /\ issued \in Seq(Answers)
        /\ request \in [Clients -> Requests \cup {Nothing}]
        /\ asked \in [Clients -> {"no", "sent", "queued", "gone"}]
    BY <1>2 DEF Init
  <2> QED BY <1>1, <2>1 DEF Init, TypeOK
<1>4. Served /\ Synced /\ Ready
  BY <1>2 DEF Init, Served, Synced, Ready
<1>5. Reached /\ NeverDecremented
  BY <1>2 DEF Reached, NeverDecremented
<1> QED BY <1>3, <1>4, <1>5 DEF PRInv

(* Putting a natural number in the table.                                  *)
LEMMA TypePut ==
  ASSUME rows \in Tables, NEW p \in Pkgs, NEW s \in Sums, NEW v \in Nat,
         Put(p, s, v)
  PROVE  rows' \in Tables /\ result' \in Nat /\ inTx' \in BOOLEAN
<1>1. [rows[p] EXCEPT ![s] = v] \in [Sums -> Nat \cup {-1}]
  BY DEF Tables
<1>2. rows' = [rows EXCEPT ![p] = [rows[p] EXCEPT ![s] = v]]
  BY DEF Put, Tables
<1> QED BY <1>1, <1>2 DEF Put, Tables

(* A row of the table.                                                     *)
LEMMA Row ==
  ASSUME rows \in Tables, NEW p \in Pkgs, NEW s \in Sums
  PROVE  /\ rows[p][s] \in Nat \cup {-1} /\ rows[p][s] + 1 \in Nat
         /\ rows[p][s] # -1 => rows[p][s] \in Nat
  BY DEF Tables

(* A value put in the table is a natural number, and so is any answer.     *)
LEMMA TypeServe ==
  ASSUME TypeOK, NEW p \in Pkgs, NEW s \in Sums,
         \/ getValue(p, s)
         \/ \E v \in Imports : importone(p, s, v)
  PROVE  /\ rows' \in Tables /\ result' \in Nat
         /\ inTx' \in BOOLEAN /\ dirty' \in BOOLEAN
         /\ UNCHANGED <<committed, quit>>
<1>1. CASE getValue(p, s)
  <2>1. CASE Known(p, s)
    BY <1>1, <2>1, Row DEF TypeOK, getValue, Known
  <2>2. CASE ~Known(p, s)
    <3>1. PICK v \in Fresh(p) : Put(p, s, v)
      BY <1>1, <2>2 DEF getValue
    <3>2. v \in Nat
      BY Row DEF TypeOK, Fresh, Highest
    <3> QED BY <1>1, <2>2, <3>1, <3>2, TypePut DEF TypeOK, getValue
  <2> QED BY <2>1, <2>2
<1>2. CASE \E v \in Imports : importone(p, s, v)
  <2>1. PICK v \in Imports : importone(p, s, v)
    BY <1>2
  <2>2. v \in Nat
    BY ImportsType
  <2>3. CASE Put(p, s, v)
    BY <2>1, <2>2, <2>3, TypePut DEF TypeOK, importone, ImportDirties
  <2>4. CASE rows[p][s] # -1 /\ ~Put(p, s, v)
    BY <2>1, <2>4, Row, ModeType DEF TypeOK, importone, ImportDirties
  <2>5. rows[p][s] = -1 => Put(p, s, v)
    BY <2>1 DEF importone
  <2> QED BY <2>3, <2>4, <2>5
<1> QED BY <1>1, <1>2

(* The operations of a request.                                            *)
LEMMA Ops ==
  ASSUME NEW r \in Requests
  PROVE  /\ r.op = "get" => r.pkg \in Pkgs /\ r.sum \in Sums
         /\ r.op = "import" =>
              r.pkg \in Pkgs /\ r.sum \in Sums /\ r.value \in Imports
         /\ r.op \in {"get", "import", "dump", "quit"}
  BY ControlsType DEF Requests

(* A client in the server has a request.                                   *)
LEMMA NothingOp == Nothing.op = "nothing"
  BY DEF Nothing

(* The handler thread's steps keep the types.                              *)
LEMMA TypeThread == TypeOK /\ Thread => TypeOK'
<1> SUFFICES ASSUME TypeOK, Thread PROVE TypeOK'
  OBVIOUS
<1> USE DEF table, client, signal
<1>1. CASE ThreadCheck
  BY <1>1 DEF TypeOK, ThreadCheck
<1>2. CASE Take
  BY <1>2 DEF TypeOK, Take, AfterRequest
<1>3. CASE Serve
  <2> DEFINE r == request[serving]
  <2>1. r \in Requests \cup {Nothing}
    BY DEF TypeOK
  <2>2. /\ rows' \in Tables /\ result' \in Nat /\ inTx' \in BOOLEAN
        /\ dirty' \in BOOLEAN /\ quit' \in BOOLEAN /\ committed' \in Tables
    <3>1. CASE r.op = "get" /\ getValue(r.pkg, r.sum)
      <4>1. r.pkg \in Pkgs /\ r.sum \in Sums
        BY <2>1, <3>1, Ops, NothingOp
      <4> QED BY <3>1, <4>1, TypeServe DEF TypeOK
    <3>2. CASE r.op = "import" /\ importone(r.pkg, r.sum, r.value)
      <4>1. r.pkg \in Pkgs /\ r.sum \in Sums /\ r.value \in Imports
        BY <2>1, <3>2, Ops, NothingOp
      <4> QED BY <3>2, <4>1, TypeServe DEF TypeOK
    <3>3. CASE dump_db \/ (quit' = TRUE /\ UNCHANGED <<table, result>>)
      BY <3>3 DEF TypeOK, dump_db
    <3> QED BY <1>3, <3>1, <3>2, <3>3 DEF Serve
  <2> QED BY <1>3, <2>2 DEF TypeOK, Serve
<1>4. CASE Reply
  <2>1. issued' \in Seq(Answers)
    <3>1. CASE asked[serving] = "queued" /\ request[serving].op = "get"
      <4>1. request[serving].pkg \in Pkgs /\ request[serving].sum \in Sums
        BY <3>1, Ops, NothingOp DEF TypeOK
      <4>2. Answer \in Answers
        BY <4>1 DEF TypeOK, Answer, Answers
      <4> QED BY <1>4, <3>1, <4>2 DEF TypeOK, Reply
    <3> QED BY <1>4, <3>1 DEF TypeOK, Reply
  <2> QED BY <1>4, <2>1 DEF TypeOK, Reply, Settle, AfterRequest
<1>5. CASE ReplyFails
  BY <1>5 DEF TypeOK, ReplyFails, Settle
<1>6. CASE ThreadCommit
  BY <1>6 DEF TypeOK, ThreadCommit, commit
<1>7. CASE ThreadBegin
  BY <1>7 DEF TypeOK, ThreadBegin, begin, AfterRequest
<1> QED BY <1>1, <1>2, <1>3, <1>4, <1>5, <1>6, <1>7 DEF Thread

(* So do the main thread's and the environment's.                          *)
LEMMA TypeOther == TypeOK /\ (Main \/ Environment) => TypeOK'
<1> SUFFICES ASSUME TypeOK, Main \/ Environment PROVE TypeOK'
  OBVIOUS
<1> USE DEF table, client, thread, signal
<1>1. CASE MainCheck \/ NoRequest \/ Start
  BY <1>1 DEF TypeOK, MainCheck, NoRequest, Start
<1>2. ASSUME NEW c \in Clients, Accept(c) PROVE TypeOK'
  BY <1>2 DEF TypeOK, Accept
<1>3. CASE Join \/ Crash
  <2>1. Gone /\ crashes' \in Nat
    BY <1>3 DEF TypeOK, Join, Crash
  <2>2. /\ request' \in [Clients -> Requests \cup {Nothing}]
        /\ asked' \in [Clients -> {"no", "sent", "queued", "gone"}]
        /\ queue' \in Seq(Clients)
    BY <2>1 DEF Gone
  <2> QED BY <2>1, <2>2 DEF TypeOK, Gone
<1>4. CASE Signal \/ SignalCommit \/ SignalBegin
  <2>1. CASE Signal
    BY <2>1 DEF TypeOK, Signal
  <2>2. CASE SignalCommit
    BY <2>2 DEF TypeOK, SignalCommit, commit
  <2>3. CASE SignalBegin
    <3>1. quit' \in BOOLEAN
      BY <2>3 DEF TypeOK, SignalBegin
    <3> QED BY <2>3, <3>1 DEF TypeOK, SignalBegin, begin
  <2> QED BY <1>4, <2>1, <2>2, <2>3
<1>5. ASSUME NEW c \in Clients, Send(c) PROVE TypeOK'
  BY <1>5 DEF TypeOK, Send
<1>6. ASSUME NEW c \in Clients, GiveUp(c) PROVE TypeOK'
  BY <1>6 DEF TypeOK, GiveUp
<1> QED BY <1>1, <1>2, <1>3, <1>4, <1>5, <1>6 DEF Main, Environment

(* No step puts a client in the queue twice, or forgets one in it.         *)
LEMMA ServedStep == TypeOK /\ Served /\ Next => Served'
<1> SUFFICES ASSUME TypeOK, Served, Next PROVE Served'
  OBVIOUS
<1> USE DEF table, client, thread, signal
<1>1. CASE Take
  <2>1. CASE queue = <<>>
    BY <1>1, <2>1 DEF TypeOK, Served, Take, AfterRequest
  <2>2. CASE queue # <<>>
    <3>1. /\ serving' = queue[1] /\ queue' = Tail(queue)
          /\ th' = "serve" /\ asked' = asked
      BY <1>1, <2>2 DEF TypeOK, Take
    <3>2. /\ Len(queue) \in Nat /\ Len(queue') = Len(queue) - 1
          /\ \A i \in 1 .. Len(queue') :
               /\ queue'[i] = queue[i + 1] /\ i + 1 \in 1 .. Len(queue)
               /\ i + 1 # 1
          /\ 1 \in 1 .. Len(queue)
      BY <2>2, <3>1 DEF TypeOK
    <3> QED BY <3>1, <3>2 DEF Served
  <2> QED BY <2>1, <2>2
<1>2. CASE ThreadCheck \/ ThreadCommit \/ ThreadBegin
  BY <1>2 DEF TypeOK, Served, ThreadCheck, ThreadCommit, ThreadBegin,
              AfterRequest
<1>3. CASE Serve
  BY <1>3 DEF TypeOK, Served, Serve
<1>4. CASE Reply \/ ReplyFails
  BY <1>4 DEF TypeOK, Served, Reply, ReplyFails, Settle, AfterRequest
<1>5. ASSUME NEW c \in Clients, Accept(c) PROVE Served'
  <2> DEFINE n == Len(queue)
  <2>1. /\ asked[c] = "sent" /\ asked' = [asked EXCEPT ![c] = "queued"]
        /\ queue' = Append(queue, c) /\ UNCHANGED <<th, serving>>
    BY <1>5 DEF Accept
  <2>2. /\ n \in Nat /\ Len(queue') = n + 1 /\ queue'[n + 1] = c
        /\ \A i \in 1 .. n : queue'[i] = queue[i] /\ queue[i] \in Clients
    BY <2>1 DEF TypeOK
  <2>3. \A i \in 1 .. n : queue[i] # c
    BY <2>1 DEF Served
  <2>4. \A i \in 1 .. n + 1 : i = n + 1 \/ i \in 1 .. n
    BY <2>2
  <2>5. /\ asked'[c] = "queued"
        /\ \A b \in Clients : b # c => asked'[b] = asked[b]
    BY <2>1 DEF TypeOK
  <2>6. \A i \in 1 .. n + 1 : asked'[queue'[i]] \in {"queued", "gone"}
    BY <2>2, <2>3, <2>4, <2>5 DEF Served
  <2>7. \A i, j \in 1 .. n + 1 : queue'[i] = queue'[j] => i = j
    BY <2>2, <2>3, <2>4 DEF Served
  <2>8. th \in {"serve", "reply"} =>
          /\ asked'[serving] \in {"queued", "gone"}
          /\ \A i \in 1 .. n + 1 : queue'[i] # serving
    BY <2>1, <2>2, <2>4, <2>5 DEF TypeOK, Served
  <2> QED BY <2>1, <2>2, <2>6, <2>7, <2>8 DEF Served
<1>6. CASE Join \/ Crash
  BY <1>6 DEF TypeOK, Served, Join, Crash, Gone
<1>7. CASE MainCheck \/ NoRequest \/ Signal \/ SignalCommit \/ SignalBegin
           \/ Start
  BY <1>7 DEF Served, MainCheck, NoRequest, Signal, SignalCommit,
              SignalBegin, Start
<1>8. ASSUME NEW c \in Clients, Send(c) \/ GiveUp(c) PROVE Served'
  BY <1>8 DEF TypeOK, Served, Send, GiveUp
<1> QED BY <1>1, <1>2, <1>3, <1>4, <1>5, <1>6, <1>7, <1>8
        DEF Next, Thread, Main, Environment

(* Whatever changes a row makes the table dirty, and a commit comes before *)
(* the handler thread waits, ends or serves again.                         *)
LEMMA SyncedStep == TypeOK /\ Synced /\ Next => Synced'
<1> SUFFICES ASSUME TypeOK, Synced, Next PROVE Synced'
  OBVIOUS
<1> USE DEF table, client, thread, signal
<1>1. CASE ThreadCheck \/ Take
  BY <1>1 DEF TypeOK, Synced, ThreadCheck, Quitting, Take, AfterRequest
<1>2. CASE Serve
  <2>1. ASSUME NEW p, NEW s, getValue(p, s)
        PROVE  dirty' = TRUE \/ UNCHANGED <<rows, dirty, committed>>
    BY <2>1 DEF getValue
  <2>2. ASSUME NEW p, NEW s, NEW v, importone(p, s, v)
        PROVE  dirty' = TRUE \/ UNCHANGED <<rows, dirty, committed>>
    BY <2>2 DEF importone, ImportDirties
  <2>3. \/ dirty' = TRUE
        \/ UNCHANGED <<rows, dirty, committed>>
        \/ committed' = rows /\ UNCHANGED <<rows, dirty>>
    BY <1>2, <2>1, <2>2 DEF Serve, dump_db
  <2> QED BY <1>2, <2>3 DEF TypeOK, Synced, Serve
<1>3. CASE Reply \/ ReplyFails
  BY <1>3 DEF TypeOK, Synced, Reply, ReplyFails, AfterRequest
<1>4. CASE ThreadCommit
  BY <1>4 DEF TypeOK, Synced, ThreadCommit, commit
<1>5. CASE ThreadBegin
  BY <1>5 DEF TypeOK, Synced, ThreadBegin, begin, AfterRequest
<1>6. CASE Join \/ Crash \/ Start
  BY <1>6 DEF TypeOK, Synced, Join, Crash, Gone, Start
<1>7. CASE MainCheck \/ NoRequest
  BY <1>7 DEF TypeOK, Synced, MainCheck, NoRequest
<1>8. CASE Signal \/ SignalCommit \/ SignalBegin
  BY <1>8 DEF TypeOK, Synced, Signal, SignalCommit, SignalBegin, commit,
              begin
<1>9. ASSUME NEW c \in Clients, Accept(c) \/ Send(c) \/ GiveUp(c)
      PROVE  Synced'
  BY <1>9 DEF TypeOK, Synced, Accept, Send, GiveUp
<1> QED BY <1>1, <1>2, <1>3, <1>4, <1>5, <1>6, <1>7, <1>8, <1>9
        DEF Next, Thread, Main, Environment

(* The rows of a request being served only grow.                           *)
LEMMA Grows ==
  ASSUME TypeOK, NEW p \in Pkgs, NEW s \in Sums,
         \/ getValue(p, s)
         \/ \E v \in Imports : importone(p, s, v)
  PROVE  \A q \in Pkgs, u \in Sums : rows[q][u] <= rows'[q][u]
<1> SUFFICES ASSUME NEW q \in Pkgs, NEW u \in Sums
             PROVE  rows[q][u] <= rows'[q][u]
  OBVIOUS
<1>1. ASSUME NEW v \in Nat, Put(p, s, v), rows[p][s] <= v
      PROVE  rows[q][u] <= rows'[q][u]
  <2>1. rows[q][u] \in Int
    BY Row DEF TypeOK
  <2>2. rows'[q][u] = IF q = p /\ u = s THEN v ELSE rows[q][u]
    BY <1>1 DEF TypeOK, Tables, Put
  <2> QED BY <1>1, <2>1, <2>2
<1>2. CASE getValue(p, s)
  <2>1. CASE Known(p, s)
    BY <1>2, <2>1, Row DEF TypeOK, getValue
  <2>2. CASE ~Known(p, s)
    <3>1. PICK v \in Fresh(p) : Put(p, s, v)
      BY <1>2, <2>2 DEF getValue
    <3>2. PICK t \in Sums : /\ v = rows[p][t] + 1
                           /\ rows[p][s] <= rows[p][t]
      BY DEF Fresh, Highest
    <3>3. rows[p][t] \in Int /\ rows[p][s] \in Int /\ v \in Nat
      BY <3>2, Row DEF TypeOK
    <3> QED BY <1>1, <3>1, <3>2, <3>3
  <2> QED BY <2>1, <2>2
<1>3. CASE \E v \in Imports : importone(p, s, v)
  <2>1. PICK v \in Imports : importone(p, s, v)
    BY <1>3
  <2>2. v \in Nat
    BY ImportsType
  <2>3. CASE Put(p, s, v) /\ (rows[p][s] = -1 \/ rows[p][s] < v)
    BY <1>1, <2>2, <2>3, Row DEF TypeOK
  <2>4. CASE UNCHANGED rows
    BY <2>4, Row DEF TypeOK
  <2> QED BY <2>1, <2>3, <2>4 DEF importone
<1> QED BY <1>2, <1>3

(* What getValue answers is the highest row.                               *)
LEMMA GetsHighest ==
  ASSUME TypeOK, NoHist, NEW p \in Pkgs, NEW s \in Sums, getValue(p, s)
  PROVE  result' = rows'[p][s] /\ \A u \in Sums : rows'[p][u] <= rows'[p][s]
<1>1. CASE Known(p, s)
  BY <1>1 DEF getValue, Known, Highest
<1>2. CASE ~Known(p, s)
  <2>1. PICK v \in Fresh(p) : Put(p, s, v)
    BY <1>2 DEF getValue
  <2>2. v \in Nat /\ \A u \in Sums : rows[p][u] <= v
    <3>1. PICK t \in Sums : /\ v = rows[p][t] + 1
                           /\ \A u \in Sums : rows[p][u] <= rows[p][t]
      BY DEF Fresh, Highest
    <3>2. rows[p][t] \in Int /\ v \in Nat
      BY <3>1, Row DEF TypeOK
    <3>3. ASSUME NEW u \in Sums PROVE rows[p][u] <= v
      <4>1. rows[p][u] \in Int /\ rows[p][u] <= rows[p][t]
        BY <3>1, Row DEF TypeOK
      <4> QED BY <3>1, <3>2, <4>1
    <3> QED BY <3>2, <3>3
  <2>3. \A u \in Sums : rows'[p][u] = IF u = s THEN v ELSE rows[p][u]
    BY <2>1 DEF TypeOK, Tables, Put
  <2> QED BY <2>1, <2>2, <2>3 DEF Put
<1> QED BY <1>1, <1>2

(* Only the handler thread, before it answers, changes rows or requests it *)
(* is serving, unless the process ends; and an orderly end changes no row. *)
LEMMA RowsKept ==
  ASSUME TypeOK, Served, Synced, Next, ~Serve, ~Reply, ~Crash
  PROVE  /\ rows' = rows /\ issued' = issued
         /\ th' = "reply" => /\ th = "reply" /\ serving' = serving
                            /\ result' = result
                            /\ request'[serving] = request[serving]
<1> USE DEF table, client, thread, signal
<1>1. CASE ThreadCheck \/ Take \/ ReplyFails \/ ThreadCommit \/ ThreadBegin
  BY <1>1 DEF ThreadCheck, Take, ReplyFails, ThreadCommit, ThreadBegin,
              AfterRequest
<1>2. CASE MainCheck \/ NoRequest \/ SignalCommit \/ SignalBegin \/ Signal
           \/ Start
  BY <1>2 DEF MainCheck, NoRequest, SignalCommit, SignalBegin, Signal, Start
<1>3. CASE Join
  BY <1>3 DEF Synced, Join, Gone
<1>4. ASSUME NEW c \in Clients, Accept(c)
      PROVE  UNCHANGED <<rows, issued, th, serving, result, request>>
  BY <1>4 DEF Accept
<1>5. ASSUME NEW c \in Clients, Send(c) \/ GiveUp(c)
      PROVE  /\ UNCHANGED <<rows, issued, th, serving, result>>
             /\ th = "reply" => request'[serving] = request[serving]
  BY <1>5 DEF TypeOK, Served, Send, GiveUp
<1> QED BY <1>1, <1>2, <1>3, <1>4, <1>5
        DEF Next, Thread, Main, Environment

(* Growing rows reach what the rows before reached.                        *)
LEMMA StillReached ==
  ASSUME TypeOK, Reached, issued' = issued, rows' \in Tables,
         \A q \in Pkgs, u \in Sums : rows[q][u] <= rows'[q][u]
  PROVE  Reached'
<1> SUFFICES ASSUME NEW i \in 1 .. Len(issued)
             PROVE  \E u \in Sums : issued[i].value <= rows'[issued[i].pkg][u]
  BY DEF Reached
<1> DEFINE p == issued[i].pkg
<1>1. p \in Pkgs /\ issued[i].value \in Nat
  <2>1. issued[i] \in Answers
    BY DEF TypeOK
  <2> QED BY <2>1 DEF Answers
<1>2. PICK u \in Sums : issued[i].value <= rows[p][u]
  BY DEF Reached
<1>3. rows[p][u] \in Int /\ rows'[p][u] \in Int
  BY <1>1 DEF TypeOK, Tables
<1>4. rows[p][u] <= rows'[p][u]
  BY <1>1
<1> QED BY <1>1, <1>2, <1>3, <1>4

(* Executing a request: an answer that is ready is the highest row, and    *)
(* what was reached before still is.                                       *)
LEMMA ServeStep ==
  ASSUME PRInv, NoHist, Serve
  PROVE  Ready' /\ (Reached => Reached')
<1> USE DEF table, client, signal
<1> DEFINE r == request[serving]
<1>1. r \in Requests \cup {Nothing}
  BY DEF PRInv, TypeOK
<1>2. UNCHANGED <<request, serving, issued>> /\ th' = "reply"
  BY DEF Serve
<1>3. CASE r.op = "get" /\ getValue(r.pkg, r.sum)
  <2>1. r.pkg \in Pkgs /\ r.sum \in Sums
    BY <1>1, <1>3, Ops, NothingOp
  <2>2. /\ result' = rows'[r.pkg][r.sum]
        /\ \A u \in Sums : rows'[r.pkg][u] <= rows'[r.pkg][r.sum]
    BY <1>3, <2>1, GetsHighest DEF PRInv
  <2>3. Ready'
    BY <1>2, <2>1, <2>2 DEF Ready, Highest
  <2>4. ASSUME Reached PROVE Reached'
    BY <1>2, <1>3, <2>1, <2>4, Grows, TypeServe, StillReached DEF PRInv
  <2> QED BY <2>3, <2>4
<1>4. CASE r.op = "import" /\ importone(r.pkg, r.sum, r.value)
  <2>1. r.pkg \in Pkgs /\ r.sum \in Sums /\ r.value \in Imports
    BY <1>1, <1>4, Ops, NothingOp
  <2>2. ASSUME Reached PROVE Reached'
    BY <1>2, <1>4, <2>1, <2>2, Grows, TypeServe, StillReached DEF PRInv
  <2> QED BY <1>2, <1>4, <2>2 DEF Ready
<1>5. CASE r.op \in {"dump", "quit"} /\ UNCHANGED rows
  BY <1>2, <1>5 DEF Ready, Reached
<1> QED BY <1>3, <1>4, <1>5 DEF Serve, dump_db

(* Answering: what was issued before is reached by a row of its version,   *)
(* and no such row is above the answer.                                    *)
LEMMA ReplyStep ==
  ASSUME PRInv, Reached, NeverDecremented, Reply
  PROVE  Reached' /\ NeverDecremented'
<1> USE DEF table, signal
<1> DEFINE r == request[serving]
<1>1. rows' = rows
  BY DEF Reply
<1>2. CASE issued' = issued
  BY <1>1, <1>2 DEF Reached, NeverDecremented
<1>3. CASE r.op = "get" /\ issued' = Append(issued, Answer)
  <2> DEFINE n == Len(issued)
  <2>1. r.pkg \in Pkgs /\ r.sum \in Sums
    BY <1>3, Ops, NothingOp DEF PRInv, TypeOK
  <2>2. /\ r.sum \in Highest(r.pkg) /\ result = rows[r.pkg][r.sum]
        /\ result \in Nat
    BY <1>3 DEF PRInv, TypeOK, Ready, Reply
  <2>3. /\ n \in Nat /\ Len(issued') = n + 1
        /\ \A i \in 1 .. n : issued'[i] = issued[i] /\ issued[i] \in Answers
        /\ issued'[n + 1] = Answer
    BY <1>3 DEF PRInv, TypeOK
  <2>4. Answer.pkg = r.pkg /\ Answer.value = result
    BY DEF Answer
  <2>5. ASSUME NEW i \in 1 .. n, issued[i].pkg = r.pkg
        PROVE  issued[i].value <= result
    <3>1. PICK u \in Sums : issued[i].value <= rows[r.pkg][u]
      BY <2>5 DEF Reached
    <3>2. rows[r.pkg][u] \in Int /\ rows[r.pkg][u] <= result
      BY <2>1, <2>2, Row DEF PRInv, TypeOK, Highest
    <3>3. issued[i].value \in Nat
      BY <2>3 DEF Answers
    <3> QED BY <2>2, <3>1, <3>2, <3>3
  <2>6. Reached'
    <3> SUFFICES ASSUME NEW i \in 1 .. n + 1
                 PROVE  \E u \in Sums :
                           issued'[i].value <= rows[issued'[i].pkg][u]
      BY <1>1, <2>3 DEF Reached
    <3>1. CASE i = n + 1
      BY <2>1, <2>2, <2>3, <2>4, <3>1
    <3>2. CASE i \in 1 .. n
      BY <2>3, <3>2 DEF Reached
    <3> QED BY <2>3, <3>1, <3>2
  <2>7. NeverDecremented'
    <3> SUFFICES ASSUME NEW i \in 1 .. n + 1, NEW j \in 1 .. n + 1, i < j,
                        issued'[i].pkg = issued'[j].pkg
                 PROVE  issued'[i].value <= issued'[j].value
      BY <2>3 DEF NeverDecremented
    <3>1. i \in 1 .. n
      BY <2>3
    <3>2. CASE j = n + 1
      BY <2>3, <2>4, <2>5, <3>1, <3>2
    <3>3. CASE j \in 1 .. n
      BY <2>3, <3>1, <3>3 DEF NeverDecremented
    <3> QED BY <2>3, <3>2, <3>3
  <2> QED BY <2>6, <2>7
<1> QED BY <1>2, <1>3 DEF Reply

(* The answer ready stays ready until it is given; no other step makes one.*)
LEMMA ReadyStep ==
  ASSUME PRInv, NoHist, Next
  PROVE  Ready'
<1>1. CASE Reply \/ Crash
  BY <1>1 DEF Reply, Crash, Gone, AfterRequest, Ready
<1>2. CASE Serve
  BY <1>2, ServeStep
<1>3. CASE ~Serve /\ ~Reply /\ ~Crash
  BY <1>3, RowsKept DEF PRInv, Ready, Highest
<1> QED BY <1>1, <1>2, <1>3

(* Only a crash can lose a value that was issued.                          *)
LEMMA ReachedStep ==
  ASSUME PRInv, NoHist, Next, crashes' = 0
  PROVE  Reached' /\ NeverDecremented'
<1>1. ~Crash /\ crashes = 0
  <2>1. crashes' \in {crashes, crashes + 1} /\ (Crash => crashes' = crashes + 1)
    BY DEF Next, Thread, Main, Environment, ThreadCheck, Take, Serve, Reply,
           ReplyFails, ThreadCommit, ThreadBegin, MainCheck, NoRequest, Join,
           SignalCommit, SignalBegin, Accept, Signal, Crash, Start, Send,
           GiveUp
  <2> QED BY <2>1 DEF PRInv, TypeOK
<1>2. Reached /\ NeverDecremented
  BY <1>1 DEF PRInv
<1>3. CASE Serve
  BY <1>2, <1>3, ServeStep DEF Serve, NeverDecremented
<1>4. CASE Reply
  BY <1>2, <1>4, ReplyStep
<1>5. CASE ~Serve /\ ~Reply
  BY <1>1, <1>2, <1>5, RowsKept DEF PRInv, Reached, NeverDecremented
<1> QED BY <1>3, <1>4, <1>5

(* The inductive invariant (getValue, importone, sync, the handler         *)
(* thread): whatever is not on disk makes the table dirty, requests are    *)
(* served one by one, and until a crash every value issued is still        *)
(* reached by a row.                                                       *)
THEOREM PRInvCorrect == ASSUME NoHist PROVE Spec => []PRInv
<1>1. PRInv /\ Next => PRInv'
  <2> SUFFICES ASSUME PRInv, Next PROVE PRInv'
    OBVIOUS
  <2>1. TypeOK'
    BY TypeThread, TypeOther DEF PRInv, Next
  <2>2. Served' /\ Synced'
    BY ServedStep, SyncedStep DEF PRInv
  <2>3. Ready' /\ (crashes' = 0 => Reached' /\ NeverDecremented')
    BY ReadyStep, ReachedStep
  <2> QED BY <2>1, <2>2, <2>3 DEF PRInv
<1>2. PRInv /\ UNCHANGED vars => PRInv'
  BY DEF vars, table, client, thread, signal, PRInv, TypeOK, Served, Synced,
         Ready, Reached, NeverDecremented, Highest
<1> QED BY InitInv, <1>1, <1>2, PTL DEF Spec

(* db.py's promise for no-history mode, as far as it goes: until the       *)
(* process is killed, the value returned for a version and pkgarch is      *)
(* never decremented.                                                      *)
THEOREM UnlessKilledCorrect == ASSUME NoHist PROVE Spec => []UnlessKilled
<1>1. PRInv => UnlessKilled
  BY DEF PRInv, UnlessKilled
<1> QED BY PRInvCorrect, <1>1, PTL

-----------------------------------------------------------------------------
(* Both modes: what can be said of the answers' rows.                      *)

(* What the server owes, without the promise of either mode.               *)
BaseInv == TypeOK /\ Served /\ Synced

LEMMA BaseStep == BaseInv /\ [Next]_vars => BaseInv'
<1> SUFFICES ASSUME BaseInv, [Next]_vars PROVE BaseInv'
  OBVIOUS
<1>1. CASE Next
  BY <1>1, TypeThread, TypeOther, ServedStep, SyncedStep DEF BaseInv, Next
<1>2. CASE UNCHANGED vars
  BY <1>2 DEF vars, table, client, thread, signal, BaseInv, TypeOK, Served,
              Synced
<1> QED BY <1>1, <1>2

LEMMA InitBase == Init => BaseInv
BY InitInv DEF PRInv, BaseInv

(* The answer under way is the value of its row.                           *)
ReadyRow == LET r == request[serving] IN
              th = "reply" /\ r.op = "get" => result = rows[r.pkg][r.sum]

(* What getValue answers is its row.                                       *)
LEMMA GetsRow ==
  ASSUME TypeOK, NEW p \in Pkgs, NEW s \in Sums, getValue(p, s)
  PROVE  result' = rows'[p][s]
<1>1. CASE Known(p, s)
  BY <1>1 DEF getValue
<1>2. CASE ~Known(p, s)
  <2>1. PICK v \in Fresh(p) : Put(p, s, v)
    BY <1>2 DEF getValue
  <2> QED BY <2>1 DEF TypeOK, Tables, Put
<1> QED BY <1>1, <1>2

(* Executing a request: rows only grow.                                    *)
LEMMA ServeGrows ==
  ASSUME BaseInv, Serve
  PROVE  /\ \A q \in Pkgs, u \in Sums : rows[q][u] <= rows'[q][u]
         /\ rows' \in Tables /\ ReadyRow'
         /\ committed' = committed \/ (committed' = rows /\ rows' = rows)
<1> USE DEF table, client, signal
<1> DEFINE r == request[serving]
<1>1. r \in Requests \cup {Nothing}
  BY DEF BaseInv, TypeOK
<1>2. UNCHANGED <<request, serving, issued>> /\ th' = "reply"
  BY DEF Serve
<1>3. CASE r.op = "get" /\ getValue(r.pkg, r.sum)
  <2>1. r.pkg \in Pkgs /\ r.sum \in Sums
    BY <1>1, <1>3, Ops, NothingOp
  <2>2. result' = rows'[r.pkg][r.sum]
    BY <1>3, <2>1, GetsRow DEF BaseInv
  <2> QED BY <1>2, <1>3, <2>1, <2>2, Grows, TypeServe DEF BaseInv, ReadyRow
<1>4. CASE r.op = "import" /\ importone(r.pkg, r.sum, r.value)
  <2>1. r.pkg \in Pkgs /\ r.sum \in Sums /\ r.value \in Imports
    BY <1>1, <1>4, Ops, NothingOp
  <2> QED BY <1>2, <1>4, <2>1, Grows, TypeServe DEF BaseInv, ReadyRow
<1>5. CASE /\ r.op \in {"dump", "quit"} /\ UNCHANGED rows
           /\ committed' = committed \/ committed' = rows
  BY <1>2, <1>5, Row DEF BaseInv, TypeOK, ReadyRow
<1> QED BY <1>3, <1>4, <1>5 DEF Serve, dump_db

LEMMA RowStep == BaseInv /\ ReadyRow /\ [Next]_vars => ReadyRow'
<1> SUFFICES ASSUME BaseInv, ReadyRow, [Next]_vars PROVE ReadyRow'
  OBVIOUS
<1>1. CASE Next /\ (Reply \/ Crash)
  BY <1>1 DEF Reply, Crash, Gone, AfterRequest, ReadyRow
<1>2. CASE Serve
  BY <1>2, ServeGrows
<1>3. CASE Next /\ ~Serve /\ ~Reply /\ ~Crash
  BY <1>3, RowsKept DEF BaseInv, ReadyRow
<1>4. CASE UNCHANGED vars
  BY <1>4 DEF ReadyRow, vars, table, client, thread
<1> QED BY <1>1, <1>2, <1>3, <1>4

(* The table on disk is never ahead of the connection's.                   *)
Behind == \A q \in Pkgs, u \in Sums : committed[q][u] <= rows[q][u]

(* The last answer has its row, and the thread is about to commit it.      *)
Pending ==
  /\ th = "commit" /\ Len(issued) # 0
  /\ LET a == issued[Len(issued)] IN a.value <= rows[a.pkg][a.sum]

(* An answer for every death is not on disk, and perhaps one more, which   *)
(* is about to be.                                                         *)
Bounded ==
  \/ Cardinality(Unsaved) <= crashes
  \/ Pending /\ Cardinality(Unsaved \ {Len(issued)}) <= crashes

(* A step writes the whole table to disk, or nothing.                      *)
LEMMA Commits ==
  ASSUME BaseInv, [Next]_vars
  PROVE  committed' = committed \/ (committed' = rows /\ rows' = rows)
<1> USE DEF table, client, thread, signal
<1>1. CASE Serve
  BY <1>1, ServeGrows
<1>2. CASE \/ ThreadCheck \/ Take \/ Reply \/ ReplyFails \/ ThreadCommit
           \/ ThreadBegin \/ MainCheck \/ NoRequest \/ SignalCommit
           \/ SignalBegin \/ Signal \/ Start \/ Join \/ Crash
  BY <1>2 DEF ThreadCheck, Take, Reply, ReplyFails, ThreadCommit, commit,
              ThreadBegin, begin, MainCheck, NoRequest, SignalCommit,
              SignalBegin, Signal, Start, Join, Crash, Gone
<1>3. ASSUME NEW c \in Clients, Accept(c) \/ Send(c) \/ GiveUp(c)
      PROVE  committed' = committed
  BY <1>3 DEF Accept, Send, GiveUp
<1>4. CASE UNCHANGED vars
  BY <1>4 DEF vars
<1> QED BY <1>1, <1>2, <1>3, <1>4 DEF Next, Thread, Main, Environment

LEMMA BehindStep == BaseInv /\ Behind /\ [Next]_vars => Behind'
<1> SUFFICES ASSUME BaseInv, Behind, [Next]_vars PROVE Behind'
  OBVIOUS
<1>0. /\ \A q \in Pkgs, u \in Sums : rows[q][u] \in Int /\ committed[q][u] \in Int
      /\ BaseInv'
  BY BaseStep DEF BaseInv, TypeOK, Tables
<1>1. \A q \in Pkgs, u \in Sums : rows'[q][u] \in Int
  BY <1>0 DEF BaseInv, TypeOK, Tables
<1>2. CASE Serve
  BY <1>0, <1>1, <1>2, ServeGrows DEF Behind
<1>3. CASE rows' = rows
  BY <1>0, <1>3, Commits DEF Behind
<1>4. CASE Crash
  BY <1>0, <1>4 DEF Crash, Gone, Behind
<1>5. CASE Reply \/ UNCHANGED vars
  BY <1>3, <1>5 DEF Reply, table, vars
<1> QED BY <1>2, <1>3, <1>4, <1>5, RowsKept DEF BaseInv

LEMMA Answered1 ==
  ASSUME TypeOK, NEW i \in 1 .. Len(issued)
  PROVE  /\ issued[i].pkg \in Pkgs /\ issued[i].sum \in Sums
         /\ issued[i].value \in Nat
<1>1. issued[i] \in Answers
  BY DEF TypeOK
<1> QED BY <1>1 DEF Answers

(* What is on disk only grows, so that saved answers stay saved.           *)
LEMMA StaysSaved ==
  ASSUME BaseInv, Behind, [Next]_vars, NEW i \in 1 .. Len(issued), i \notin Unsaved,
         issued'[i] = issued[i]
  PROVE  ~(committed'[issued'[i].pkg][issued'[i].sum] < issued'[i].value)
<1> DEFINE p == issued[i].pkg
           s == issued[i].sum
<1>1. p \in Pkgs /\ s \in Sums /\ issued[i].value \in Nat
  BY Answered1 DEF BaseInv
<1>2. committed[p][s] \in Int /\ rows[p][s] \in Int /\ committed[p][s] <= rows[p][s]
  BY <1>1 DEF BaseInv, TypeOK, Tables, Behind
<1>3. ~(committed[p][s] < issued[i].value)
  BY DEF Unsaved
<1> QED BY <1>1, <1>2, <1>3, Commits

LEMMA UnsavedFinite ==
  ASSUME TypeOK
  PROVE  IsFiniteSet(Unsaved) /\ Cardinality(Unsaved) \in Nat
<1>1. IsFiniteSet(1 .. Len(issued))
  BY FS_Interval DEF TypeOK
<1>2. Unsaved \subseteq 1 .. Len(issued)
  BY DEF Unsaved
<1> QED BY <1>1, <1>2, FS_Subset, FS_CardinalityType

(* Fewer answers are missing, and no fewer deaths happened.                *)
LEMMA FewerUnsaved ==
  ASSUME TypeOK, NEW U \in SUBSET Unsaved, NEW V \in SUBSET U, NEW n \in Nat,
         Cardinality(U) <= n
  PROVE  Cardinality(V) <= n
<1>1. IsFiniteSet(U) /\ IsFiniteSet(V)
  BY UnsavedFinite, FS_Subset
<1>2. Cardinality(V) <= Cardinality(U)
  BY <1>1, FS_Subset
<1> QED BY <1>1, <1>2, FS_CardinalityType

(* One answer more is one more missing at most.                            *)
LEMMA OneMore ==
  ASSUME TypeOK, NEW x, NEW n \in Nat, Cardinality(Unsaved \ {x}) <= n
  PROVE  Cardinality(Unsaved) <= n + 1
<1> DEFINE U == Unsaved
           V == Unsaved \ {x}
<1>1. IsFiniteSet(U) /\ Cardinality(U) \in Nat
  BY UnsavedFinite
<1>2. x \in U => Cardinality(V) = Cardinality(U) - 1
  BY <1>1, FS_RemoveElement
<1>3. x \notin U => V = U
  OBVIOUS
<1>4. Cardinality(V) <= n
  OBVIOUS
<1> HIDE DEF U, V
<1>5. Cardinality(U) <= n + 1
  BY <1>1, <1>2, <1>3, <1>4
<1> QED BY <1>5 DEF U

(* Deaths are only counted.                                                *)
LEMMA CrashCount ==
  ASSUME TypeOK, [Next]_vars
  PROVE  crashes' >= crashes /\ (Crash => crashes' = crashes + 1)
BY DEF TypeOK, Next, Thread, Main, Environment, ThreadCheck, Take, Serve, Reply,
       ReplyFails, ThreadCommit, ThreadBegin, MainCheck, NoRequest, Join,
       SignalCommit, SignalBegin, Accept, Signal, Crash, Start, Send, GiveUp, vars

(* Without a new answer, what is not on disk is what was not.              *)
LEMMA Shrinks ==
  ASSUME BaseInv, Behind, [Next]_vars, issued' = issued
  PROVE  Unsaved' \subseteq Unsaved
<1> SUFFICES ASSUME NEW i \in Unsaved' PROVE i \in Unsaved
  OBVIOUS
<1>1. /\ i \in 1 .. Len(issued)
      /\ committed'[issued'[i].pkg][issued'[i].sum] < issued'[i].value
  BY DEF Unsaved
<1> QED BY <1>1, StaysSaved

(* The thread goes on to commit: nothing else happens to it or the table.  *)
LEMMA WaitsToCommit ==
  ASSUME BaseInv, Next, th = "commit", ~ThreadCommit, ~Crash
  PROVE  th' = "commit" /\ rows' = rows /\ issued' = issued
<1> USE DEF table, client, thread, signal
<1>1. ~Serve /\ ~Reply
  BY DEF Serve, Reply
<1>2. rows' = rows /\ issued' = issued
  BY <1>1, RowsKept DEF BaseInv
<1>3. main # "down"
  BY DEF BaseInv, Synced
<1>4. ~Thread /\ ~Join /\ ~Start
  BY <1>3 DEF Thread, ThreadCheck, Take, Serve, Reply, ReplyFails,
              ThreadBegin, Join, Start
<1>5. CASE MainCheck \/ NoRequest \/ SignalCommit \/ SignalBegin \/ Signal
  BY <1>5 DEF MainCheck, NoRequest, SignalCommit, SignalBegin, Signal
<1>6. ASSUME NEW c \in Clients, Accept(c) \/ Send(c) \/ GiveUp(c)
      PROVE  th' = th
  BY <1>6 DEF Accept, Send, GiveUp
<1> QED BY <1>2, <1>4, <1>5, <1>6 DEF Next, Main, Environment

(* An answer is the row's: it is on disk, or its commit is next.           *)
LEMMA BoundedReply ==
  ASSUME BaseInv, ReadyRow, Behind, Bounded, Reply
  PROVE  Bounded'
<1> USE DEF table
<1> DEFINE n == Len(issued)
           r == request[serving]
<1>0. [Next]_vars /\ crashes' = crashes /\ crashes \in Nat
  BY DEF Reply, Next, Thread, BaseInv, TypeOK
<1>1. Cardinality(Unsaved) <= crashes
  BY DEF Reply, Bounded, Pending
<1>2. CASE issued' = issued
  BY <1>0, <1>1, <1>2, Shrinks, FewerUnsaved DEF BaseInv, Bounded
<1>3. CASE r.op = "get" /\ issued' = Append(issued, Answer)
  <2>1. r.pkg \in Pkgs /\ r.sum \in Sums
    BY <1>3, Ops, NothingOp DEF BaseInv, TypeOK
  <2>2. /\ result = rows[r.pkg][r.sum] /\ result \in Nat
        /\ UNCHANGED <<rows, committed, dirty>> /\ th' = AfterRequest
    BY <1>3 DEF BaseInv, TypeOK, ReadyRow, Reply
  <2>3. /\ n \in Nat /\ Len(issued') = n + 1
        /\ \A i \in 1 .. n : issued'[i] = issued[i]
        /\ issued'[n + 1] = Answer
        /\ \A i \in 1 .. n + 1 : i = n + 1 \/ i \in 1 .. n
    BY <1>3 DEF BaseInv, TypeOK
  <2>4. Answer.pkg = r.pkg /\ Answer.sum = r.sum /\ Answer.value = result
    BY DEF Answer
  <2>5. Unsaved' \ {n + 1} \subseteq Unsaved
    <3> SUFFICES ASSUME NEW i \in Unsaved', i # n + 1 PROVE i \in Unsaved
      OBVIOUS
    <3>1. /\ i \in 1 .. n + 1
          /\ committed'[issued'[i].pkg][issued'[i].sum] < issued'[i].value
      BY <2>3 DEF Unsaved
    <3>2. i \in 1 .. n /\ issued'[i] = issued[i]
      BY <2>3, <3>1
    <3> QED BY <1>0, <3>1, <3>2, StaysSaved
  <2>6. Cardinality(Unsaved' \ {n + 1}) <= crashes
    BY <1>0, <1>1, <2>5, FewerUnsaved DEF BaseInv
  <2>7. CASE dirty
    <3>1. th' = "commit" /\ Len(issued') # 0
      BY <2>2, <2>3, <2>7 DEF AfterRequest
    <3>2. Pending'
      BY <2>1, <2>2, <2>3, <2>4, <3>1 DEF Pending
    <3> QED BY <1>0, <2>3, <2>6, <3>2 DEF Bounded
  <2>8. CASE ~dirty
    <3>1. committed'[r.pkg][r.sum] = result
      BY <2>2, <2>8 DEF BaseInv, Synced
    <3>2. n + 1 \notin Unsaved'
      BY <2>2, <2>3, <2>4, <3>1 DEF Unsaved
    <3> QED BY <1>0, <2>6, <3>2, Unsaved' \ {n + 1} = Unsaved' DEF Bounded
  <2> QED BY <2>7, <2>8
<1> QED BY <1>2, <1>3 DEF Reply

LEMMA BoundedStep ==
  BaseInv /\ ReadyRow /\ Behind /\ Bounded /\ [Next]_vars => Bounded'
<1> SUFFICES ASSUME BaseInv, ReadyRow, Behind, Bounded, [Next]_vars
             PROVE  Bounded'
  OBVIOUS
<1> DEFINE last == Len(issued)
<1>0. /\ TypeOK /\ crashes \in Nat /\ crashes' \in Nat /\ crashes' >= crashes
      /\ Crash => crashes' = crashes + 1
  BY BaseStep, CrashCount DEF BaseInv, TypeOK
<1>1. CASE Reply
  BY <1>1, BoundedReply
<1>2. CASE ~Reply /\ ~Pending
  <2>1. Cardinality(Unsaved) <= crashes'
    BY <1>0, <1>2, UnsavedFinite DEF Bounded
  <2>2. issued' = issued
    BY <1>2, RowsKept DEF BaseInv, Serve, Crash, Gone, vars
  <2> QED BY <1>0, <2>1, <2>2, Shrinks, FewerUnsaved DEF Bounded
<1>3. CASE ~Reply /\ Pending
  <2>0. issued' = issued /\ Unsaved' \subseteq Unsaved
    BY <1>3, RowsKept, Shrinks DEF BaseInv, Serve, Crash, Gone, vars
  <2>1. Cardinality(Unsaved \ {last}) <= crashes
    <3>1. CASE Cardinality(Unsaved) <= crashes
      BY <1>0, <3>1, FewerUnsaved, Unsaved \ {last} \subseteq Unsaved
    <3> QED BY <3>1 DEF Bounded
  <2>2. CASE ThreadCommit
    <3>1. /\ last \in 1 .. Len(issued) /\ committed' = rows
          /\ issued[last].value <= rows[issued[last].pkg][issued[last].sum]
      BY <1>0, <1>3, <2>2 DEF TypeOK, Pending, ThreadCommit, commit
    <3>2. last \notin Unsaved'
      <4>1. /\ rows[issued[last].pkg][issued[last].sum] \in Int
            /\ issued[last].value \in Nat
        BY <1>0, <3>1, Answered1, Row DEF TypeOK
      <4> QED BY <2>0, <3>1, <4>1 DEF Unsaved
    <3>3. Unsaved' \subseteq Unsaved \ {last}
      BY <2>0, <3>2
    <3> QED BY <1>0, <2>1, <2>2, <3>3, FewerUnsaved, crashes' = crashes
            DEF Bounded, ThreadCommit
  <2>3. CASE Crash
    <3>1. Cardinality(Unsaved) <= crashes + 1
      BY <1>0, <2>1, OneMore
    <3> QED BY <1>0, <2>0, <2>3, <3>1, FewerUnsaved DEF Bounded
  <2>4. CASE ~ThreadCommit /\ ~Crash
    <3>1. th' = "commit" /\ rows' = rows
      BY <1>3, <2>4, WaitsToCommit DEF Pending, vars, table, thread
    <3>2. Pending'
      BY <1>3, <2>0, <3>1 DEF Pending
    <3>3. Cardinality(Unsaved' \ {last}) <= crashes
      BY <1>0, <2>0, <2>1, FewerUnsaved,
         Unsaved \ {last} \subseteq Unsaved,
         Unsaved' \ {last} \subseteq Unsaved \ {last}
    <3>4. Cardinality(Unsaved' \ {last}) \in Nat
      <4>1. IsFiniteSet(Unsaved' \ {last})
        BY <1>0, <2>0, UnsavedFinite, FS_Subset, Unsaved' \ {last} \subseteq Unsaved
      <4> QED BY <4>1, FS_CardinalityType
    <3> QED BY <1>0, <2>0, <3>2, <3>3, <3>4 DEF Bounded
  <2> QED BY <2>2, <2>3, <2>4
<1> QED BY <1>1, <1>2, <1>3

(* Both modes: the answer is sent before its row is committed, but the     *)
(* handler thread commits before it takes the next request, so that the    *)
(* deaths of the server lose one answered value each, at most              *)
(* (process_request_thread, sync_if_dirty).                                *)
THEOREM LosesOneAnswerCorrect == Spec => []LosesOneAnswer
<1> DEFINE I == BaseInv /\ ReadyRow /\ Behind /\ Bounded
<1>1. Init => I
  <2> SUFFICES ASSUME Init PROVE I
    OBVIOUS
  <2>1. BaseInv
    BY InitBase
  <2>2. ReadyRow /\ Behind
    BY <2>1, Row DEF Init, ReadyRow, Behind, BaseInv, TypeOK
  <2>3. Unsaved = {} /\ crashes = 0
    BY <2>1 DEF Init, Unsaved
  <2> QED BY <2>1, <2>2, <2>3, FS_EmptySet DEF Bounded
<1>2. I /\ [Next]_vars => I'
  BY BaseStep, RowStep, BehindStep, BoundedStep
<1>3. I => LosesOneAnswer
  <2> SUFFICES ASSUME I PROVE LosesOneAnswer
    OBVIOUS
  <2>1. /\ IsFiniteSet(Unsaved) /\ Cardinality(Unsaved) \in Nat
        /\ crashes \in Nat
    BY UnsavedFinite DEF BaseInv, TypeOK
  <2>2. CASE Cardinality(Unsaved) <= crashes
    BY <2>1, <2>2 DEF LosesOneAnswer
  <2>3. CASE Pending /\ Cardinality(Unsaved \ {Len(issued)}) <= crashes
    <3>1. Cardinality(Unsaved) <= crashes + 1
      BY <2>1, <2>3, OneMore DEF BaseInv
    <3> QED BY <2>3, <3>1 DEF LosesOneAnswer, Pending
  <2> QED BY <2>2, <2>3 DEF Bounded
<1> QED BY <1>1, <1>2, <1>3, PTL DEF Spec

-----------------------------------------------------------------------------
(* History mode.                                                           *)

(* A value answered is in its row.                                         *)
Recorded == \A i \in 1 .. Len(issued) :
              rows[issued[i].pkg][issued[i].sum] = issued[i].value

(* No two checksums of a version have the same number.                     *)
Distinct == \A q \in Pkgs : \A s, u \in Sums :
              s # u /\ rows[q][s] = rows[q][u] => rows[q][s] = -1

(* An imported number may be one another checksum has.                     *)
HistInv == crashes = 0 => Recorded /\ (Imports = {} => Distinct)

(* A number put in the table is above the others.                          *)
LEMMA FreshAbove ==
  ASSUME rows \in Tables, NEW p \in Pkgs, NEW v \in Fresh(p)
  PROVE  v \in Nat /\ \A u \in Sums : rows[p][u] < v
<1>1. PICK t \in Sums : /\ v = rows[p][t] + 1
                       /\ \A u \in Sums : rows[p][u] <= rows[p][t]
  BY DEF Fresh, Highest
<1>2. rows[p][t] \in Int /\ v \in Nat
  BY <1>1, Row
<1>3. ASSUME NEW u \in Sums PROVE rows[p][u] < v
  <2>1. rows[p][u] \in Int /\ rows[p][u] <= rows[p][t]
    BY <1>1, Row
  <2> QED BY <1>1, <1>2, <2>1
<1> QED BY <1>2, <1>3

(* One row changes, from none to a value.                                  *)
LEMMA HistPut ==
  ASSUME rows \in Tables, NEW p \in Pkgs, NEW s \in Sums, NEW v \in Nat,
         Put(p, s, v), rows[p][s] = -1
  PROVE  /\ \A q \in Pkgs, u \in Sums :
              rows[q][u] # -1 => rows'[q][u] = rows[q][u]
         /\ Distinct /\ (\A u \in Sums : rows[p][u] < v) => Distinct'
<1>1. \A q \in Pkgs, u \in Sums :
        rows'[q][u] = IF q = p /\ u = s THEN v ELSE rows[q][u]
  BY DEF Put, Tables
<1>2. ASSUME Distinct, \A u \in Sums : rows[p][u] < v PROVE Distinct'
  <2> SUFFICES ASSUME NEW q \in Pkgs, NEW a \in Sums, NEW b \in Sums, a # b,
                      rows'[q][a] = rows'[q][b]
               PROVE  rows'[q][a] = -1
    BY DEF Distinct
  <2>1. \A u \in Sums : rows[p][u] # v
    <3> SUFFICES ASSUME NEW u \in Sums PROVE rows[p][u] # v
      OBVIOUS
    <3>1. rows[p][u] \in Int /\ rows[p][u] < v
      BY <1>2, Row
    <3> QED BY <3>1
  <2>2. ~(q = p /\ (a = s \/ b = s))
    BY <1>1, <2>1
  <2>3. rows'[q][a] = rows[q][a] /\ rows'[q][b] = rows[q][b]
    BY <1>1, <2>2
  <2> QED BY <1>2, <2>3 DEF Distinct
<1> QED BY <1>1, <1>2

(* Executing a request in history mode: no row is ever changed, and a new  *)
(* one has a number of its own, unless it is imported.                     *)
LEMMA HistServe ==
  ASSUME ~NoHist, BaseInv, Serve
  PROVE  /\ \A q \in Pkgs, u \in Sums :
              rows[q][u] # -1 => rows'[q][u] = rows[q][u]
         /\ Imports = {} /\ Distinct => Distinct'
<1> USE DEF table, client, signal
<1> DEFINE r == request[serving]
<1>1. r \in Requests \cup {Nothing} /\ rows \in Tables
  BY DEF BaseInv, TypeOK
<1>2. CASE UNCHANGED rows
  BY <1>2 DEF Distinct
<1>3. CASE r.op = "get" /\ getValue(r.pkg, r.sum) /\ ~UNCHANGED rows
  <2>1. r.pkg \in Pkgs /\ r.sum \in Sums
    BY <1>1, <1>3, Ops, NothingOp
  <2>2. rows[r.pkg][r.sum] = -1
    BY <1>3 DEF getValue, Known
  <2>3. PICK v \in Fresh(r.pkg) : Put(r.pkg, r.sum, v)
    BY <1>3 DEF getValue
  <2>4. v \in Nat /\ \A u \in Sums : rows[r.pkg][u] < v
    BY <1>1, <2>1, FreshAbove
  <2> QED BY <1>1, <2>1, <2>2, <2>3, <2>4, HistPut
<1>4. CASE r.op = "import" /\ importone(r.pkg, r.sum, r.value) /\ ~UNCHANGED rows
  <2>1. r.pkg \in Pkgs /\ r.sum \in Sums /\ r.value \in Imports
    BY <1>1, <1>4, Ops, NothingOp
  <2>2. rows[r.pkg][r.sum] = -1 /\ Put(r.pkg, r.sum, r.value)
    BY <1>4 DEF importone
  <2>3. r.value \in Nat
    BY <2>1, ImportsType
  <2> QED BY <1>1, <2>1, <2>2, <2>3, HistPut
<1> QED BY <1>2, <1>3, <1>4 DEF Serve, dump_db

(* Rows that are kept still record the answers.                            *)
LEMMA HistStep ==
  ASSUME ~NoHist
  PROVE  BaseInv /\ ReadyRow /\ HistInv /\ [Next]_vars => HistInv'
<1> SUFFICES ASSUME BaseInv, ReadyRow, HistInv, [Next]_vars, crashes' = 0
             PROVE  Recorded' /\ (Imports = {} => Distinct')
  BY DEF HistInv
<1>1. /\ ~Crash /\ TypeOK
      /\ Recorded /\ (Imports = {} => Distinct)
  <2>1. crashes \in Nat /\ TypeOK
    BY DEF BaseInv, TypeOK
  <2>2. ~Crash /\ crashes = 0
    BY <2>1, CrashCount
  <2> QED BY <2>1, <2>2 DEF HistInv
<1>2. CASE Serve
  <2>1. issued' = issued
    BY <1>2 DEF Serve
  <2>2. Recorded'
    <3> SUFFICES ASSUME NEW i \in 1 .. Len(issued)
                 PROVE  rows'[issued[i].pkg][issued[i].sum] = issued[i].value
      BY <2>1 DEF Recorded
    <3>1. /\ issued[i].pkg \in Pkgs /\ issued[i].sum \in Sums
          /\ issued[i].value \in Nat
      BY <1>1, Answered1
    <3>2. rows[issued[i].pkg][issued[i].sum] = issued[i].value
      BY <1>1 DEF Recorded
    <3>3. issued[i].value # -1
      BY <3>1
    <3> QED BY <1>2, <3>1, <3>2, <3>3, HistServe
  <2> QED BY <1>1, <1>2, <2>2, HistServe
<1>3. CASE Reply /\ issued' # issued
  <2> DEFINE n == Len(issued)
             r == request[serving]
  <2>1. /\ rows' = rows /\ r.op = "get" /\ result = rows[r.pkg][r.sum]
        /\ issued' = Append(issued, Answer)
    BY <1>3 DEF Reply, ReadyRow, table
  <2>2. /\ n \in Nat /\ Len(issued') = n + 1
        /\ \A i \in 1 .. n : issued'[i] = issued[i]
        /\ issued'[n + 1] = Answer
        /\ \A i \in 1 .. n + 1 : i = n + 1 \/ i \in 1 .. n
    BY <1>1, <2>1 DEF TypeOK
  <2>3. Answer.pkg = r.pkg /\ Answer.sum = r.sum /\ Answer.value = result
    BY DEF Answer
  <2>4. Recorded'
    BY <1>1, <2>1, <2>2, <2>3 DEF Recorded
  <2> QED BY <1>1, <2>1, <2>4 DEF Distinct
<1>4. CASE rows' = rows /\ issued' = issued
  BY <1>1, <1>4 DEF Recorded, Distinct
<1>5. CASE UNCHANGED vars
  BY <1>4, <1>5 DEF vars, table
<1>6. CASE Reply /\ issued' = issued
  BY <1>4, <1>6 DEF Reply, table
<1> QED BY <1>1, <1>2, <1>3, <1>4, <1>5, <1>6, RowsKept DEF BaseInv

(* The invariant of history mode, with what it rests on.                   *)
LEMMA HistInvCorrect ==
  ASSUME ~NoHist PROVE Spec => [](BaseInv /\ HistInv)
<1> DEFINE I == BaseInv /\ ReadyRow /\ HistInv
<1>1. Init => I
  <2> SUFFICES ASSUME Init PROVE I
    OBVIOUS
  <2>1. BaseInv
    BY InitBase
  <2>2. ReadyRow /\ issued = <<>> /\ rows = NoRows
    BY DEF Init, ReadyRow
  <2>3. Recorded /\ Distinct
    BY <2>2 DEF Recorded, Distinct, NoRows
  <2> QED BY <2>1, <2>2, <2>3 DEF HistInv
<1>2. I /\ [Next]_vars => I'
  BY BaseStep, RowStep, HistStep
<1> QED BY <1>1, <1>2, PTL DEF Spec

(* Until the process is killed, a query gets the answer it got before:     *)
(* whatever is imported (_importHist).                                     *)
SameAgain ==
  \A i, j \in 1 .. Len(issued) :
     issued[i].pkg = issued[j].pkg /\ issued[i].sum = issued[j].sum
       => issued[i].value = issued[j].value

(* History mode, with any imports: until the process is killed a query     *)
(* that was answered gets the same answer again (_getValueHist,            *)
(* _importHist).                                                           *)
THEOREM SameAgainCorrect ==
  ASSUME ~NoHist PROVE Spec => [](crashes = 0 => SameAgain)
<1>1. BaseInv /\ HistInv => (crashes = 0 => SameAgain)
  BY DEF HistInv, Recorded, SameAgain
<1> QED BY <1>1, HistInvCorrect, PTL

(* History mode, db.py's promise: as long as nothing is imported, and      *)
(* until the process is killed, the same query gets the same answer and    *)
(* another checksum of the version another number (_getValueHist).         *)
THEOREM HistoricalCorrect ==
  ASSUME ~NoHist, Imports = {} PROVE Spec => [](crashes = 0 => Historical)
<1>1. BaseInv /\ HistInv => (crashes = 0 => Historical)
  <2> SUFFICES ASSUME BaseInv, Recorded, Distinct,
                      NEW i \in 1 .. Len(issued), NEW j \in 1 .. Len(issued),
                      issued[i].pkg = issued[j].pkg
               PROVE  issued[i].value = issued[j].value
                        <=> issued[i].sum = issued[j].sum
    BY DEF HistInv, Historical
  <2>1. /\ issued[i].pkg \in Pkgs /\ issued[i].sum \in Sums
        /\ issued[j].sum \in Sums /\ issued[i].value # -1
    BY Answered1, \A v \in Nat : v # -1 DEF BaseInv
  <2>2. /\ rows[issued[i].pkg][issued[i].sum] = issued[i].value
        /\ rows[issued[i].pkg][issued[j].sum] = issued[j].value
    BY DEF Recorded
  <2> QED BY <2>1, <2>2 DEF Distinct
<1> QED BY <1>1, HistInvCorrect, PTL
=============================================================================
