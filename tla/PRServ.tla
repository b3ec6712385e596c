------------------------------- MODULE PRServ -------------------------------
(***************************************************************************)
(* The PR service (lib/prserv): numbers for package revisions, one table   *)
(* row per package version and checksum.  The server's main thread accepts *)
(* requests and puts them in a queue; a handler thread executes and        *)
(* answers them and commits afterwards; signal handlers run in the main    *)
(* thread and use the same database connection.  A step is a database      *)
(* statement or a queue, socket or thread operation.                       *)
(***************************************************************************)
EXTENDS Integers, Sequences, FiniteSets

CONSTANTS
  Clients,     \* connections; each has at most one request under way
  Pkgs, Sums,  \* (version, pkgarch) pairs, checksums
  Imports,     \* values importone may be given
  Controls,    \* which of "dump" and "quit" clients send
  NoHist,      \* PRData(nohist=True), the mode the server runs in
  CommitFirst, \* the sqlite3 module commits before a BEGIN (Python < 3.6)
  MayGiveUp,   \* whether clients may time out
  MaxSignals, MaxCrash, MaxRequests  \* bounds

ASSUME ImportsType == Imports \subseteq Nat
ASSUME ControlsType == Controls \subseteq {"dump", "quit"}
ASSUME ModeType == {NoHist, CommitFirst, MayGiveUp} \subseteq BOOLEAN
ASSUME BoundsType == {MaxSignals, MaxCrash, MaxRequests} \subseteq Nat

VARIABLES
  rows,       \* the table as the connection sees it; -1: no such row
  committed,  \* the table on disk
  inTx,       \* whether the connection has a transaction open
  dirty,      \* PRTable.dirty
  queue,      \* PRServer.requestqueue: clients
  request,    \* what each client asked for last
  asked,      \* how far its request is
  main,       \* the main thread, in work_forever
  th,         \* the handler thread, in process_request_thread
  serving, result,  \* its request and the value to answer
  quit,       \* PRServer.quit
  sig, term,  \* the signal handler the main thread is in; is it SIGTERM's
  issued,     \* history: the values getPR answered, in order
  sent, signals, crashes  \* history, for the bounds

table  == <<rows, committed, inTx, dirty>>
client == <<queue, request, asked>>
thread == <<th, serving, result>>
signal == <<sig, term, signals>>
vars == <<table, client, main, thread, quit, signal, issued, sent, crashes>>

Requests == [op : {"get"}, pkg : Pkgs, sum : Sums]
            \cup [op : {"import"}, pkg : Pkgs, sum : Sums, value : Imports]
            \cup [op : Controls]
Nothing  == [op |-> "nothing"]

NoRows == [p \in Pkgs |-> [s \in Sums |-> -1]]

Init == /\ rows = NoRows /\ committed = NoRows /\ inTx = FALSE /\ dirty = FALSE
        /\ queue = <<>> /\ request = [c \in Clients |-> Nothing]
        /\ asked = [c \in Clients |-> "no"]
        /\ main = "check" /\ th = "check" /\ serving \in Clients /\ result = 0
        /\ quit = FALSE /\ sig = "none" /\ term = FALSE
        /\ issued = <<>> /\ sent = 0 /\ signals = 0 /\ crashes = 0

-----------------------------------------------------------------------------
(* The table (db.py, PRTable).                                             *)

(* select max(value): the rows of p that have it.                          *)
Highest(p) == {s \in Sums : \A u \in Sums : rows[p][u] <= rows[p][s]}

(* ifnull(max(value) + 1, 0).                                              *)
Fresh_NoIncrement(p) == {rows[p][s] : s \in Highest(p)} \cup {0}
Fresh(p) == {rows[p][s] + 1 : s \in Highest(p)}

(* Mutated form: in both modes the row alone decides.                      *)
Known_Row(p, s) == rows[p][s] # -1

(* The first SELECT of getValue finds a row to answer with.                *)
Known(p, s) == rows[p][s] # -1 /\ (NoHist => s \in Highest(p))

Put(p, s, v) == /\ rows' = [rows EXCEPT ![p][s] = v]
                /\ inTx' = TRUE
                /\ result' = v

(* getValue: _getValueNohist, _getValueHist.                               *)
getValue(p, s) ==
  /\ IF Known(p, s)
       THEN result' = rows[p][s] /\ UNCHANGED <<rows, inTx, dirty>>
       ELSE (\E v \in Fresh(p) : Put(p, s, v)) /\ dirty' = TRUE
  /\ UNCHANGED <<committed, quit>>

(* Mutated form: an import does not make the table dirty.                  *)
ImportDirties_Not == dirty

(* _importNohist marks the table dirty even when nothing changes.          *)
ImportDirties == TRUE

(* importone: _importNohist raises a value, _importHist never touches one. *)
importone(p, s, v) ==
  /\ IF rows[p][s] = -1 \/ (NoHist /\ rows[p][s] < v)
       THEN Put(p, s, v)
       ELSE result' = rows[p][s] /\ UNCHANGED rows /\ inTx' = (inTx \/ NoHist)
  /\ dirty' = IF rows[p][s] = -1 \/ NoHist THEN ImportDirties ELSE dirty
  /\ UNCHANGED <<committed, quit>>

(* conn.commit().                                                          *)
commit == committed' = rows /\ inTx' = FALSE

(* BEGIN EXCLUSIVE TRANSACTION, unless a transaction is open already.      *)
MayBegin == CommitFirst \/ ~inTx
begin == committed' = rows /\ inTx' = TRUE

(* dump_db: sync(), whose failure it reports to its caller.                *)
dump_db == /\ committed' = rows /\ inTx' = TRUE
           /\ UNCHANGED <<rows, dirty, quit, result>>

-----------------------------------------------------------------------------
(* The handler thread: process_request_thread.                             *)

(* Mutated form: the thread does not look at quit.                         *)
Quitting_Never == FALSE
Quitting == quit

ThreadCheck ==
  /\ th = "check"
  /\ th' = IF Quitting THEN "done" ELSE "get"
  /\ UNCHANGED <<table, client, main, serving, result, quit, signal, issued,
                 sent, crashes>>

(* Mutated form: a commit only when the queue has been empty for a while.  *)
AfterRequest_Idle == "check"

(* sync_if_dirty().                                                        *)
AfterRequest == IF dirty THEN "commit" ELSE "check"

(* requestqueue.get(True, 30) returns a request or raises Empty.           *)
Take ==
  /\ th = "get"
  /\ IF queue = <<>>
       THEN th' = AfterRequest /\ UNCHANGED <<queue, serving>>
       ELSE /\ th' = "serve"
            /\ serving' = Head(queue) /\ queue' = Tail(queue)
  /\ UNCHANGED <<table, request, asked, main, result, quit, signal, issued,
                 sent, crashes>>

(* finish_request up to the answer.                                        *)
Serve ==
  /\ th = "serve" /\ th' = "reply"
  /\ LET r == request[serving] IN
       \/ r.op = "get" /\ getValue(r.pkg, r.sum)
       \/ r.op = "import" /\ importone(r.pkg, r.sum, r.value)
       \/ r.op = "dump" /\ dump_db
       \/ /\ r.op = "quit" /\ quit' = TRUE
          /\ UNCHANGED <<table, result>>
  /\ UNCHANGED <<client, main, serving, signal, issued, sent, crashes>>

(* The handler thread is done with its client.                             *)
Settle == /\ asked' = [asked EXCEPT ![serving] = "no"]
          /\ request' = [request EXCEPT ![serving] = Nothing]

Answer == [pkg |-> request[serving].pkg, sum |-> request[serving].sum,
           value |-> result]

(* The answer goes out, then shutdown_request and sync_if_dirty.           *)
Reply ==
  /\ th = "reply"
  /\ th' = AfterRequest
  /\ Settle
  /\ issued' = IF asked[serving] = "queued" /\ request[serving].op = "get"
                 THEN Append(issued, Answer) ELSE issued
  /\ UNCHANGED <<table, queue, main, serving, result, quit, signal, sent,
                 crashes>>

(* The client is gone and finish_request raises: sync(), then              *)
(* sync_if_dirty().                                                        *)
ReplyFails ==
  /\ th = "reply" /\ asked[serving] = "gone"
  /\ th' = "errcommit"
  /\ Settle
  /\ UNCHANGED <<table, queue, main, serving, result, quit, signal,
                 issued, sent, crashes>>

ThreadCommit ==
  /\ th \in {"commit", "errcommit"}
  /\ th' = IF th = "commit" THEN "begin" ELSE "errbegin"
  /\ commit
  /\ UNCHANGED <<rows, dirty, client, main, serving, result, quit, signal,
                 issued, sent, crashes>>

(* A BEGIN that raises ends the thread: no handler is around it.           *)
ThreadBegin ==
  /\ th \in {"begin", "errbegin"}
  /\ \/ /\ MayBegin /\ begin
        /\ \/ th = "begin" /\ dirty' = FALSE /\ th' = "check"
           \/ th = "errbegin" /\ th' = AfterRequest /\ UNCHANGED dirty
     \/ ~MayBegin /\ th' = "dead" /\ UNCHANGED <<committed, inTx, dirty>>
  /\ UNCHANGED <<rows, client, main, serving, result, quit, signal, issued,
                 sent, crashes>>

-----------------------------------------------------------------------------
(* The main thread: work_forever, and its signal handlers.                 *)

MainCheck ==
  /\ main = "check" /\ sig = "none"
  /\ main' = IF quit THEN "join" ELSE "select"
  /\ UNCHANGED <<table, client, thread, quit, signal, issued, sent, crashes>>

(* handle_request, process_request.                                        *)
Accept(c) ==
  /\ main = "select" /\ sig = "none" /\ asked[c] = "sent"
  /\ main' = "check"
  /\ asked' = [asked EXCEPT ![c] = "queued"]
  /\ queue' = Append(queue, c)
  /\ UNCHANGED <<table, request, thread, quit, signal, issued, sent, crashes>>

(* handle_request times out after half a second.                           *)
NoRequest ==
  /\ main = "select" /\ sig = "none" /\ \A c \in Clients : asked[c] # "sent"
  /\ main' = "check"
  /\ UNCHANGED <<table, client, thread, quit, signal, issued, sent, crashes>>

(* The process is gone, and with it every request and what was not         *)
(* committed.                                                              *)
Gone == /\ main' = "down"
        /\ rows' = committed /\ inTx' = FALSE /\ dirty' = FALSE
        /\ queue' = <<>> /\ asked' = [c \in Clients |-> "no"]
        /\ request' = [c \in Clients |-> Nothing]
        /\ th' = "done" /\ sig' = "none"
        /\ UNCHANGED <<committed, serving, result, quit, term, signals,
                       issued, sent>>

(* handlerthread.join(), disconnect, server_close.                         *)
Join == main = "join" /\ sig = "none" /\ th \in {"done", "dead"} /\ Gone
        /\ UNCHANGED crashes

Signal == /\ signals < MaxSignals /\ signals' = signals + 1
          /\ main \in {"check", "select", "join"} /\ sig = "none"
          /\ sig' = "commit" /\ term' \in BOOLEAN
          /\ UNCHANGED <<table, client, main, thread, quit, issued, sent, crashes>>

(* sigint_handler, sigterm_handler.                                        *)
SignalCommit == /\ sig = "commit" /\ sig' = "begin"
                /\ commit
                /\ UNCHANGED <<rows, dirty, client, main, thread, quit, term,
                               signals, issued, sent, crashes>>

SignalBegin ==
  /\ sig = "begin" /\ sig' = "none"
  /\ \/ MayBegin /\ begin /\ quit' = (quit \/ term) /\ UNCHANGED main
     \/ ~MayBegin /\ main' = "dead" /\ UNCHANGED <<committed, inTx, quit>>
  /\ UNCHANGED <<rows, dirty, client, thread, term, signals, issued, sent, crashes>>

Crash == main # "down" /\ crashes < MaxCrash /\ crashes' = crashes + 1 /\ Gone

(* The next build, or bitbake-prserv --start, starts the server again.     *)
Start == /\ main = "down"
         /\ main' = "check" /\ th' = "check" /\ quit' = FALSE
         /\ UNCHANGED <<table, client, serving, result, signal, issued, sent,
                        crashes>>

-----------------------------------------------------------------------------
(* The clients: tasks of a build, the bitbake-prserv tools.                *)

Send(c) == /\ sent < MaxRequests /\ sent' = sent + 1
           /\ main # "down" /\ asked[c] = "no"
           /\ \E r \in Requests : request' = [request EXCEPT ![c] = r]
           /\ asked' = [asked EXCEPT ![c] = "sent"]
           /\ UNCHANGED <<table, queue, main, thread, quit, signal, issued, crashes>>

(* The 60 second timeout of _create_server.                                *)
GiveUp(c) ==
  /\ MayGiveUp
  /\ \/ /\ asked[c] = "sent" /\ asked' = [asked EXCEPT ![c] = "no"]
        /\ request' = [request EXCEPT ![c] = Nothing]
     \/ /\ asked[c] = "queued" /\ asked' = [asked EXCEPT ![c] = "gone"]
        /\ UNCHANGED request
  /\ UNCHANGED <<table, queue, main, thread, quit, signal, issued, sent, crashes>>

Thread == \/ ThreadCheck \/ Take \/ Serve \/ Reply \/ ReplyFails
          \/ ThreadCommit \/ ThreadBegin
Main == \/ MainCheck \/ NoRequest \/ Join \/ SignalCommit \/ SignalBegin
        \/ \E c \in Clients : Accept(c)
Environment == Signal \/ Crash \/ Start \/ \E c \in Clients : Send(c) \/ GiveUp(c)

Next == Thread \/ Main \/ Environment

Spec == Init /\ [][Next]_vars

(* Both threads are scheduled.                                             *)
FairSpec == Spec /\ WF_vars(Thread) /\ WF_vars(Main)

-----------------------------------------------------------------------------
(* Properties.                                                             *)

Answers == [pkg : Pkgs, sum : Sums, value : Nat]
Tables  == [Pkgs -> [Sums -> Nat \cup {-1}]]

(* Types of the variables.                                                 *)
TypeOK ==
  /\ rows \in Tables /\ committed \in Tables
  /\ inTx \in BOOLEAN /\ dirty \in BOOLEAN
  /\ queue \in Seq(Clients) /\ request \in [Clients -> Requests \cup {Nothing}]
  /\ asked \in [Clients -> {"no", "sent", "queued", "gone"}]
  /\ main \in {"check", "select", "join", "down", "dead"}
  /\ th \in {"check", "get", "serve", "reply", "commit", "begin", "errcommit",
             "errbegin", "done", "dead"}
  /\ serving \in Clients /\ result \in Nat
  /\ quit \in BOOLEAN /\ sig \in {"none", "commit", "begin"} /\ term \in BOOLEAN
  /\ issued \in Seq(Answers)
  /\ sent \in Nat /\ signals \in Nat /\ crashes \in Nat

(* db.py: in no-history mode the value returned for a version and pkgarch  *)
(* can not be decremented.                                                 *)
NeverDecremented ==
  \A i, j \in 1 .. Len(issued) :
     (i < j /\ issued[i].pkg = issued[j].pkg)
       => issued[i].value <= issued[j].value

(* db.py: in history mode the same query gets the same answer, and another *)
(* checksum another number.                                                *)
Historical ==
  \A i, j \in 1 .. Len(issued) :
     issued[i].pkg = issued[j].pkg
       => (issued[i].value = issued[j].value <=> issued[i].sum = issued[j].sum)

(* Answers whose row is not on disk.                                       *)
Unsaved == {i \in 1 .. Len(issued) :
              committed[issued[i].pkg][issued[i].sum] < issued[i].value}

(* The answer is sent before its row is committed, but the handler thread  *)
(* commits before it takes the next request: a server that dies loses one  *)
(* answered value at most.                                                 *)
LosesOneAnswer ==
  /\ Cardinality(Unsaved) <= crashes + 1
  /\ th \in {"get", "done"} => Cardinality(Unsaved) <= crashes

(* Nothing is left uncommitted when the handler thread waits or has ended. *)
Synced ==
  /\ (~dirty \/ th \in {"begin", "errbegin", "dead"}) => committed = rows
  /\ th \in {"check", "get", "serve", "done"} => ~dirty
  /\ th \in {"begin", "commit"} => dirty
  /\ main = "down" => th = "done"

(* The clients in the queue and the one being served are different ones,   *)
(* and stay until they are settled.                                        *)
Served ==
  /\ \A i \in 1 .. Len(queue) : asked[queue[i]] \in {"queued", "gone"}
  /\ \A i, j \in 1 .. Len(queue) : queue[i] = queue[j] => i = j
  /\ th \in {"serve", "reply"} =>
       /\ asked[serving] \in {"queued", "gone"}
       /\ \A i \in 1 .. Len(queue) : queue[i] # serving

(* The value about to be answered is a row's, and the highest one.         *)
Ready == LET r == request[serving] IN
           (th = "reply" /\ r.op = "get")
             => r.sum \in Highest(r.pkg) /\ result = rows[r.pkg][r.sum]

(* Every value issued is still reached by a row.                           *)
Reached == \A i \in 1 .. Len(issued) :
             \E s \in Sums : issued[i].value <= rows[issued[i].pkg][s]

(* What is left of db.py's promise: it holds until the process is killed.  *)
UnlessKilled == crashes = 0 => NeverDecremented

(* The inductive invariant behind UnlessKilled (getValue, sync).           *)
PRInv == /\ TypeOK /\ Served /\ Synced /\ Ready
         /\ crashes = 0 => Reached /\ NeverDecremented

(* Every request is answered, or its connection is closed.                 *)
Answered == \A c \in Clients : (asked[c] \in {"sent", "queued"}) ~> (asked[c] = "no")
=============================================================================
