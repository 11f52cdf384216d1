-------------------------------- MODULE Rows --------------------------------
(***************************************************************************)
(* Result sets: a statement is executed, its first page becomes a Rows     *)
(* value, Rows::stream pages through the server-side cursor with sqlmore,  *)
(* and the destructors of Rows and of the stream release that cursor with  *)
(* a best-effort sqlclose.                                                 *)
(*                                                                         *)
(* The connection is what Dispatcher shows it to be: requests reach the    *)
(* daemon in the order in which they were queued, each answer reaches the  *)
(* call it belongs to, the answer of a call that was given up is thrown    *)
(* away, and a connection that dies fails every call on it.                *)
(***************************************************************************)
EXTENDS Naturals, Sequences, FiniteSets

CONSTANTS
  Statements,   \* the executions on this connection
  RowCount,     \* how many rows the result set of each has
  PageSize,     \* ExecuteOptions::resolved_rows, for execute and sqlmore
  MaxErrs,      \* bound: errors after which a caller stops polling a stream
  OffRuntime,   \* those whose destructors may run outside of a runtime
  FailedPages   \* those whose sqlmore may fail with the shape of a result

ASSUME RowsAssumption ==
  /\ RowCount \in [Statements -> Nat]
  /\ PageSize \in Nat \ {0}
  /\ MaxErrs \in Nat
  /\ OffRuntime \subseteq Statements /\ FailedPages \subseteq Statements

VARIABLES
  pc,       \* where the owner of each statement is
  buf,      \* StreamState::rows, or the first page held by Rows
  done,     \* is_done of the last page
  cursor,   \* Rows::cursor, then StreamState::cont_id, is Some
  seen,     \* items the stream has yielded: row numbers, and Err
  closing,  \* sqlclose tasks spawned and not yet queued
  wire,     \* requests on their way to the daemon
  reply,    \* the answer the owner is waiting for
  server,   \* external: the daemon's cursor
  conn      \* the connection

clientVars == <<pc, buf, done, cursor, seen, closing>>
vars == <<pc, buf, done, cursor, seen, closing, wire, reply, server, conn>>
-----------------------------------------------------------------------------
Err    == 0
NoPage == [tag |-> "none"]
Fail   == [tag |-> "fail"]
Page(rows, isDone) == [tag |-> "page", rows |-> rows, is_done |-> isDone]

Reply == {NoPage, Fail} \cup [tag : {"page"}, rows : Seq(Nat), is_done : BOOLEAN]

TypeOK ==
  /\ pc \in [Statements -> {"idle", "executing", "rows", "stream", "fetching", "ended", "dropped",
                           "abandoned"}]
  /\ buf \in [Statements -> Seq(Nat)] /\ seen \in [Statements -> Seq(Nat)]
  /\ done \in [Statements -> BOOLEAN] /\ cursor \in [Statements -> BOOLEAN]
  /\ closing \in [Statements -> 0..1]
  /\ wire \in Seq([op : {"execute", "sqlmore", "sqlclose"}, of : Statements])
  /\ reply \in [Statements -> Reply]
  /\ server \in [Statements -> [state : {"none", "open", "released"}, next : Nat]]
  /\ \A s \in Statements :
       /\ buf[s] \in Seq(1..RowCount[s]) /\ Len(buf[s]) <= PageSize
       /\ seen[s] \in Seq(0..RowCount[s])
       /\ reply[s].tag = "page" => reply[s].rows \in Seq(1..RowCount[s]) /\ Len(reply[s].rows) <= PageSize
       /\ server[s].next \in 1..(RowCount[s] + 1)
  /\ conn \in {"up", "down"}

Init ==
  /\ pc = [s \in Statements |-> "idle"]
  /\ buf = [s \in Statements |-> << >>]
  /\ done = [s \in Statements |-> FALSE]
  /\ cursor = [s \in Statements |-> FALSE]
  /\ seen = [s \in Statements |-> << >>]
  /\ closing = [s \in Statements |-> 0]
  /\ wire = << >>
  /\ reply = [s \in Statements |-> NoPage]
  /\ server = [s \in Statements |-> [state |-> "none", next |-> 1]]
  /\ conn = "up"

Errors(s) == Cardinality({k \in 1..Len(seen[s]) : seen[s][k] = Err})
Yield(s, item) == seen' = [seen EXCEPT ![s] = Append(@, item)]

(* DispatcherHandle::send: on a dead connection the answer is Err(Closed). *)
send(s, op) ==
  IF conn = "up"
  THEN wire' = Append(wire, [op |-> op, of |-> s]) /\ reply' = [reply EXCEPT ![s] = NoPage]
  ELSE wire' = wire /\ reply' = [reply EXCEPT ![s] = Fail]

(* spawn_close: a task if there is a runtime, nothing otherwise.           *)
spawn_close(s) ==
  \/ closing' = [closing EXCEPT ![s] = @ + 1]
  \/ s \in OffRuntime /\ UNCHANGED closing
-----------------------------------------------------------------------------
(* Job::execute_inner, Job::execute_sets, Query::execute_inner.            *)
Execute(s) ==
  /\ pc[s] = "idle"
  /\ pc' = [pc EXCEPT ![s] = "executing"]
  /\ send(s, "execute")
  /\ UNCHANGED <<buf, done, cursor, seen, closing, server, conn>>

(* The future is dropped before it resolves: there is no Rows to drop, so  *)
(* nothing closes the cursor the request may have opened.                  *)
CancelExecute(s) ==
  /\ pc[s] = "executing"
  /\ pc' = [pc EXCEPT ![s] = "abandoned"]
  /\ UNCHANGED <<buf, done, cursor, seen, closing, wire, reply, server, conn>>

ExecuteError(s) ==
  /\ pc[s] = "executing" /\ reply[s].tag = "fail"
  /\ pc' = [pc EXCEPT ![s] = "abandoned"]
  /\ UNCHANGED <<buf, done, cursor, seen, closing, wire, reply, server, conn>>

(* Rows::new: no cursor to own when the first page is already done.        *)
NewRows(s) ==
  /\ pc[s] = "executing" /\ reply[s].tag = "page"
  /\ pc' = [pc EXCEPT ![s] = "rows"]
  /\ buf' = [buf EXCEPT ![s] = reply[s].rows]
  /\ done' = [done EXCEPT ![s] = reply[s].is_done]
  /\ cursor' = [cursor EXCEPT ![s] = ~reply[s].is_done]
  /\ UNCHANGED <<seen, closing, wire, reply, server, conn>>

(* Drop for Rows.                                                          *)
DropRows(s) ==
  /\ pc[s] = "rows"
  /\ pc' = [pc EXCEPT ![s] = "dropped"]
  /\ IF cursor[s] THEN spawn_close(s) ELSE UNCHANGED closing
  /\ cursor' = [cursor EXCEPT ![s] = FALSE]
  /\ UNCHANGED <<buf, done, seen, wire, reply, server, conn>>

(* Mutant of Stream: the handle is cloned, so the Rows that `stream'       *)
(* consumes closes the cursor when it is dropped at the end.               *)
StreamClones(s) ==
  /\ pc[s] = "rows"
  /\ pc' = [pc EXCEPT ![s] = "stream"]
  /\ IF cursor[s] THEN spawn_close(s) ELSE UNCHANGED closing
  /\ UNCHANGED <<buf, done, cursor, seen, wire, reply, server, conn>>

(* Rows::stream takes the cursor and the page, so that dropping what is    *)
(* left of Rows does nothing.                                              *)
Stream(s) ==
  /\ pc[s] = "rows"
  /\ pc' = [pc EXCEPT ![s] = "stream"]
  /\ UNCHANGED <<buf, done, cursor, seen, closing, wire, reply, server, conn>>

(* The closure of `unfold', from the top: a row at hand is yielded.        *)
PollRow(s) ==
  /\ pc[s] = "stream" /\ buf[s] # << >>
  /\ Yield(s, Head(buf[s]))
  /\ buf' = [buf EXCEPT ![s] = Tail(@)]
  /\ UNCHANGED <<pc, done, cursor, closing, wire, reply, server, conn>>

(* It returns None, which drops the state: done, or no cursor, so nothing  *)
(* to close.                                                               *)
PollEnd(s) ==
  /\ pc[s] = "stream" /\ buf[s] = << >>
  /\ done[s] \/ ~cursor[s]
  /\ pc' = [pc EXCEPT ![s] = "ended"]
  /\ UNCHANGED <<buf, done, cursor, seen, closing, wire, reply, server, conn>>

(* It asks for the next page.                                              *)
PollMore(s) ==
  /\ pc[s] = "stream" /\ buf[s] = << >> /\ ~done[s] /\ cursor[s]
  /\ Errors(s) < MaxErrs
  /\ pc' = [pc EXCEPT ![s] = "fetching"]
  /\ send(s, "sqlmore")
  /\ UNCHANGED <<buf, done, cursor, seen, closing, server, conn>>

(* A page with rows: the first is yielded at once.                         *)
ReceiveRows(s) ==
  /\ pc[s] = "fetching" /\ reply[s].tag = "page" /\ reply[s].rows # << >>
  /\ Yield(s, Head(reply[s].rows))
  /\ buf' = [buf EXCEPT ![s] = Tail(reply[s].rows)]
  /\ done' = [done EXCEPT ![s] = reply[s].is_done]
  /\ pc' = [pc EXCEPT ![s] = "stream"]
  /\ UNCHANGED <<cursor, closing, wire, reply, server, conn>>

(* An empty last page: None.                                               *)
ReceiveEnd(s) ==
  /\ pc[s] = "fetching" /\ reply[s].tag = "page" /\ reply[s].rows = << >> /\ reply[s].is_done
  /\ done' = [done EXCEPT ![s] = TRUE]
  /\ pc' = [pc EXCEPT ![s] = "ended"]
  /\ UNCHANGED <<buf, cursor, seen, closing, wire, reply, server, conn>>

(* Mutant of ReceiveEmpty: closes, but leaves the cursor to the destructor *)
(* and the stream open.                                                    *)
ReceiveEmptyKeepsCursor(s) ==
  /\ pc[s] = "fetching" /\ reply[s].tag = "page" /\ reply[s].rows = << >> /\ ~reply[s].is_done
  /\ IF cursor[s] THEN spawn_close(s) ELSE UNCHANGED closing
  /\ Yield(s, Err)
  /\ pc' = [pc EXCEPT ![s] = "stream"]
  /\ UNCHANGED <<buf, done, cursor, wire, reply, server, conn>>

(* Mutant of ReceiveEmpty: asks again, for as long as it takes.            *)
ReceiveEmptyRetries(s) ==
  /\ pc[s] = "fetching" /\ reply[s].tag = "page" /\ reply[s].rows = << >> /\ ~reply[s].is_done
  /\ pc' = [pc EXCEPT ![s] = "stream"]
  /\ UNCHANGED <<buf, done, cursor, seen, closing, wire, reply, server, conn>>

(* An empty page that is not the last: close, fail, and end the stream.    *)
ReceiveEmpty(s) ==
  /\ pc[s] = "fetching" /\ reply[s].tag = "page" /\ reply[s].rows = << >> /\ ~reply[s].is_done
  /\ IF cursor[s] THEN spawn_close(s) ELSE UNCHANGED closing
  /\ cursor' = [cursor EXCEPT ![s] = FALSE]
  /\ done' = [done EXCEPT ![s] = TRUE]
  /\ Yield(s, Err)
  /\ pc' = [pc EXCEPT ![s] = "stream"]
  /\ UNCHANGED <<buf, wire, reply, server, conn>>

(* Mutant of ReceiveError: the page that was lost is passed over.          *)
ReceiveErrorSkips(s) ==
  /\ pc[s] = "fetching" /\ reply[s].tag = "fail"
  /\ pc' = [pc EXCEPT ![s] = "stream"]
  /\ UNCHANGED <<buf, done, cursor, seen, closing, wire, reply, server, conn>>

(* An error response, any other response, or a failed send: it is yielded  *)
(* and the state kept, so that the next poll asks again.                   *)
ReceiveError(s) ==
  /\ pc[s] = "fetching" /\ reply[s].tag = "fail"
  /\ Yield(s, Err)
  /\ pc' = [pc EXCEPT ![s] = "stream"]
  /\ UNCHANGED <<buf, done, cursor, closing, wire, reply, server, conn>>

(* Mutant of DropStream: a fetch under way is taken to own the cursor.     *)
DropStreamIdleOnly(s) ==
  /\ pc[s] \in {"stream", "fetching"}
  /\ pc' = [pc EXCEPT ![s] = "dropped"]
  /\ IF pc[s] = "stream" /\ ~done[s] /\ cursor[s] THEN spawn_close(s) ELSE UNCHANGED closing
  /\ cursor' = [cursor EXCEPT ![s] = FALSE]
  /\ UNCHANGED <<buf, done, seen, wire, reply, server, conn>>

(* Drop for StreamState, between two polls or with a fetch under way.      *)
DropStream(s) ==
  /\ pc[s] \in {"stream", "fetching"}
  /\ pc' = [pc EXCEPT ![s] = "dropped"]
  /\ IF ~done[s] /\ cursor[s] THEN spawn_close(s) ELSE UNCHANGED closing
  /\ cursor' = [cursor EXCEPT ![s] = FALSE]
  /\ UNCHANGED <<buf, done, seen, wire, reply, server, conn>>

(* The spawned task queues its sqlclose, or finds the connection closed;   *)
(* it ignores the answer.                                                  *)
QueueClose(s) ==
  /\ closing[s] > 0
  /\ closing' = [closing EXCEPT ![s] = @ - 1]
  /\ wire' = IF conn = "up" THEN Append(wire, [op |-> "sqlclose", of |-> s]) ELSE wire
  /\ UNCHANGED <<pc, buf, done, cursor, seen, reply, server, conn>>
-----------------------------------------------------------------------------
(* External: the daemon serves requests in order.                          *)

(* The next page of s, full unless the result set ends.  The daemon knows  *)
(* that it has ended from a short page, or already from the last full one. *)
NextPage(s, isDone) ==
  LET first == server[s].next
      last  == IF first + PageSize - 1 < RowCount[s] THEN first + PageSize - 1 ELSE RowCount[s]
      rows  == [k \in 1..(last - first + 1) |-> first + k - 1]
  IN /\ last < RowCount[s] => ~isDone
     /\ Len(rows) < PageSize => isDone
     /\ server' = [server EXCEPT ![s] = [state |-> IF isDone THEN "released" ELSE "open",
                                         next  |-> last + 1]]
     /\ reply' \in {[reply EXCEPT ![s] = Page(rows, isDone)], [reply EXCEPT ![s] = Fail]}

Serving(s, op) ==
  /\ wire # << >> /\ Head(wire) = [op |-> op, of |-> s]
  /\ wire' = Tail(wire)
  /\ UNCHANGED <<clientVars, conn>>

(* It runs the statement (and its answer may not be understood), or not.   *)
ServeExecute(s) ==
  /\ Serving(s, "execute")
  /\ \/ \E isDone \in BOOLEAN : NextPage(s, isDone)
     \/ reply' = [reply EXCEPT ![s] = Fail] /\ UNCHANGED server

(* It sends a page, refuses (always without a cursor), or sends an empty   *)
(* page although there is more.                                            *)
ServeMore(s) ==
  /\ Serving(s, "sqlmore")
  /\ \/ server[s].state = "open" /\ \E isDone \in BOOLEAN : NextPage(s, isDone)
     \/ reply' = [reply EXCEPT ![s] = Fail] /\ UNCHANGED server
     \/ /\ server[s].state = "open"
        /\ reply' = [reply EXCEPT ![s] = Page(<< >>, FALSE)] /\ UNCHANGED server

(* A failure reported with `data: []' and no is_done: decode_value makes a *)
(* QueryResult of it, and the default of is_done is TRUE.                  *)
ServeFailedPage(s) ==
  /\ s \in FailedPages
  /\ Serving(s, "sqlmore")
  /\ reply' = [reply EXCEPT ![s] = Page(<< >>, TRUE)]
  /\ UNCHANGED server

ServeClose(s) ==
  /\ Serving(s, "sqlclose")
  /\ server' = [server EXCEPT ![s].state = "released"]
  /\ UNCHANGED reply

(* The connection dies, or the pool drops the Job under its Rows: calls    *)
(* fail, and the daemon still has the cursors.                             *)
ConnDown ==
  /\ conn = "up"
  /\ conn' = "down"
  /\ wire' = << >>
  /\ reply' = [s \in Statements |-> IF pc[s] \in {"executing", "fetching"} /\ reply[s] = NoPage
                                    THEN Fail ELSE reply[s]]
  /\ UNCHANGED <<clientVars, server>>

(* External: a cursor that is open then is left to the daemon's idle timer.*)
IdleTimer(s) ==
  /\ conn = "down" /\ server[s].state = "open"
  /\ server' = [server EXCEPT ![s].state = "released"]
  /\ UNCHANGED <<clientVars, wire, reply, conn>>
-----------------------------------------------------------------------------
Resolve(s) == \/ NewRows(s) \/ ExecuteError(s)
              \/ ReceiveRows(s) \/ ReceiveEnd(s) \/ ReceiveEmpty(s) \/ ReceiveError(s)

Poll(s) == PollRow(s) \/ PollEnd(s) \/ PollMore(s)

Drop(s) == CancelExecute(s) \/ DropRows(s) \/ DropStream(s)

Serve(s) == ServeExecute(s) \/ ServeMore(s) \/ ServeFailedPage(s) \/ ServeClose(s)

Next == \/ \E s \in Statements : \/ Execute(s) \/ Resolve(s) \/ Stream(s) \/ Poll(s) \/ Drop(s)
                                 \/ QueueClose(s) \/ Serve(s) \/ IdleTimer(s)
        \/ ConnDown

Spec == Init /\ [][Next]_vars

(* Spawned tasks are polled, the daemon serves what it is sent, and its    *)
(* idle timer runs.                                                        *)
FairSpec ==
  Spec /\ \A s \in Statements : WF_vars(QueueClose(s)) /\ WF_vars(Serve(s)) /\ WF_vars(IdleTimer(s))

(* Moreover the caller polls to the end and gives nothing up.              *)
DrivenSpec == FairSpec /\ \A s \in Statements : WF_vars(Stream(s) \/ Poll(s) \/ Resolve(s))
-----------------------------------------------------------------------------
(* Properties.                                                             *)

Delivered(s) == {k \in 1..Len(seen[s]) : seen[s][k] # Err}

(* Rows come in order and none is left out or repeated without an Err that *)
(* says so: up to the first Err the stream is a prefix of the result set,  *)
(* and a stream that ends without one has yielded all of it, provided that *)
(* the daemon reports a failed sqlmore as an error.                        *)
NoSilentLoss ==
  \A s \in Statements :
    /\ \A k \in 1..Len(seen[s]) : (\A m \in 1..k : seen[s][m] # Err) => seen[s][k] = k
    /\ \A j, k \in Delivered(s) : j < k => seen[s][j] < seen[s][k]
    /\ s \notin FailedPages /\ pc[s] = "ended" /\ Errors(s) = 0 => Len(seen[s]) = RowCount[s]

ToClose(s) == Cardinality({k \in 1..Len(wire) : wire[k] = [op |-> "sqlclose", of |-> s]}) + closing[s]

(* Who will close the cursor: sqlclose requests on their way, and the Rows *)
(* or stream that still owns it.                                           *)
Closers(s) == ToClose(s) + (IF cursor[s] /\ ~done[s] /\ pc[s] # "ended" THEN 1 ELSE 0)

(* Every destructor leaves the cursor to at most one sqlclose, and while   *)
(* somebody may still page through it, to none; and while the connection   *)
(* is up a cursor the daemon has open is left to nobody only where its     *)
(* execute was given up or not understood, there was no runtime, or a      *)
(* failed page looked like the end.                                        *)
ClosedByOwnerOnly ==
  \A s \in Statements :
    /\ Closers(s) <= 1
    /\ conn = "up" /\ server[s].state = "open" /\ Closers(s) = 0 =>
         pc[s] \in {"executing", "abandoned"} \/ s \in OffRuntime \cup FailedPages

(* No sqlmore is queued behind the sqlclose of its cursor: the daemon is   *)
(* never asked for a page of a cursor this client has released.            *)
NoFetchAfterClose ==
  \A s \in Statements : \A j, k \in 1..Len(wire) :
    j < k /\ wire[j] = [op |-> "sqlclose", of |-> s] => wire[k] # [op |-> "sqlmore", of |-> s]

(* Dropped before, between or in the middle of a fetch, read to the end or *)
(* to an error: the daemon's cursor is released, by the client or, once    *)
(* the connection is down, by the daemon's idle timer, if there is a       *)
(* runtime to do it and failures look like failures.  The one exception is *)
(* an execute whose future was dropped or whose answer was not understood: *)
(* it leaves no one who knows the cursor.                                  *)
CursorReleased ==
  \A s \in Statements \ (OffRuntime \cup FailedPages) :
    pc[s] \in {"ended", "dropped"} ~> server[s].state = "released"

(* A caller that keeps polling reaches the end of the stream, or an error. *)
StreamEnds ==
  \A s \in Statements :
    (pc[s] = "stream") ~> (pc[s] \in {"ended", "dropped"} \/ Errors(s) > 0)
=============================================================================
