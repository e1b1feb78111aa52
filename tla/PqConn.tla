-------------------------------- MODULE PqConn --------------------------------
(***************************************************************************)
(* A connection to the database: the driver under src/lib/database.go      *)
(* (src/lib/Godeps/.../lib/pq/conn.go), with the server it talks to and    *)
(* one user at a time, as database/sql gives a connection out.             *)
(*                                                                         *)
(* The user calls a method; the method sends a request and reads messages  *)
(* in a loop of its own until the server is ready again.  A message is its *)
(* letter, a value and the number of the request it answers.  What the     *)
(* loops pass over (N, A, S, K) and what rows hold is left out.  The server *)
(* answers while the loop reads: a text of several statements, one by one. *)
(***************************************************************************)
EXTENDS Integers, Sequences

CONSTANTS
    Texts,          \* the texts the user sends: sequences of statements
    Simple,         \* the methods of the user, by interface: those that send
    Extended,       \* a text, and those that prepare one statement
    MaxRequests,    \* bound on the requests sent
    MaxRows         \* bound on the rows of a result

Statement == {"BEGIN", "COMMIT", "ROLLBACK", "SELECT", "UPDATE"}
ASSUME TextsAssumption == Texts \subseteq Seq(Statement)
ASSUME MethodsAssumption ==
    /\ Simple \subseteq {"Exec", "Query"}
    /\ Extended \subseteq {"ExecArgs", "QueryArgs", "Prepare", "StmtExec", "StmtQuery"}
ASSUME BoundsAssumption == MaxRequests \in Nat /\ MaxRows \in Nat

VARIABLES
    loop,       \* the loop that reads messages, "none", or "closed"
    call,       \* the method that is under way
    err,        \* its variable err: "nil", or the severity of an error
    res,        \* its result: "nil", a command tag, "rows" or "done"
    bad,        \* cn.bad
    txn,        \* cn.txnStatus
    saved,      \* cn.saveMessageType and its buffer: at most one message
    rows,       \* the rows the user holds: "none", "open" or "done"
    prepared,   \* the user holds a statement
    inTx,       \* the user holds a transaction
    answer,     \* what the last method returned
    inbox,      \* the messages under way
    link,       \* "up", or how reading ends: "eof", "reset", "torn"
    requests,   \* how many were sent
    asked,      \* those that the server has not run to the end
    server,     \* the server: transaction status, how the last statement went
    mixed,      \* history: a message was read that answers an earlier request
    strayed     \* history: rows were closed before the second result

method == <<call, prepared, inTx>>
history == <<mixed, strayed>>
vars == <<loop, method, err, res, bad, txn, saved, rows, answer,
          inbox, link, requests, asked, server, history>>

NoMessage == [t |-> "none", v |-> "", n |-> 0]
Message ==
    [t : {"1", "2", "3", "D", "I", "T", "n", "t", "none"}, v : {""}, n : Nat]
        \cup [t : {"C"}, v : Statement, n : Nat]
        \cup [t : {"E"}, v : {"ERROR", "FATAL"}, n : Nat]
        \cup [t : {"Z"}, v : {"I", "T", "E"}, n : Nat]
        \cup [t : {"R"}, v : {"ok", "password", "other"}, n : Nat]
Request == [run : {"text", "prepare", "bound", "close"}, text : Seq(Statement), n : Nat]

Init ==
    /\ loop = "closed" /\ call = "none" /\ err = "nil" /\ res = "nil"
    /\ bad = FALSE /\ txn = "I" /\ saved = NoMessage /\ rows = "none"
    /\ prepared = FALSE /\ inTx = FALSE /\ answer = "nil"
    /\ inbox = <<>> /\ link = "up" /\ requests = 0 /\ asked = <<>>
    /\ server = [txn |-> "I", went |-> "done"]
    /\ mixed = FALSE /\ strayed = FALSE

InTransaction(status) == status \in {"T", "E"}

-----------------------------------------------------------------------------
(* The server.  A statement has one of several outcomes: its messages, the *)
(* status after it, and how it went.                                       *)
Msg(t, v) == [t |-> t, v |-> v, n |-> Head(asked).n]
Outcome(msgs, status, went) == [msgs |-> msgs, txn |-> status, went |-> went]

Failure(msgs, status) ==
    Outcome(Append(msgs, Msg("E", "ERROR")), IF status = "I" THEN "I" ELSE "E", "failed")
Success(msgs, s, status) == Outcome(Append(msgs, Msg("C", s)), status, "done")

(* Rows, with the header that a text gets and a bound statement does not.  *)
RowsOf(header, k) == [j \in 1..header + k |-> Msg(IF j <= header THEN "T" ELSE "D", "")]

Run(s, status, header) ==
    CASE status = "E" /\ s = "COMMIT" ->
            {Outcome(<<Msg("C", "ROLLBACK")>>, "I", "undone")}
      [] status = "E" /\ s \notin {"COMMIT", "ROLLBACK"} -> {Failure(<<>>, status)}
      [] status # "E" /\ s = "BEGIN" -> {Success(<<>>, s, "T")}
      [] status # "E" /\ s = "COMMIT" ->
            {Success(<<>>, s, "I"), Outcome(<<Msg("E", "ERROR")>>, "I", "failed")}
      [] s = "ROLLBACK" -> {Outcome(<<Msg("C", s)>>, "I", "undone")}
      [] status # "E" /\ s = "UPDATE" -> {Success(<<>>, s, status), Failure(<<>>, status)}
      [] status # "E" /\ s = "SELECT" ->
            {Success(RowsOf(header, k), s, status) : k \in 0..MaxRows}
            \cup {Failure(RowsOf(header, k), status) : k \in 0..MaxRows}
            \cup {Failure(<<>>, status)}

(* The next statement of a text; an empty text is told.                    *)
RunText(text) ==
    IF text = <<>> THEN {Outcome(<<Msg("I", "")>>, server.txn, "done")}
    ELSE Run(Head(text), server.txn, 1)

(* P, D and S; B, E and S; C and S.                                        *)
RunPrepare ==
    {Failure(<<>>, server.txn)} \cup
    IF server.txn = "E" THEN {}
    ELSE {Outcome(<<Msg("1", ""), Msg("t", ""), Msg(row, "")>>, server.txn, "done") :
             row \in {"T", "n"}}
RunBound ==
    {Failure(<<>>, server.txn)} \cup
    {Outcome(<<Msg("2", "")>> \o o.msgs, o.txn, o.went) :
        o \in UNION {Run(s, server.txn, 0) : s \in {"SELECT", "UPDATE"}}}
RunClose == {Outcome(<<Msg("3", "")>>, server.txn, "done")}

Outcomes(r) ==
    CASE r.run = "text" -> RunText(r.text)
      [] r.run = "prepare" -> RunPrepare
      [] r.run = "bound" -> RunBound
      [] r.run = "close" -> RunClose

(* The server runs what it was asked first, of a text the next statement.  *)
(* It is ready after the last one, or after one that failed.               *)
Serve ==
    /\ link = "up" /\ asked # <<>>
    /\ \E o \in Outcomes(Head(asked)) :
          /\ server' = [txn |-> o.txn, went |-> o.went]
          /\ IF Len(Head(asked).text) <= 1 \/ o.went = "failed"
             THEN /\ inbox' = inbox \o Append(o.msgs, Msg("Z", o.txn))
                  /\ asked' = Tail(asked)
             ELSE /\ inbox' = inbox \o o.msgs
                  /\ asked' = [asked EXCEPT ![1].text = Tail(@)]
    /\ UNCHANGED <<loop, method, err, res, bad, txn, saved, rows, answer, link, requests,
                   history>>

(* The link breaks, between messages or within one, or the server ends it. *)
Break ==
    /\ link = "up" /\ loop # "closed"
    /\ \/ /\ link' \in {"eof", "reset", "torn"}
          /\ \E k \in 0..Len(inbox) : inbox' = SubSeq(inbox, 1, k)
       \/ /\ link' = "eof"
          /\ inbox' = Append(inbox, [t |-> "E", v |-> "FATAL", n |-> requests])
    /\ asked' = <<>>
    /\ UNCHANGED <<loop, method, err, res, bad, txn, saved, rows, answer, requests,
                   server, history>>

-----------------------------------------------------------------------------
(* A method returns, by itself or by a panic that errRecover makes an      *)
(* error; ErrBadConn marks the connection.                                 *)
Finish(c, a, isBad) ==
    /\ loop' = "none" /\ call' = "none" /\ err' = "nil" /\ res' = "nil"
    /\ answer' = a /\ bad' = (isBad \/ a = "ErrBadConn")
    /\ inTx' = IF c = "Begin" THEN a = "ok"
               ELSE inTx /\ c \notin {"Commit", "CommitFailed", "Rollback"}

Return(a, isBad) == Finish(call, a, isBad)

Recovered(e) == IF e \in {"FATAL", "reset", "eof"} THEN "ErrBadConn" ELSE "error"

(* A request is sent; on a broken link the write fails, or it does not and *)
(* there will be no answer.                                                *)
Send(c, run, text, l) ==
    /\ requests' = requests + 1
    /\ \/ /\ \/ /\ link = "up"
                /\ asked' = Append(asked, [run |-> run, text |-> text, n |-> requests'])
             \/ link \in {"eof", "torn"} /\ UNCHANGED asked
          /\ loop' = l /\ call' = c /\ err' = "nil" /\ res' = "nil" /\ answer' = "nil"
          /\ UNCHANGED <<bad, inTx>>
       \/ link # "up" /\ Finish(c, Recovered("reset"), bad) /\ UNCHANGED asked
    /\ UNCHANGED <<prepared, txn, saved, rows, inbox, link, server, history>>

-----------------------------------------------------------------------------
(* Open.  What fails before the server is ready is returned as it is, and  *)
(* there is no connection; the password is sent when it is asked for.      *)
Gone(a) ==
    /\ loop' = "closed" /\ call' = "none" /\ err' = "nil" /\ res' = "nil"
    /\ bad' = FALSE /\ txn' = "I" /\ saved' = NoMessage /\ rows' = "none"
    /\ prepared' = FALSE /\ inTx' = FALSE /\ answer' = a
    /\ inbox' = <<>> /\ link' = "up" /\ server' = [txn |-> "I", went |-> "done"]
    /\ asked' = <<>> /\ mixed' = FALSE /\ strayed' = FALSE /\ UNCHANGED requests

Hello(t, v) == [t |-> t, v |-> v, n |-> 0]
Welcome == <<Hello("R", "ok"), Hello("Z", "I")>>
Refused == <<Hello("E", "FATAL")>>

Open ==
    /\ loop = "closed" /\ requests < MaxRequests
    /\ \/ Gone("error")
       \/ /\ inbox' \in {Welcome, Refused, <<Hello("R", "password")>>, <<Hello("R", "other")>>}
          /\ loop' = "startup" /\ call' = "Open" /\ requests' = requests + 1 /\ answer' = "nil"
          /\ UNCHANGED <<prepared, inTx, err, res, bad, txn, saved, rows, link, asked, server, history>>

Password ==
    /\ loop = "password"
    /\ \/ /\ IF link = "up" THEN inbox' \in {Welcome, Refused} ELSE UNCHANGED inbox
          /\ loop' = "auth"
          /\ UNCHANGED <<method, err, res, bad, txn, saved, rows, answer, link, requests,
                         asked, server, history>>
       \/ link # "up" /\ Gone("error")

RecvStartup ==
    /\ loop \in {"startup", "auth"}
    /\ \/ inbox = <<>> /\ link # "up" /\ Gone("error")
       \/ /\ inbox # <<>>
          /\ LET m == Head(inbox) IN
             IF (m.t = "R" /\ m.v = "ok") \/ (loop = "startup" /\ (m.v = "password" \/ m.t = "Z"))
             THEN /\ loop' = IF m.v = "ok" THEN "startup"
                             ELSE IF m.v = "password" THEN "password" ELSE "none"
                  /\ IF m.t = "Z" THEN txn' = m.v /\ call' = "none" /\ answer' = "ok"
                     ELSE UNCHANGED <<txn, call, answer>>
                  /\ inbox' = Tail(inbox)
                  /\ UNCHANGED <<prepared, inTx, err, res, bad, saved, rows, link, requests,
                                 asked, server, history>>
             ELSE Gone("error")

-----------------------------------------------------------------------------
(* The methods.  The user of a connection calls one at a time, and none    *)
(* but Next and Close while it holds rows.                                 *)
Idle == loop = "none" /\ ~bad /\ rows = "none" /\ requests < MaxRequests

Exec(text) == Idle /\ "Exec" \in Simple /\ Send("Exec", "text", text, "simpleExec")
Query(text) == Idle /\ "Query" \in Simple /\ Send("Query", "text", text, "simpleQuery")

\* checkIsInTransaction
WrongStatus(c) ==
    /\ Finish(c, "error", TRUE)
    /\ UNCHANGED <<prepared, txn, saved, rows, inbox, link, requests, asked, server, history>>

Begin ==
    /\ Idle /\ ~inTx
    /\ IF InTransaction(txn) THEN WrongStatus("Begin")
       ELSE Send("Begin", "text", <<"BEGIN">>, "simpleExec")

EndTx(c, s) ==
    /\ Idle /\ inTx
    /\ IF ~InTransaction(txn) THEN WrongStatus(c)
       ELSE Send(c, "text", <<s>>, "simpleExec")

Commit == IF txn = "E" THEN EndTx("CommitFailed", "ROLLBACK") ELSE EndTx("Commit", "COMMIT")
Rollback == EndTx("Rollback", "ROLLBACK")

Prepare(c) ==
    /\ Idle /\ c \in {"Prepare", "ExecArgs", "QueryArgs"} /\ (c = "Prepare" => ~prepared)
    /\ Send(c, "prepare", <<>>, "prepareTo")
Execute(c) ==
    /\ Idle /\ c \in {"StmtExec", "StmtQuery"} /\ prepared
    /\ loop' = "bind" /\ call' = c /\ answer' = "nil"
    /\ UNCHANGED <<prepared, inTx, err, res, bad, txn, saved, rows, inbox, link,
                   requests, asked, server, history>>
StmtClose == Idle /\ prepared /\ Send("StmtClose", "close", <<>>, "stmtClose")

(* Parameters are counted before anything is sent.                         *)
Bind ==
    /\ loop = "bind"
    /\ \/ Send(call, "bound", <<>>, "exec")
       \/ /\ Return("error", bad)
          /\ UNCHANGED <<prepared, txn, saved, rows, inbox, link, requests, asked, server, history>>

(* Next and Close of rows: what is done is not read again.                 *)
Fetch(l) ==
    /\ loop = "none" /\ rows # "none" /\ (rows = "done" => l = "close")
    /\ IF rows = "done" \/ bad
       THEN /\ answer' = IF rows = "done" THEN "nil" ELSE "ErrBadConn"
            /\ rows' = IF l = "close" THEN "none" ELSE rows
            /\ UNCHANGED loop
       ELSE loop' = l /\ answer' = "nil" /\ UNCHANGED rows
    /\ UNCHANGED <<method, err, res, bad, txn, saved, inbox, link, requests, asked,
                   server, history>>

(* Every method refuses a bad connection; database/sql closes it then.     *)
Refuse ==
    /\ loop = "none" /\ bad /\ answer' = "ErrBadConn"
    /\ UNCHANGED <<loop, method, err, res, bad, txn, saved, rows, inbox, link, requests,
                   asked, server, history>>

(* database/sql drops the connection whatever Close returns.  On a bad one *)
(* and when the terminate message cannot be sent the code returns before   *)
(* it closes the socket, which is left to the system: it is not modelled.  *)
Close ==
    /\ loop = "none"
    /\ \/ bad /\ Gone("ErrBadConn")
       \/ /\ ~bad /\ rows = "none" /\ ~inTx
          /\ Gone("nil") \/ (link # "up" /\ Gone("error"))

-----------------------------------------------------------------------------
(* What a loop does with the message m it has read.                        *)
Continue(e, r) ==
    /\ err' = e /\ res' = r /\ saved' = NoMessage
    /\ UNCHANGED <<loop, method, bad, txn, rows, answer, strayed>>

Unexpected(isBad) ==
    /\ Return("error", bad \/ isBad) /\ saved' = NoMessage
    /\ UNCHANGED <<prepared, txn, rows, strayed>>

(* Ready for the next query: the status is noted, the method returns.      *)
\* Mutant: the status is not noted.
ReadyNoStatus(m, a, isBad) ==
    /\ saved' = NoMessage /\ Return(a, bad \/ isBad) /\ UNCHANGED <<txn, strayed>>

Ready(m, a, isBad) ==
    /\ txn' = m.v /\ saved' = NoMessage /\ Return(a, bad \/ isBad) /\ UNCHANGED strayed

Result == IF err = "nil" THEN "ok" ELSE "error"

\* What Begin, Commit and Rollback expect: the tag and the status.
Expected == [Begin |-> "BEGIN", Commit |-> "COMMIT",
             CommitFailed |-> "ROLLBACK", Rollback |-> "ROLLBACK"]

\* Mutant: the commit returns what its rollback does.
EndedByRollback == IF call \in {"Commit", "CommitFailed"} THEN "committed" ELSE "ok"

\* A commit of a failed transaction is rolled back, and an error.
Ended == IF call = "Commit" THEN "committed" ELSE IF call = "CommitFailed" THEN "error" ELSE "ok"

ReadSimpleExec(m) ==
    /\ loop = "simpleExec"
    /\ \/ m.t = "C" /\ Continue(err, m.v)
       \/ m.t = "E" /\ Continue(m.v, res)
       \/ m.t \in {"T", "D", "I"} /\ Continue(err, res)
       \/ /\ m.t = "Z" /\ UNCHANGED <<prepared, rows>>
          /\ IF call = "Exec" \/ err # "nil" THEN Ready(m, Result, FALSE)
             ELSE IF res # Expected[call] THEN Ready(m, "error", Expected[call] # "ROLLBACK")
             ELSE IF (call = "Begin" /\ m.v # "T") \/ (call # "Begin" /\ InTransaction(m.v))
             THEN Ready(m, "error", TRUE)
             ELSE Ready(m, Ended, FALSE)
       \/ m.t \notin {"C", "E", "T", "D", "I", "Z"} /\ Unexpected(TRUE)

\* Mutant: a result without rows is left to be read.
NoRowsUnread == "open"

\* A result without rows has been read to its end.
NoRows == "done"

ReadSimpleQuery(m) ==
    /\ loop = "simpleQuery"
    /\ \/ m.t \in {"C", "I"} /\ err = "nil" /\ Continue(err, NoRows)
       \/ m.t = "E" /\ Continue(m.v, "nil")
       \/ m.t = "T" /\ Continue(err, "open")
       \/ /\ m.t = "Z" /\ rows' = IF err = "nil" /\ res # "nil" THEN res ELSE "none"
          /\ Ready(m, Result, FALSE) /\ UNCHANGED prepared
       \/ /\ m.t = "D" /\ res # "nil"
          /\ saved' = m /\ rows' = res /\ Return("rows", bad) /\ UNCHANGED <<prepared, txn, strayed>>
       \/ /\ \/ m.t \in {"C", "I"} /\ err # "nil"
             \/ m.t = "D" /\ res = "nil"
             \/ m.t \notin {"C", "I", "E", "T", "Z", "D"}
          /\ Unexpected(TRUE)

ReadPrepareTo(m) ==
    /\ loop = "prepareTo"
    /\ \/ m.t \in {"1", "t", "T", "n"} /\ Continue(err, res)
       \/ m.t = "E" /\ Continue(m.v, res)
       \/ /\ m.t = "Z" /\ UNCHANGED rows
          /\ IF call = "Prepare" \/ err # "nil"
             THEN /\ prepared' = (prepared \/ (call = "Prepare" /\ err = "nil"))
                  /\ Ready(m, Result, FALSE)
             ELSE /\ loop' = "bind" /\ txn' = m.v /\ saved' = NoMessage
                  /\ UNCHANGED <<method, err, res, bad, answer, strayed>>
       \/ m.t \notin {"1", "t", "T", "n", "E", "Z"} /\ Unexpected(TRUE)

\* The statement is executed: rows for a query, to its end for Exec.
Executed ==
    IF call \in {"StmtQuery", "QueryArgs"}
    THEN rows' = "open" /\ Return("rows", bad) /\ UNCHANGED prepared
    ELSE loop' = "stmtExec" /\ UNCHANGED <<method, err, res, bad, rows, answer>>

ReadExec(m) ==
    /\ loop = "exec"
    /\ \/ m.t = "E" /\ Continue(m.v, res)
       \/ /\ m.t = "2" /\ err = "nil" /\ loop' = "workaround" /\ saved' = NoMessage
          /\ UNCHANGED <<method, err, res, bad, txn, rows, answer, strayed>>
       \/ m.t = "Z" /\ err # "nil" /\ Ready(m, Recovered(err), FALSE) /\ UNCHANGED <<prepared, rows>>
       \/ m.t = "Z" /\ err = "nil" /\ txn' = m.v /\ saved' = NoMessage /\ Executed /\ UNCHANGED strayed
       \/ m.t = "2" /\ err # "nil" /\ Unexpected(FALSE)
       \/ m.t \notin {"E", "2", "Z"} /\ Unexpected(TRUE)

\* Mutant: the error is returned before the server is ready.
ReadWorkaroundEarly(m) ==
    /\ loop = "workaround"
    /\ \/ m.t = "E" /\ Unexpected(FALSE)
       \/ m.t \in {"C", "D", "I"} /\ saved' = m /\ Executed /\ UNCHANGED <<txn, strayed>>

(* One more message, so that the error of a query that fails is its own.   *)
ReadWorkaround(m) ==
    /\ loop = "workaround"
    /\ \/ m.t = "E" /\ Continue(m.v, res)
       \/ m.t \in {"C", "D", "I"} /\ saved' = m /\ Executed /\ UNCHANGED <<txn, strayed>>
       \/ m.t = "Z" /\ err # "nil" /\ Ready(m, Recovered(err), FALSE) /\ UNCHANGED <<prepared, rows>>
       \/ m.t \notin {"E", "C", "D", "I"} /\ (m.t = "Z" => err = "nil") /\ Unexpected(TRUE)

ReadStmtExec(m) ==
    /\ loop = "stmtExec"
    /\ \/ m.t = "E" /\ Continue(m.v, res)
       \/ m.t \in {"C", "T", "D", "I"} /\ Continue(err, res)
       \/ m.t = "Z" /\ Ready(m, Result, FALSE) /\ UNCHANGED <<prepared, rows>>
       \/ m.t \notin {"E", "C", "T", "D", "I", "Z"} /\ Unexpected(TRUE)

ReadStmtClose(m) ==
    /\ loop = "stmtClose" /\ UNCHANGED rows
    /\ \/ /\ m.t = "3" /\ res = "nil" /\ res' = "closed" /\ prepared' = FALSE /\ saved' = NoMessage
          /\ UNCHANGED <<loop, call, inTx, err, bad, txn, answer, strayed>>
       \/ m.t = "Z" /\ res = "closed" /\ Ready(m, "ok", FALSE) /\ UNCHANGED prepared
       \/ (m.t = "3" => res # "nil") /\ (m.t = "Z" => res # "closed") /\ Unexpected(TRUE)

(* Next returns a row; Close reads rows to their end.                      *)
ReadRows(m) ==
    /\ loop \in {"next", "close"}
    /\ \/ m.t = "E" /\ Continue(m.v, res)
       \/ m.t \in {"C", "I"} /\ Continue(err, res)
       \/ m.t = "D" /\ loop = "close" /\ err = "nil" /\ Continue(err, res)
       \/ /\ m.t = "D" /\ (loop = "next" \/ err # "nil") /\ saved' = NoMessage
          /\ Return(IF err = "nil" THEN "rows" ELSE "error", bad)
          /\ rows' = IF loop = "close" THEN "none" ELSE rows
          /\ strayed' = (strayed \/ loop = "close") /\ UNCHANGED <<prepared, txn>>
       \/ /\ m.t = "Z" /\ Ready(m, Result, FALSE) /\ UNCHANGED prepared
          /\ rows' = IF loop = "close" THEN "none" ELSE "done"
       \/ /\ m.t \notin {"E", "C", "I", "D", "Z"} /\ Return("error", bad)
          /\ rows' = IF loop = "close" THEN "none" ELSE rows
          /\ strayed' = (strayed \/ loop = "close") /\ saved' = NoMessage
          /\ UNCHANGED <<prepared, txn>>

ReadMessage(m) ==
    \/ ReadSimpleExec(m) \/ ReadSimpleQuery(m) \/ ReadPrepareTo(m) \/ ReadExec(m)
    \/ ReadWorkaround(m) \/ ReadStmtExec(m) \/ ReadStmtClose(m) \/ ReadRows(m)

Reading == loop \notin {"none", "closed", "bind", "startup", "password", "auth"}

(* recvMessage: the saved message is read again, then those that came.     *)
Recv ==
    /\ Reading
    /\ \/ saved # NoMessage /\ ReadMessage(saved) /\ UNCHANGED <<inbox, mixed>>
       \/ /\ saved = NoMessage /\ inbox # <<>> /\ inbox' = Tail(inbox)
          /\ ReadMessage(Head(inbox)) /\ mixed' = (mixed \/ (Head(inbox).n # requests /\ Head(inbox).v # "FATAL"))
    /\ UNCHANGED <<link, requests, asked, server>>

(* Reading fails: the panic is the method's error.                         *)
RecvFails ==
    /\ Reading /\ saved = NoMessage /\ inbox = <<>> /\ link # "up"
    /\ Return(Recovered(link), bad) /\ link' = IF link = "torn" THEN "eof" ELSE link
    /\ rows' = IF loop = "close" THEN "none" ELSE rows
    /\ UNCHANGED <<prepared, txn, saved, inbox, requests, asked, server, history>>

-----------------------------------------------------------------------------
Driver == Recv \/ RecvFails \/ RecvStartup \/ Password \/ Bind

Next ==
    \/ Open \/ Password \/ RecvStartup \/ Recv \/ RecvFails \/ Bind
    \/ Begin \/ Commit \/ Rollback \/ StmtClose \/ Refuse \/ Close \/ Serve \/ Break
    \/ \E text \in Texts : Exec(text) \/ Query(text)
    \/ \E c \in Extended : Prepare(c) \/ Execute(c)
    \/ \E l \in {"next", "close"} : Fetch(l)

(* A method that was called runs: its goroutine is not held by another.    *)
(* The server runs what it was asked, or the link breaks.                  *)
Fairness == WF_vars(Driver) /\ WF_vars(Serve)
Spec == Init /\ [][Next]_vars /\ Fairness

-----------------------------------------------------------------------------
TypeOK ==
    /\ loop \in {"none", "closed", "startup", "password", "auth", "bind", "simpleExec",
                 "simpleQuery", "prepareTo", "exec", "workaround", "stmtExec",
                 "stmtClose", "next", "close"}
    /\ call \in {"none", "Open", "Begin", "Commit", "CommitFailed", "Rollback", "StmtClose"}
                    \cup Simple \cup Extended
    /\ err \in {"nil", "ERROR", "FATAL"} /\ bad \in BOOLEAN /\ txn \in {"I", "T", "E"}
    /\ res \in {"nil", "open", "done", "closed"} \cup Statement
    /\ loop = "simpleQuery" => res \in {"nil", "open", "done"}
    /\ saved \in Message /\ rows \in {"none", "open", "done"}
    /\ answer \in {"nil", "ok", "committed", "rows", "error", "ErrBadConn"}
    /\ inbox \in Seq(Message) /\ link \in {"up", "eof", "reset", "torn"}
    /\ prepared \in BOOLEAN /\ inTx \in BOOLEAN /\ requests \in Nat
    /\ asked \in Seq(Request) /\ server.txn \in {"I", "T", "E"}
    /\ mixed \in BOOLEAN /\ strayed \in BOOLEAN

(* Whenever a connection can be handed to the next user, nothing of an     *)
(* earlier request is left to read, and the driver and the server agree on *)
(* the transaction.                                                        *)
InStep ==
    (loop = "none" /\ rows # "open" /\ ~bad /\ ~strayed /\ link = "up") =>
        inbox = <<>> /\ saved = NoMessage /\ txn = server.txn

(* What the next user of a connection can rely on.                         *)
ConnInv == TypeOK /\ InStep

(* A method reads only what answers its own request, until the rows of a   *)
(* text with several results are closed at the header of the next one.     *)
NoMixing == mixed => strayed

(* A method, or rows read to their end, report success only if the server  *)
(* ran the request to its end; and a commit only if it was one.            *)
SuccessIsTrue ==
    ~strayed =>
        /\ answer = "ok" => server.went # "failed"
        /\ answer = "committed" => server.went = "done"

(* Every call returns: no loop waits for a message that will not come.     *)
CallsReturn == loop \notin {"none", "closed"} ~> loop \in {"none", "closed"}
=============================================================================
