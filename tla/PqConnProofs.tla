------------------------------ MODULE PqConnProofs ------------------------------
(***************************************************************************)
(* Proofs about PqConn, for any texts and any number of requests and rows. *)
(*                                                                         *)
(* What is under way to a loop is described letter by letter: which may    *)
(* follow which (Follows), and which the loop expects next in the state it *)
(* is in (Expects).  A loop that gets none but those reads on until the    *)
(* server is ready, and so leaves nothing to the next one.                 *)
(***************************************************************************)
EXTENDS PqConn, SequenceTheorems, TLAPS

(* A fatal error is the last message, whatever came before.                *)
Letter(m) == IF m.v = "FATAL" THEN "F" ELSE m.t

(* The letter y may come after x; what describes the rows of a statement   *)
(* that is prepared is the last before Z.                                  *)
Follows(x, y, prep) ==
    \/ y = "F" /\ x # "F"
    \/ y = "Z" /\ x \in {"C", "E", "I", "3", "n"}
    \/ y = "Z" /\ x = "T" /\ prep
    \/ y \in {"D", "C", "E"} /\ x \in {"T", "D", "2"} /\ ~prep
    \/ y \in {"T", "C", "E", "I"} /\ x = "C"
    \/ y = "t" /\ x = "1"
    \/ y \in {"T", "n"} /\ x = "t"

Chain == \A i \in 1..Len(inbox) - 1 : Follows(Letter(inbox[i]), Letter(inbox[i + 1]), loop = "prepareTo")

(* A method that reads, or rows that are read on at the next call.         *)
Busy == Reading \/ (loop = "none" /\ rows = "open" /\ ~bad)

(* The letters that the loop knows what to do with.                        *)
Expects(x) ==
    \/ x = "F"
    \/ err # "nil" /\ x = "Z"
    \/ err = "nil" /\
          \/ loop \in {"simpleExec", "stmtExec", "next", "close", "none"}
             /\ x \in {"T", "D", "C", "I", "E", "Z"}
          \/ loop = "simpleQuery" /\ res = "open" /\ x \in {"D", "C", "E"}
          \/ loop = "simpleQuery" /\ res # "open" /\ x \in {"T", "C", "I", "E", "Z"}
          \/ loop = "prepareTo" /\ x \in {"1", "t", "T", "n", "E", "Z"}
          \/ loop = "exec" /\ x \in {"2", "E"}
          \/ loop = "workaround" /\ x \in {"D", "C", "E"}
          \/ loop = "stmtClose" /\ res # "closed" /\ x = "3"
          \/ loop = "stmtClose" /\ res = "closed" /\ x = "Z"

Numbered == \A i \in 1..Len(inbox) : Letter(inbox[i]) # "F" => inbox[i].n = requests
FatalAtEof == \A i \in 1..Len(inbox) : Letter(inbox[i]) = "F" => link = "eof"
Last == inbox[Len(inbox)]

(* What was put back, by a method that then returned rows.                 *)
SavedInv ==
    saved # NoMessage =>
        saved.t \in {"D", "C", "I"} /\ err = "nil" /\ loop \in {"none", "next", "close", "stmtExec"}

(* The loop that reads the answer to what is not a text.                   *)
LoopOf == [prepare |-> "prepareTo", bound |-> "exec", close |-> "stmtClose"]

(* The server has not run all of the request: it goes on where it stopped. *)
Asked ==
    asked # <<>> =>
        /\ Len(asked) = 1 /\ asked[1].n = requests /\ err = "nil"
        /\ inbox # <<>> => Letter(Last) = "C"
        /\ asked[1].run = "text" =>
              /\ loop \in {"simpleExec", "simpleQuery", "none", "next", "close"}
              /\ loop = "simpleQuery" /\ inbox = <<>> => res # "open"
              /\ loop = "simpleExec" /\ call = "Commit" =>
                    res = "nil" /\ inbox = <<>> /\ asked[1].text = <<"COMMIT">>
        /\ asked[1].run # "text" =>
              /\ asked[1].text = <<>> /\ inbox = <<>>
              /\ loop = LoopOf[asked[1].run]
              /\ loop = "stmtClose" => res # "closed"

(* It has: the last message says that it is ready, and for what.           *)
Answered == link = "up" /\ asked = <<>> => inbox # <<>> /\ Last.t = "Z" /\ Last.v = server.txn

(* How it went is told: an error comes before the end.                     *)
Told ==
    (\E i \in 1..Len(inbox) : inbox[i].t = "Z") /\ server.went = "failed" =>
        err # "nil" \/ \E i \in 1..Len(inbox) : Letter(inbox[i]) = "E"

(* The tag of a commit comes from a commit.                                *)
Tagged ==
    loop = "simpleExec" /\ call = "Commit" /\ server.went # "done" /\ asked = <<>> =>
        res # "COMMIT" /\ \A i \in 1..Len(inbox) : inbox[i].v # "COMMIT"

BusyInv ==
    /\ Numbered /\ Chain /\ FatalAtEof /\ (inbox # <<>> => Expects(Letter(inbox[1])))
    /\ SavedInv /\ Asked /\ Answered /\ Told /\ Tagged
    /\ answer \notin {"ok", "committed"}

(* Between two methods: at most the fatal error of a link that was closed. *)
QuietInv ==
    /\ saved = NoMessage /\ Len(inbox) <= 1 /\ FatalAtEof
    /\ inbox # <<>> => Letter(inbox[1]) = "F"
    /\ link = "up" => txn = server.txn

Starting == loop \in {"startup", "auth", "password"}
StartInv ==
    /\ saved = NoMessage /\ server = [txn |-> "I", went |-> "done"] /\ answer = "nil"
    /\ \A i \in 1..Len(inbox) : inbox[i].t = "Z" =>
          /\ inbox[i].v = "I"
          /\ i = Len(inbox) \/ (i + 1 = Len(inbox) /\ Letter(inbox[i + 1]) = "F" /\ link = "eof")

ClosedInv ==
    /\ saved = NoMessage /\ inbox = <<>> /\ link = "up" /\ answer \notin {"ok", "committed"}
    /\ server = [txn |-> "I", went |-> "done"]

(* What a loop and the rows are for each other, with a history or without. *)
Loops ==
    /\ loop \in {"next", "close"} => rows = "open"
    /\ rows = "open" => loop \in {"none", "next", "close"}
    /\ loop # "none" => ~bad
    /\ loop = "stmtClose" => err = "nil" /\ res \in {"nil", "closed"}
    /\ loop = "closed" \/ Starting => ~strayed

(* Where a connection is, until rows are closed before their second result. *)
Phases ==
    /\ ~Busy => asked = <<>>
    /\ link # "up" => asked = <<>>
    /\ Busy => BusyInv
    /\ loop \in {"none", "bind"} /\ rows # "open" /\ ~bad => QuietInv
    /\ Starting => StartInv
    /\ loop = "closed" => ClosedInv
    /\ SuccessIsTrue

IInv == TypeOK /\ Loops /\ (mixed => strayed) /\ (~strayed => Phases)

-----------------------------------------------------------------------------
(* Types.                                                                  *)
LEMMA Messages ==
    ASSUME NEW m \in Message
    PROVE  /\ m.t = "E" => m.v \in {"ERROR", "FATAL"}
           /\ m.t = "C" => m.v \in Statement
           /\ m.t = "Z" => m.v \in {"I", "T", "E"}
           /\ m.v \in {"ERROR", "FATAL"} => m.t = "E"
           /\ m.v = "COMMIT" => m.t = "C"
           /\ m.n \in Nat
           /\ Letter(m) = "F" \/ Letter(m) = m.t
BY DEF Message, Statement, Letter

LEMMA NoMessageType == NoMessage \in Message
BY DEF NoMessage, Message

LEMMA NextMessage ==
    ASSUME TypeOK, inbox # <<>>
    PROVE  Head(inbox) \in Message /\ Tail(inbox) \in Seq(Message)
BY HeadTailProperties DEF TypeOK

LEMMA FinishType ==
    ASSUME TypeOK, NEW c, NEW a, NEW isBad, Finish(c, a, isBad), isBad \in BOOLEAN
    PROVE  /\ loop' = "none" /\ call' = "none" /\ err' = "nil" /\ res' = "nil"
           /\ answer' = a /\ bad' \in BOOLEAN /\ inTx' \in BOOLEAN
<1>1. (isBad \/ a = "ErrBadConn") \in BOOLEAN /\ (a = "ok") \in BOOLEAN
      /\ (inTx /\ c \notin {"Commit", "CommitFailed", "Rollback"}) \in BOOLEAN
    OBVIOUS
<1> QED BY <1>1 DEF Finish

LEMMA GoneType == ASSUME TypeOK, NEW a \in {"nil", "error", "ErrBadConn"}, Gone(a) PROVE TypeOK'
BY NoMessageType, EmptySeq DEF TypeOK, Gone

LEMMA SendType ==
    ASSUME TypeOK, NEW c, NEW run \in {"text", "prepare", "bound", "close"},
           NEW text \in Seq(Statement), NEW l \in {"simpleExec", "simpleQuery", "prepareTo", "exec", "stmtClose"},
           c \in {"none", "Open", "Begin", "Commit", "CommitFailed", "Rollback", "StmtClose"}
                     \cup Simple \cup Extended,
           Send(c, run, text, l)
    PROVE  TypeOK'
<1> DEFINE r == [run |-> run, text |-> text, n |-> requests']
<1>1. requests' \in Nat
    BY DEF TypeOK, Send
<1>2. r \in Request
    BY <1>1 DEF Request
<1>3. asked' \in Seq(Request)
    <2>1. asked' = Append(asked, r) \/ asked' = asked
        BY DEF Send
    <2>2. asked \in Seq(Request)
        BY DEF TypeOK
    <2> HIDE DEF r
    <2> QED BY <1>2, <2>1, <2>2, AppendProperties
<1>4. CASE Finish(c, Recovered("reset"), bad)
    <2>1. Recovered("reset") \in {"error", "ErrBadConn"} /\ bad \in BOOLEAN
        BY DEF Recovered, TypeOK
    <2>2. /\ loop' = "none" /\ call' = "none" /\ err' = "nil" /\ res' = "nil"
          /\ answer' \in {"error", "ErrBadConn"} /\ bad' \in BOOLEAN /\ inTx' \in BOOLEAN
        BY <1>4, <2>1, FinishType
    <2> QED BY <1>1, <1>3, <2>2 DEF TypeOK, Send, history
<1>5. CASE loop' = l /\ call' = c /\ err' = "nil" /\ res' = "nil" /\ answer' = "nil"
           /\ UNCHANGED <<bad, inTx>>
    BY <1>1, <1>3, <1>5 DEF TypeOK, Send, history
<1> QED BY <1>4, <1>5 DEF Send

LEMMA StartTypes ==
    /\ Welcome \in Seq(Message) /\ Refused \in Seq(Message)
    /\ <<Hello("R", "password")>> \in Seq(Message) /\ <<Hello("R", "other")>> \in Seq(Message)
<1>1. \A v \in {"ok", "password", "other"} : Hello("R", v) \in Message
    BY DEF Hello, Message
<1>2. Hello("Z", "I") \in Message /\ Hello("E", "FATAL") \in Message
    BY DEF Hello, Message
<1> QED BY <1>1, <1>2 DEF Welcome, Refused

(* What a loop does with a message.                                        *)
DriverTypes ==
    /\ loop' \in {"none", "bind", "simpleExec", "simpleQuery", "prepareTo", "exec",
                  "workaround", "stmtExec", "stmtClose", "next", "close"}
    /\ call' \in {"none", call} /\ err' \in {"nil", "ERROR", "FATAL"}
    /\ bad' \in BOOLEAN /\ txn' \in {"I", "T", "E"}
    /\ res' \in {"nil", "open", "done", "closed"} \cup Statement
    /\ loop' = "simpleQuery" => res' \in {"nil", "open", "done"}
    /\ saved' \in Message /\ rows' \in {"none", "open", "done"}
    /\ answer' \in {"nil", "ok", "committed", "rows", "error", "ErrBadConn"}
    /\ prepared' \in BOOLEAN /\ inTx' \in BOOLEAN /\ strayed' \in BOOLEAN

Answers == {"nil", "ok", "committed", "rows", "error", "ErrBadConn"}

LEMMA ReturnTypes ==
    ASSUME TypeOK, NEW a \in Answers, NEW isBad \in BOOLEAN, Return(a, isBad)
    PROVE  /\ loop' = "none" /\ call' = "none" /\ err' = "nil" /\ res' = "nil"
           /\ answer' \in Answers /\ bad' \in BOOLEAN /\ inTx' \in BOOLEAN
BY FinishType DEF Return

LEMMA ContinueTypes ==
    ASSUME TypeOK, NEW e \in {"nil", "ERROR", "FATAL"},
           NEW r \in {"nil", "open", "done", "closed"} \cup Statement,
           Continue(e, r), Reading, loop = "simpleQuery" => r \in {"nil", "open", "done"}
    PROVE  DriverTypes
BY NoMessageType DEF TypeOK, Continue, DriverTypes, method, Reading

LEMMA UnexpectedTypes ==
    ASSUME TypeOK, NEW isBad \in BOOLEAN, Unexpected(isBad) PROVE DriverTypes
<1>1. (bad \/ isBad) \in BOOLEAN /\ Return("error", bad \/ isBad)
    BY DEF Unexpected
<1>2. /\ loop' = "none" /\ call' = "none" /\ err' = "nil" /\ res' = "nil"
      /\ answer' \in Answers /\ bad' \in BOOLEAN /\ inTx' \in BOOLEAN
    BY <1>1, ReturnTypes DEF Answers
<1> QED BY <1>2, NoMessageType DEF TypeOK, Unexpected, DriverTypes, Answers

(* Ready leaves the rows and the statement to the method.                  *)
LEMMA ReadyTypes ==
    ASSUME TypeOK, NEW m \in Message, m.t = "Z", NEW a \in Answers, NEW isBad \in BOOLEAN,
           Ready(m, a, isBad), rows' \in {"none", "open", "done"}, prepared' \in BOOLEAN
    PROVE  DriverTypes
<1>1. (bad \/ isBad) \in BOOLEAN /\ Return(a, bad \/ isBad)
    BY DEF Ready
<1>2. /\ loop' = "none" /\ call' = "none" /\ err' = "nil" /\ res' = "nil"
      /\ answer' \in Answers /\ bad' \in BOOLEAN /\ inTx' \in BOOLEAN
    BY <1>1, ReturnTypes
<1> QED BY <1>2, NoMessageType, Messages DEF TypeOK, Ready, DriverTypes, Answers

LEMMA ResultTypes ==
    /\ Result \in Answers /\ Ended \in Answers
    /\ \A e : Recovered(e) \in Answers
BY DEF Result, Ended, Recovered, Answers

LEMMA SimpleExecTypes ==
    ASSUME TypeOK, NEW m \in Message, ReadSimpleExec(m) PROVE DriverTypes
<1> USE DEF ReadSimpleExec
<1>1. Reading
    BY DEF Reading
<1>2. CASE m.t = "Z" /\ UNCHANGED <<prepared, rows>> /\ ~Unexpected(TRUE)
    <2>1. PICK a \in Answers, isBad \in BOOLEAN : Ready(m, a, isBad)
        BY <1>2, ResultTypes DEF Answers
    <2>2. rows' \in {"none", "open", "done"} /\ prepared' \in BOOLEAN
        BY <1>2 DEF TypeOK
    <2> QED BY <1>2, <2>1, <2>2, ReadyTypes
<1>3. CASE Unexpected(TRUE)
    BY <1>3, UnexpectedTypes
<1>4. CASE m.t # "Z" /\ ~Unexpected(TRUE)
    <2>1. PICK e \in {"nil", "ERROR", "FATAL"},
               r \in {"nil", "open", "done", "closed"} \cup Statement : Continue(e, r)
        BY <1>4, Messages DEF TypeOK
    <2> QED BY <1>1, <2>1, ContinueTypes
<1> QED BY <1>2, <1>3, <1>4

LEMMA SimpleQueryTypes ==
    ASSUME TypeOK, NEW m \in Message, ReadSimpleQuery(m) PROVE DriverTypes
<1> USE DEF ReadSimpleQuery
<1>1. Reading
    BY DEF Reading
<1>2. CASE Unexpected(TRUE)
    BY <1>2, UnexpectedTypes
<1>3. CASE m.t = "Z" /\ Ready(m, Result, FALSE) /\ UNCHANGED prepared
           /\ rows' = IF err = "nil" /\ res # "nil" THEN res ELSE "none"
    <2>1. rows' \in {"none", "open", "done"} /\ prepared' \in BOOLEAN
        BY <1>3 DEF TypeOK
    <2> QED BY <1>3, <2>1, ReadyTypes, ResultTypes
<1>4. CASE m.t # "Z" /\ ~Unexpected(TRUE) /\ ~(m.t = "D" /\ res # "nil")
    <2>1. PICK e \in {"nil", "ERROR", "FATAL"}, r \in {"nil", "open", "done"} : Continue(e, r)
        BY <1>4, Messages DEF TypeOK, NoRows
    <2> QED BY <1>1, <2>1, ContinueTypes
<1>5. CASE saved' = m /\ rows' = res /\ Return("rows", bad) /\ UNCHANGED <<prepared, txn, strayed>>
           /\ res # "nil"
    <2>1. /\ loop' = "none" /\ call' = "none" /\ err' = "nil" /\ res' = "nil"
          /\ answer' \in Answers /\ bad' \in BOOLEAN /\ inTx' \in BOOLEAN
        BY <1>5, ReturnTypes DEF Answers, TypeOK
    <2> QED BY <1>5, <2>1 DEF TypeOK, DriverTypes, Answers
<1> QED BY <1>2, <1>3, <1>4, <1>5

LEMMA PrepareToTypes ==
    ASSUME TypeOK, NEW m \in Message, ReadPrepareTo(m) PROVE DriverTypes
<1> USE DEF ReadPrepareTo
<1>1. Reading /\ loop # "simpleQuery"
    BY DEF Reading
<1>2. CASE Unexpected(TRUE)
    BY <1>2, UnexpectedTypes
<1>3. CASE m.t = "Z" /\ Ready(m, Result, FALSE) /\ UNCHANGED rows
           /\ prepared' = (prepared \/ (call = "Prepare" /\ err = "nil"))
    <2>1. rows' \in {"none", "open", "done"} /\ prepared' \in BOOLEAN
        BY <1>3 DEF TypeOK
    <2> QED BY <1>3, <2>1, ReadyTypes, ResultTypes
<1>4. CASE m.t # "Z" /\ ~Unexpected(TRUE)
    <2>1. PICK e \in {"nil", "ERROR", "FATAL"},
               r \in {"nil", "open", "done", "closed"} \cup Statement : Continue(e, r)
        BY <1>4, Messages DEF TypeOK
    <2> QED BY <1>1, <2>1, ContinueTypes
<1>5. CASE m.t = "Z" /\ loop' = "bind" /\ txn' = m.v /\ saved' = NoMessage
           /\ UNCHANGED <<method, err, res, bad, answer, strayed, rows>>
    BY <1>5, Messages, NoMessageType DEF TypeOK, DriverTypes, method
<1> QED BY <1>2, <1>3, <1>4, <1>5

LEMMA ExecutedTypes ==
    ASSUME TypeOK, Executed, txn' \in {"I", "T", "E"}, saved' \in Message, UNCHANGED strayed
    PROVE  DriverTypes
<1> USE DEF Executed
<1>1. CASE rows' = "open" /\ Return("rows", bad) /\ UNCHANGED prepared
    <2>1. /\ loop' = "none" /\ call' = "none" /\ err' = "nil" /\ res' = "nil"
          /\ answer' \in Answers /\ bad' \in BOOLEAN /\ inTx' \in BOOLEAN
        BY <1>1, ReturnTypes DEF Answers, TypeOK
    <2> QED BY <1>1, <2>1 DEF TypeOK, DriverTypes, Answers
<1>2. CASE loop' = "stmtExec" /\ UNCHANGED <<method, err, res, bad, rows, answer>>
    BY <1>2 DEF TypeOK, DriverTypes, method
<1> QED BY <1>1, <1>2

LEMMA ExecTypes ==
    ASSUME TypeOK, NEW m \in Message, ReadExec(m) PROVE DriverTypes
<1> USE DEF ReadExec
<1>1. Reading /\ loop # "simpleQuery"
    BY DEF Reading
<1>2. CASE m.t = "E" /\ Continue(m.v, res)
    BY <1>1, <1>2, Messages, ContinueTypes DEF TypeOK
<1>3. CASE m.t = "2" /\ err = "nil" /\ loop' = "workaround" /\ saved' = NoMessage
           /\ UNCHANGED <<method, err, res, bad, txn, rows, answer, strayed>>
    BY <1>3, NoMessageType DEF TypeOK, DriverTypes, method
<1>4. CASE m.t = "Z" /\ err # "nil" /\ Ready(m, Recovered(err), FALSE) /\ UNCHANGED <<prepared, rows>>
    <2>1. rows' \in {"none", "open", "done"} /\ prepared' \in BOOLEAN
        BY <1>4 DEF TypeOK
    <2> QED BY <1>4, <2>1, ReadyTypes, ResultTypes
<1>5. CASE m.t = "Z" /\ txn' = m.v /\ saved' = NoMessage /\ Executed /\ UNCHANGED strayed
    BY <1>5, Messages, NoMessageType, ExecutedTypes
<1>6. CASE Unexpected(FALSE) \/ Unexpected(TRUE)
    BY <1>6, UnexpectedTypes
<1> QED BY <1>2, <1>3, <1>4, <1>5, <1>6

LEMMA WorkaroundTypes ==
    ASSUME TypeOK, NEW m \in Message, ReadWorkaround(m) PROVE DriverTypes
<1> USE DEF ReadWorkaround
<1>1. Reading /\ loop # "simpleQuery"
    BY DEF Reading
<1>2. CASE m.t = "E" /\ Continue(m.v, res)
    BY <1>1, <1>2, Messages, ContinueTypes DEF TypeOK
<1>3. CASE saved' = m /\ Executed /\ UNCHANGED <<txn, strayed>>
    BY <1>3, ExecutedTypes DEF TypeOK
<1>4. CASE m.t = "Z" /\ err # "nil" /\ Ready(m, Recovered(err), FALSE) /\ UNCHANGED <<prepared, rows>>
    <2>1. rows' \in {"none", "open", "done"} /\ prepared' \in BOOLEAN
        BY <1>4 DEF TypeOK
    <2> QED BY <1>4, <2>1, ReadyTypes, ResultTypes
<1>5. CASE Unexpected(TRUE)
    BY <1>5, UnexpectedTypes
<1> QED BY <1>2, <1>3, <1>4, <1>5

LEMMA StmtExecTypes ==
    ASSUME TypeOK, NEW m \in Message, ReadStmtExec(m) PROVE DriverTypes
<1> USE DEF ReadStmtExec
<1>1. Reading /\ loop # "simpleQuery"
    BY DEF Reading
<1>2. CASE m.t \in {"E", "C", "T", "D", "I"} /\ ~Unexpected(TRUE)
    <2>1. PICK e \in {"nil", "ERROR", "FATAL"} : Continue(e, res)
        BY <1>2, Messages DEF TypeOK
    <2> QED BY <1>1, <2>1, ContinueTypes DEF TypeOK
<1>3. CASE m.t = "Z" /\ Ready(m, Result, FALSE) /\ UNCHANGED <<prepared, rows>>
    <2>1. rows' \in {"none", "open", "done"} /\ prepared' \in BOOLEAN
        BY <1>3 DEF TypeOK
    <2> QED BY <1>3, <2>1, ReadyTypes, ResultTypes
<1>4. CASE Unexpected(TRUE)
    BY <1>4, UnexpectedTypes
<1> QED BY <1>2, <1>3, <1>4

LEMMA StmtCloseTypes ==
    ASSUME TypeOK, NEW m \in Message, ReadStmtClose(m) PROVE DriverTypes
<1> USE DEF ReadStmtClose
<1>1. CASE m.t = "3" /\ res = "nil" /\ res' = "closed" /\ prepared' = FALSE /\ saved' = NoMessage
           /\ UNCHANGED <<loop, call, inTx, err, bad, txn, answer, strayed>>
    BY <1>1, NoMessageType DEF TypeOK, DriverTypes
<1>2. CASE m.t = "Z" /\ res = "closed" /\ Ready(m, "ok", FALSE) /\ UNCHANGED prepared
    <2>1. rows' \in {"none", "open", "done"} /\ prepared' \in BOOLEAN
        BY <1>2 DEF TypeOK
    <2> QED BY <1>2, <2>1, ReadyTypes DEF Answers
<1>3. CASE Unexpected(TRUE)
    BY <1>3, UnexpectedTypes
<1> QED BY <1>1, <1>2, <1>3

LEMMA RowsTypes ==
    ASSUME TypeOK, NEW m \in Message, ReadRows(m) PROVE DriverTypes
<1> USE DEF ReadRows
<1>1. Reading /\ loop # "simpleQuery"
    BY DEF Reading
<1>2. CASE \E e \in {err, m.v} : Continue(e, res) /\ (e # err => m.t = "E")
    BY <1>1, <1>2, Messages, ContinueTypes DEF TypeOK
<1>3. CASE m.t = "Z" /\ Ready(m, Result, FALSE) /\ UNCHANGED prepared
           /\ rows' = IF loop = "close" THEN "none" ELSE "done"
    <2>1. rows' \in {"none", "open", "done"} /\ prepared' \in BOOLEAN
        BY <1>3 DEF TypeOK
    <2> QED BY <1>3, <2>1, ReadyTypes, ResultTypes
<1>4. CASE \E a \in {"rows", "error"} : Return(a, bad) /\ saved' = NoMessage
           /\ rows' = (IF loop = "close" THEN "none" ELSE rows)
           /\ strayed' = (strayed \/ loop = "close") /\ UNCHANGED <<prepared, txn>>
    <2>1. /\ loop' = "none" /\ call' = "none" /\ err' = "nil" /\ res' = "nil"
          /\ answer' \in Answers /\ bad' \in BOOLEAN /\ inTx' \in BOOLEAN
        BY <1>4, ReturnTypes DEF Answers, TypeOK
    <2>2. strayed' \in BOOLEAN /\ rows' \in {"none", "open", "done"}
        BY <1>4 DEF TypeOK
    <2> QED BY <1>4, <2>1, <2>2, NoMessageType DEF TypeOK, DriverTypes, Answers
<1> QED BY <1>2, <1>3, <1>4

-----------------------------------------------------------------------------
(* What the server answers.                                                *)
LEMMA MsgTypes ==
    ASSUME TypeOK, asked # <<>>
    PROVE  /\ Head(asked) \in Request /\ Head(asked).n \in Nat /\ Head(asked) = asked[1]
           /\ Head(asked).text \in Seq(Statement)
           /\ \A t \in {"1", "2", "3", "D", "I", "T", "n", "t"} : Msg(t, "") \in Message
           /\ Msg("E", "ERROR") \in Message
           /\ \A v \in Statement : Msg("C", v) \in Message
           /\ \A v \in {"I", "T", "E"} : Msg("Z", v) \in Message
           /\ \A t, v : Msg(t, v).t = t /\ Msg(t, v).v = v /\ Msg(t, v).n = asked[1].n
<1>1. Head(asked) \in Request /\ Head(asked) = asked[1]
    BY HeadTailProperties DEF TypeOK
<1>2. Head(asked).n \in Nat /\ Head(asked).text \in Seq(Statement)
    BY <1>1 DEF Request
<1> HIDE DEF TypeOK
<1>3. /\ \A t \in {"1", "2", "3", "D", "I", "T", "n", "t"} : Msg(t, "") \in Message
      /\ Msg("E", "ERROR") \in Message
      /\ \A v \in Statement : Msg("C", v) \in Message
      /\ \A v \in {"I", "T", "E"} : Msg("Z", v) \in Message
    BY <1>2 DEF Msg, Message
<1>4. \A t, v : Msg(t, v).t = t /\ Msg(t, v).v = v /\ Msg(t, v).n = asked[1].n
    BY <1>1 DEF Msg
<1> QED BY <1>1, <1>2, <1>3, <1>4

LEMMA SeqOf ==
    ASSUME NEW n \in Nat, NEW S, NEW f \in [1..n -> S]
    PROVE  f \in Seq(S) /\ Len(f) = n
<1>1. f \in Seq(S)
    BY SeqDef
<1>2. 1..Len(f) = 1..n /\ Len(f) \in Nat
    BY <1>1, LenProperties
<1> QED BY <1>1, <1>2

(* The rows of a result and what comes after them.                         *)
LEMMA ResultMessages ==
    ASSUME TypeOK, asked # <<>>, NEW k \in Nat, NEW m \in Message, NEW h \in {0, 1}
    PROVE  /\ Append(RowsOf(h, k), m) \in Seq(Message)
           /\ Len(Append(RowsOf(h, k), m)) = h + k + 1
           /\ \A i \in 1..h + k :
                 Append(RowsOf(h, k), m)[i] = Msg(IF i <= h THEN "T" ELSE "D", "")
           /\ Append(RowsOf(h, k), m)[h + k + 1] = m
<1> DEFINE r == RowsOf(h, k)  n == h + k
<1>1. n \in Nat
    OBVIOUS
<1>2. r \in [1..n -> Message] /\ \A i \in 1..n : r[i] = Msg(IF i <= h THEN "T" ELSE "D", "")
    BY <1>1, MsgTypes DEF RowsOf
<1> HIDE DEF r, n
<1>3. r \in Seq(Message) /\ Len(r) = n
    BY <1>1, <1>2, SeqOf
<1>4. /\ Append(r, m) \in Seq(Message) /\ Len(Append(r, m)) = n + 1
      /\ \A i \in 1..n : Append(r, m)[i] = r[i]
      /\ Append(r, m)[n + 1] = m
    BY <1>3, AppendProperties
<1>5. /\ Append(r, m) \in Seq(Message) /\ Len(Append(r, m)) = n + 1
      /\ \A i \in 1..n : Append(r, m)[i] = Msg(IF i <= h THEN "T" ELSE "D", "")
      /\ Append(r, m)[n + 1] = m
    BY <1>2, <1>4
<1> QED BY <1>5 DEF r, n

Preparing == asked[1].run = "prepare"

(* An outcome: its messages are in order and numbered, an error is last,   *)
(* and only a commit has the tag of one.                                   *)
Sound(o) ==
    /\ o = [msgs |-> o.msgs, txn |-> o.txn, went |-> o.went]
    /\ o.msgs \in Seq(Message) /\ o.msgs # <<>> /\ o.txn \in {"I", "T", "E"}
    /\ \A i \in 1..Len(o.msgs) :
          o.msgs[i].n = asked[1].n /\ o.msgs[i].t # "Z" /\ Letter(o.msgs[i]) = o.msgs[i].t
    /\ \A i \in 1..Len(o.msgs) - 1 : Follows(o.msgs[i].t, o.msgs[i + 1].t, Preparing)
    /\ o.went = "failed" => o.msgs[Len(o.msgs)].t = "E"

(* Its first and its last letter.                                          *)
Ends(o, first, last) ==
    o.msgs[1].t \in first \cup {"E"} /\
    o.msgs[Len(o.msgs)].t \in IF o.went = "failed" THEN {"E"} ELSE last

LEMMA OneMessage ==
    ASSUME NEW m \in Message, m.n = asked[1].n, m.t # "Z", m.v # "FATAL",
           NEW status \in {"I", "T", "E"}, NEW went, went = "failed" => m.t = "E"
    PROVE  /\ Sound(Outcome(<<m>>, status, went)) /\ Outcome(<<m>>, status, went).msgs = <<m>>
           /\ Outcome(<<m>>, status, went).went = went
<1> DEFINE q == <<m>>
<1>1. q \in Seq(Message) /\ Len(q) = 1 /\ q[1] = m /\ q # <<>>
    OBVIOUS
<1>2. \A i \in 1..1 : i = 1
    OBVIOUS
<1>4. \A i \in 1..Len(q) - 1 : FALSE
    BY <1>1
<1> HIDE DEF q
<1>3. Sound(Outcome(q, status, went)) /\ Outcome(q, status, went).msgs = q
      /\ Outcome(q, status, went).went = went
    BY <1>1, <1>2, <1>4 DEF Sound, Outcome, Letter
<1> QED BY <1>3 DEF q

LEMMA OneEnds ==
    ASSUME NEW m, NEW o, o.msgs = <<m>>, NEW first, NEW last, m.t \in first \cup {"E"},
           m.t \in (IF o.went = "failed" THEN {"E"} ELSE last)
    PROVE  Ends(o, first, last)
<1>1. Len(<<m>>) = 1 /\ <<m>>[1] = m
    OBVIOUS
<1> QED BY <1>1 DEF Ends

(* A statement: its result, and a tag or an error.                         *)
RunsTo(o, s, h) ==
    /\ Sound(o) /\ Ends(o, {"C", IF h = 0 THEN "D" ELSE "T"}, {"C"})
    /\ s = "COMMIT" /\ o.went # "done" => \A i \in 1..Len(o.msgs) : o.msgs[i].v # "COMMIT"

LEMMA OneRunsTo ==
    ASSUME NEW m \in Message, m.n = asked[1].n, m.t \in {"C", "E"}, m.v # "FATAL",
           NEW v \in {"I", "T", "E"}, NEW went \in {"done", "undone", "failed"},
           went = "failed" <=> m.t = "E",
           NEW s, s = "COMMIT" /\ went # "done" => m.v # "COMMIT", NEW h
    PROVE  RunsTo(Outcome(<<m>>, v, went), s, h)
<1> DEFINE o == Outcome(<<m>>, v, went)
<1>1. Sound(o) /\ o.msgs = <<m>> /\ o.went = went
    <2>1. m.t # "Z" /\ (went = "failed" => m.t = "E")
        OBVIOUS
    <2> QED BY <2>1, OneMessage
<1>2. Len(<<m>>) = 1 /\ <<m>>[1] = m
    OBVIOUS
<1> HIDE DEF o
<1>3. Ends(o, {"C", IF h = 0 THEN "D" ELSE "T"}, {"C"})
    BY <1>1, <1>2 DEF Ends
<1>4. s = "COMMIT" /\ went # "done" => \A i \in 1..Len(o.msgs) : o.msgs[i].v # "COMMIT"
    BY <1>1, <1>2
<1> QED BY <1>1, <1>3, <1>4 DEF RunsTo, o

LEMMA ResultRunsTo ==
    ASSUME TypeOK, asked # <<>>, ~Preparing, NEW k \in Nat, NEW h \in {0, 1},
           NEW m \in Message, m.n = asked[1].n, m.t \in {"C", "E"}, m.v \notin {"FATAL", "COMMIT"},
           NEW status \in {"I", "T", "E"}, NEW went \in {"done", "failed"},
           went = "failed" <=> m.t = "E", NEW s
    PROVE  RunsTo(Outcome(Append(RowsOf(h, k), m), status, went), s, h)
<1> DEFINE q == Append(RowsOf(h, k), m)  n == h + k + 1
           o == Outcome(q, status, went)
<1>1. n \in Nat /\ n # 0 /\ n - 1 = h + k
    OBVIOUS
<1>2. /\ q \in Seq(Message) /\ Len(q) = n /\ q[n] = m
      /\ \A i \in 1..n - 1 : q[i] = Msg(IF i <= h THEN "T" ELSE "D", "")
    <2>1. q \in Seq(Message)
        BY ResultMessages
    <2>2. Len(q) = h + k + 1
        BY ResultMessages
    <2>3. q[h + k + 1] = m
        BY ResultMessages
    <2>4. \A i \in 1..h + k : q[i] = Msg(IF i <= h THEN "T" ELSE "D", "")
        BY ResultMessages
    <2> HIDE DEF q
    <2> QED BY <1>1, <2>1, <2>2, <2>3, <2>4
<1>3. o.msgs = q /\ o.txn = status /\ o.went = went /\ o = [msgs |-> q, txn |-> status, went |-> went]
    BY DEF Outcome
<1> HIDE DEF q, o
<1>4. \A i \in 1..n - 1 : /\ q[i].t = (IF i <= h THEN "T" ELSE "D")
                          /\ q[i].v = "" /\ q[i].n = asked[1].n
    <2> SUFFICES ASSUME NEW i \in 1..n - 1
                 PROVE  /\ q[i].t = (IF i <= h THEN "T" ELSE "D")
                        /\ q[i].v = "" /\ q[i].n = asked[1].n
        OBVIOUS
    <2> DEFINE t == IF i <= h THEN "T" ELSE "D"
    <2> HIDE DEF t
    <2>1. q[i] = Msg(t, "")
        BY <1>2 DEF t
    <2>2. Msg(t, "").t = t /\ Msg(t, "").v = "" /\ Msg(t, "").n = asked[1].n
        BY MsgTypes DEF Msg
    <2> QED BY <2>1, <2>2 DEF t
<1> HIDE DEF n
<1>5. \A i \in 1..n : /\ q[i].n = asked[1].n /\ q[i].t # "Z" /\ q[i].v \notin {"FATAL", "COMMIT"}
                      /\ Letter(q[i]) = q[i].t
    <2> SUFFICES ASSUME NEW i \in 1..n
                 PROVE /\ q[i].n = asked[1].n /\ q[i].t # "Z" /\ q[i].v \notin {"FATAL", "COMMIT"}
        BY DEF Letter
    <2>1. CASE i = n
        BY <1>2, <2>1
    <2>2. CASE i # n
        <3>1. i \in 1..n - 1
            BY <1>1, <2>2
        <3> QED BY <1>4, <3>1
    <2> QED BY <2>1, <2>2
<1>6. \A i \in 1..n - 1 : q[i].t \in {"T", "D"} /\ q[i + 1].t \in {"D", "C", "E"}
    <2> SUFFICES ASSUME NEW i \in 1..n - 1 PROVE q[i + 1].t \in {"D", "C", "E"}
        BY <1>4
    <2>1. CASE i + 1 = n
        BY <1>2, <2>1
    <2>2. CASE i + 1 # n
        <3>1. i + 1 \in 1..n - 1 /\ ~(i + 1 <= h)
            BY <1>1, <2>2
        <3> QED BY <1>4, <3>1
    <2> QED BY <2>1, <2>2
<1>7. q # <<>>
    BY <1>1, <1>2, EmptySeq
<1>8. Sound(o)
    BY <1>2, <1>3, <1>5, <1>6, <1>7 DEF Sound, Follows
<1>9. Ends(o, {"C", IF h = 0 THEN "D" ELSE "T"}, {"C"})
    <2>1. CASE n = 1
        BY <1>2, <1>3, <2>1 DEF Ends
    <2>2. CASE n # 1
        <3>1. 1 \in 1..n - 1 /\ (1 <= h <=> h # 0)
            BY <1>1, <2>2
        <3> QED BY <1>2, <1>3, <1>4, <3>1 DEF Ends
    <2> QED BY <2>1, <2>2
<1>10. \A i \in 1..Len(o.msgs) : o.msgs[i].v # "COMMIT"
    BY <1>2, <1>3, <1>5
<1> QED BY <1>8, <1>9, <1>10 DEF RunsTo, q, o

LEMMA RunSound ==
    ASSUME TypeOK, asked # <<>>, NEW s \in Statement, NEW status \in {"I", "T", "E"},
           NEW h \in {0, 1}, ~Preparing, NEW o \in Run(s, status, h)
    PROVE  RunsTo(o, s, h)
<1>1. CASE \E v \in {"I", "T", "E"} : o = Outcome(<<Msg("E", "ERROR")>>, v, "failed")
    <2> DEFINE m == Msg("E", "ERROR")
    <2>1. m \in Message /\ m.n = asked[1].n /\ m.t = "E" /\ m.v = "ERROR"
        BY MsgTypes DEF Msg
    <2> HIDE DEF m
    <2> QED BY <1>1, <2>1, OneRunsTo DEF m
<1>2. CASE \E v \in {"I", "T", "E"} : o = Outcome(<<Msg("C", s)>>, v, "done")
    <2> DEFINE m == Msg("C", s)
    <2>1. m \in Message /\ m.n = asked[1].n /\ m.t = "C" /\ m.v # "FATAL"
        BY MsgTypes DEF Msg, Statement
    <2> HIDE DEF m
    <2> QED BY <1>2, <2>1, OneRunsTo DEF m
<1>3. CASE o = Outcome(<<Msg("C", "ROLLBACK")>>, "I", "undone")
    <2> DEFINE m == Msg("C", "ROLLBACK")
    <2>1. m \in Message /\ m.n = asked[1].n /\ m.t = "C" /\ m.v = "ROLLBACK"
        BY MsgTypes DEF Msg, Statement
    <2> HIDE DEF m
    <2> QED BY <1>3, <2>1, OneRunsTo DEF m
<1>4. CASE s = "SELECT" /\ \E k \in 0..MaxRows : o = Success(RowsOf(h, k), s, status)
    <2> DEFINE m == Msg("C", s)
    <2>1. m \in Message /\ m.n = asked[1].n /\ m.t = "C" /\ m.v = "SELECT"
        BY <1>4, MsgTypes DEF Msg, Statement
    <2> HIDE DEF m
    <2>2. PICK k \in Nat : o = Outcome(Append(RowsOf(h, k), m), status, "done")
        BY <1>4, BoundsAssumption DEF Success, m
    <2> QED BY <2>1, <2>2, ResultRunsTo
<1>5. CASE s = "SELECT" /\ \E k \in 0..MaxRows : o = Failure(RowsOf(h, k), status)
    <2> DEFINE m == Msg("E", "ERROR")
    <2>1. m \in Message /\ m.n = asked[1].n /\ m.t = "E" /\ m.v = "ERROR"
        BY MsgTypes DEF Msg
    <2> HIDE DEF m
    <2>2. PICK k \in Nat, v \in {"I", "E"} : o = Outcome(Append(RowsOf(h, k), m), v, "failed")
        BY <1>5, BoundsAssumption DEF Failure, m
    <2> QED BY <2>1, <2>2, ResultRunsTo
<1>6. Failure(<<>>, status) = Outcome(<<Msg("E", "ERROR")>>, IF status = "I" THEN "I" ELSE "E", "failed")
      /\ \A v : Success(<<>>, s, v) = Outcome(<<Msg("C", s)>>, v, "done")
    BY DEF Failure, Success
<1>7. \/ \E v \in {"I", "T", "E"} : \/ o = Outcome(<<Msg("E", "ERROR")>>, v, "failed")
                                    \/ o = Outcome(<<Msg("C", s)>>, v, "done")
      \/ o = Outcome(<<Msg("C", "ROLLBACK")>>, "I", "undone")
      \/ s = "SELECT" /\ \E k \in 0..MaxRows :
            o = Success(RowsOf(h, k), s, status) \/ o = Failure(RowsOf(h, k), status)
    BY <1>6 DEF Run, Statement
<1> QED BY <1>1, <1>2, <1>3, <1>4, <1>5, <1>7

LEMMA Prefix ==
    ASSUME NEW m \in Message, NEW q \in Seq(Message)
    PROVE  /\ <<m>> \o q \in Seq(Message) /\ Len(<<m>> \o q) = Len(q) + 1
           /\ (<<m>> \o q)[1] = m
           /\ \A i \in 1..Len(q) : (<<m>> \o q)[i + 1] = q[i]
<1> DEFINE b == <<m>>
<1>1. b \in Seq(Message) /\ Len(b) = 1 /\ b[1] = m
    OBVIOUS
<1> HIDE DEF b
<1>2. b \o q \in Seq(Message)
    BY <1>1, ConcatProperties
<1>3. Len(b \o q) = Len(b) + Len(q)
    BY <1>1, ConcatProperties
<1>4. \A i \in 1..Len(b) + Len(q) : (b \o q)[i] = IF i <= Len(b) THEN b[i] ELSE q[i - Len(b)]
    BY <1>1, ConcatProperties
<1>5. Len(q) \in Nat
    BY LenProperties
<1>6. (b \o q)[1] = m
    BY <1>1, <1>4, <1>5
<1>7. \A i \in 1..Len(q) : (b \o q)[i + 1] = q[i]
    <2> SUFFICES ASSUME NEW i \in 1..Len(q) PROVE (b \o q)[i + 1] = q[i]
        OBVIOUS
    <2>1. i + 1 \in 1..Len(b) + Len(q) /\ ~(i + 1 <= Len(b)) /\ i + 1 - Len(b) = i
        BY <1>1, <1>5
    <2> QED BY <1>4, <2>1
<1>8. Len(b \o q) = Len(q) + 1
    BY <1>1, <1>3, <1>5
<1> QED BY <1>2, <1>6, <1>7, <1>8 DEF b

(* What is run bound has the letter of the bind before it.                 *)
LEMMA AfterBind ==
    ASSUME ~Preparing, NEW m \in Message, m.t = "2", m.n = asked[1].n, Letter(m) = "2",
           NEW q \in Seq(Message), NEW n \in Nat, n # 0, Len(q) = n,
           NEW r \in Seq(Message), Len(r) = n + 1, r[1] = m, \A i \in 1..n : r[i + 1] = q[i],
           NEW t, NEW w, Sound(Outcome(q, t, w)), Ends(Outcome(q, t, w), {"C", "D"}, {"C"})
    PROVE  Sound(Outcome(r, t, w)) /\ Ends(Outcome(r, t, w), {"2"}, {"C"})
<1>1. /\ \A i \in 1..n : q[i].n = asked[1].n /\ q[i].t # "Z" /\ Letter(q[i]) = q[i].t
      /\ \A i \in 1..n - 1 : Follows(q[i].t, q[i + 1].t, Preparing)
      /\ q[1].t \in {"C", "D", "E"} /\ t \in {"I", "T", "E"}
      /\ w = "failed" => q[n].t = "E"
      /\ q[n].t \in IF w = "failed" THEN {"E"} ELSE {"C"}
    BY DEF Sound, Ends, Outcome
<1>2. \A i \in 1..n + 1 : i = 1 \/ (i - 1 \in 1..n /\ r[i] = q[i - 1])
    <2> SUFFICES ASSUME NEW i \in 1..n + 1, i # 1 PROVE i - 1 \in 1..n /\ r[i] = q[i - 1]
        OBVIOUS
    <2>1. i - 1 \in 1..n /\ (i - 1) + 1 = i
        OBVIOUS
    <2> QED BY <2>1
<1>3. \A i \in 1..n + 1 : r[i].n = asked[1].n /\ r[i].t # "Z" /\ Letter(r[i]) = r[i].t
    BY <1>1, <1>2
<1>4. \A i \in 1..n : Follows(r[i].t, r[i + 1].t, Preparing)
    <2> SUFFICES ASSUME NEW i \in 1..n PROVE Follows(r[i].t, r[i + 1].t, Preparing)
        OBVIOUS
    <2>1. CASE i = 1
        BY <1>1, <2>1 DEF Follows
    <2>2. CASE i # 1
        <3>1. i \in 1..n + 1 /\ i - 1 \in 1..n - 1 /\ (i - 1) + 1 = i
            BY <2>2
        <3>2. r[i] = q[i - 1] /\ r[i + 1] = q[i]
            BY <1>2, <2>2, <3>1
        <3>3. Follows(q[i - 1].t, q[(i - 1) + 1].t, Preparing)
            BY <1>1, <3>1
        <3> QED BY <3>1, <3>2, <3>3
    <2> QED BY <2>1, <2>2
<1>5. r[n + 1] = q[n] /\ r # <<>> /\ Len(r) - 1 = n
    BY EmptySeq
<1>6. Sound(Outcome(r, t, w))
    BY <1>1, <1>3, <1>4, <1>5 DEF Sound, Outcome
<1>7. Ends(Outcome(r, t, w), {"2"}, {"C"})
    BY <1>1, <1>5 DEF Ends, Outcome
<1> QED BY <1>6, <1>7

LEMMA BoundSound ==
    ASSUME TypeOK, asked # <<>>, ~Preparing, NEW p, Sound(p), Ends(p, {"C", "D"}, {"C"})
    PROVE  /\ Sound(Outcome(<<Msg("2", "")>> \o p.msgs, p.txn, p.went))
           /\ Ends(Outcome(<<Msg("2", "")>> \o p.msgs, p.txn, p.went), {"2"}, {"C"})
<1> DEFINE m == Msg("2", "")  q == p.msgs  n == Len(q)  r == <<m>> \o q
<1>1. m \in Message /\ m.t = "2" /\ m.v = "" /\ m.n = asked[1].n /\ Letter(m) = "2"
    BY MsgTypes DEF Msg, Letter
<1>2. q \in Seq(Message) /\ q # <<>> /\ p = Outcome(q, p.txn, p.went)
    BY DEF Sound, Outcome
<1> HIDE DEF m, q
<1>3. n \in Nat /\ n # 0
    BY <1>2, EmptySeq, LenProperties
<1>4. r \in Seq(Message)
    BY <1>1, <1>2, Prefix
<1>5. Len(r) = n + 1
    BY <1>1, <1>2, Prefix
<1>6. r[1] = m
    BY <1>1, <1>2, Prefix
<1>7. \A i \in 1..n : r[i + 1] = q[i]
    BY <1>1, <1>2, Prefix
<1> HIDE DEF r
<1>8. Sound(Outcome(q, p.txn, p.went)) /\ Ends(Outcome(q, p.txn, p.went), {"C", "D"}, {"C"})
    BY <1>2
<1>9. Sound(Outcome(r, p.txn, p.went))
    BY <1>1, <1>2, <1>3, <1>4, <1>5, <1>6, <1>7, <1>8, AfterBind
<1>10. Ends(Outcome(r, p.txn, p.went), {"2"}, {"C"})
    BY <1>1, <1>2, <1>3, <1>4, <1>5, <1>6, <1>7, <1>8, AfterBind
<1> QED BY <1>9, <1>10 DEF m, q, r

LEMMA PrepareSound ==
    ASSUME TypeOK, asked # <<>>, Preparing, NEW o \in RunPrepare
    PROVE  Sound(o) /\ Ends(o, {"1"}, {"T", "n"})
<1>1. server.txn \in {"I", "T", "E"}
    BY DEF TypeOK
<1>2. CASE o = Failure(<<>>, server.txn)
    <2> DEFINE m == Msg("E", "ERROR")  v == IF server.txn = "I" THEN "I" ELSE "E"
    <2>1. m \in Message /\ m.n = asked[1].n /\ m.t = "E" /\ m.v = "ERROR"
        BY MsgTypes DEF Msg
    <2>2. o = Outcome(<<m>>, v, "failed")
        BY <1>2 DEF Failure
    <2>3. v \in {"I", "T", "E"}
        OBVIOUS
    <2> HIDE DEF m, v
    <2>4. Sound(o) /\ o.msgs = <<m>> /\ o.went = "failed"
        BY <2>1, <2>2, <2>3, OneMessage
    <2> QED BY <2>1, <2>4 DEF Ends
<1>3. CASE o # Failure(<<>>, server.txn)
    <2>1. PICK row \in {"T", "n"} :
              o = Outcome(<<Msg("1", ""), Msg("t", ""), Msg(row, "")>>, server.txn, "done")
        BY <1>3 DEF RunPrepare
    <2> DEFINE a == Msg("1", "")  b == Msg("t", "")  c == Msg(row, "")
    <2>2. /\ a \in Message /\ a.n = asked[1].n /\ a.t = "1" /\ Letter(a) = "1"
          /\ b \in Message /\ b.n = asked[1].n /\ b.t = "t" /\ Letter(b) = "t"
          /\ c \in Message /\ c.n = asked[1].n /\ c.t = row /\ Letter(c) = row
        BY MsgTypes DEF Msg, Letter
    <2> HIDE DEF a, b, c
    <2>3. o = [msgs |-> <<a, b, c>>, txn |-> server.txn, went |-> "done"]
        BY <2>1 DEF Outcome, a, b, c
    <2>4. o.msgs = <<a, b, c>> /\ o.txn = server.txn /\ o.went = "done"
        BY <2>3
    <2>5. o.msgs \in Seq(Message) /\ Len(o.msgs) = 3 /\ o.msgs # <<>>
          /\ o.msgs[1] = a /\ o.msgs[2] = b /\ o.msgs[3] = c
        BY <2>2, <2>4
    <2>6. \A i \in 1..3 - 1 : Follows(o.msgs[i].t, o.msgs[i + 1].t, Preparing)
        <3>1. \A i \in 1..3 - 1 : i = 1 \/ i = 2
            OBVIOUS
        <3> QED BY <2>2, <2>5, <3>1 DEF Follows
    <2>7. \A i \in 1..3 : o.msgs[i].n = asked[1].n /\ o.msgs[i].t # "Z" /\ Letter(o.msgs[i]) = o.msgs[i].t
        <3>1. \A i \in 1..3 : i = 1 \/ i = 2 \/ i = 3
            OBVIOUS
        <3> QED BY <2>2, <2>5, <3>1
    <2>8. Sound(o)
        BY <1>1, <2>3, <2>4, <2>5, <2>6, <2>7 DEF Sound
    <2> QED BY <2>2, <2>4, <2>5, <2>8 DEF Ends
<1> QED BY <1>2, <1>3

(* What comes first and last for each kind of request.                     *)
LEMMA OutcomeSound ==
    ASSUME TypeOK, asked # <<>>, NEW o \in Outcomes(Head(asked))
    PROVE  /\ Sound(o)
           /\ asked[1].run = "prepare" => Ends(o, {"1"}, {"T", "n"})
           /\ asked[1].run = "bound" => Ends(o, {"2"}, {"C"})
           /\ asked[1].run = "close" => Ends(o, {"3"}, {"3"}) /\ o.msgs[1].t = "3" /\ o.went = "done"
           /\ asked[1].run = "text" =>
                 IF asked[1].text = <<>> THEN Ends(o, {"I"}, {"I"})
                 ELSE RunsTo(o, asked[1].text[1], 1)
<1> DEFINE r == asked[1]
<1>1. Head(asked) = r /\ r \in Request /\ r.text \in Seq(Statement)
    BY MsgTypes
<1>2. server.txn \in {"I", "T", "E"}
    BY DEF TypeOK
<1>3. CASE r.run = "prepare"
    <2>1. o \in RunPrepare
        BY <1>1, <1>3 DEF Outcomes
    <2> QED BY <1>3, <2>1, PrepareSound DEF Preparing
<1>4. CASE r.run = "bound"
    <2>1. o \in RunBound
        BY <1>1, <1>4 DEF Outcomes
    <2>2. CASE o = Failure(<<>>, server.txn)
        <3> DEFINE m == Msg("E", "ERROR")  v == IF server.txn = "I" THEN "I" ELSE "E"
        <3>1. m \in Message /\ m.n = asked[1].n /\ m.t = "E" /\ m.v = "ERROR"
            BY MsgTypes DEF Msg
        <3>2. o = Outcome(<<m>>, v, "failed")
            BY <2>2 DEF Failure
        <3>3. v \in {"I", "T", "E"}
            OBVIOUS
        <3> HIDE DEF m, v
        <3>4. Sound(o) /\ o.msgs = <<m>> /\ o.went = "failed"
            BY <3>1, <3>2, <3>3, OneMessage
        <3>5. Ends(o, {"2"}, {"C"})
            BY <3>1, <3>4 DEF Ends
        <3> QED BY <1>4, <3>4, <3>5
    <2>3. CASE o # Failure(<<>>, server.txn)
        <3>1. PICK s \in {"SELECT", "UPDATE"}, p \in UNION {Run(t, server.txn, 0) : t \in {"SELECT", "UPDATE"}} :
                  p \in Run(s, server.txn, 0) /\ o = Outcome(<<Msg("2", "")>> \o p.msgs, p.txn, p.went)
            BY <2>1, <2>3 DEF RunBound
        <3>2. s \in Statement
            BY <1>4 DEF Statement
        <3>3. RunsTo(p, s, 0)
            BY <1>2, <1>4, <3>1, <3>2, RunSound DEF Preparing
        <3>4. Sound(p) /\ Ends(p, {"C", "D"}, {"C"})
            BY <3>3 DEF RunsTo
        <3> QED BY <1>4, <3>1, <3>4, BoundSound DEF Preparing
    <2> QED BY <2>2, <2>3
<1>5. CASE r.run = "close"
    <2> DEFINE m == Msg("3", "")
    <2>1. m \in Message /\ m.n = asked[1].n /\ m.t = "3" /\ m.v = ""
        BY MsgTypes DEF Msg
    <2>2. o = Outcome(<<m>>, server.txn, "done")
        BY <1>1, <1>5 DEF Outcomes, RunClose
    <2> HIDE DEF m
    <2>3. Sound(o) /\ o.msgs = <<m>> /\ o.went = "done"
        BY <1>2, <2>1, <2>2, OneMessage
    <2>4. Ends(o, {"3"}, {"3"})
        BY <2>1, <2>3, OneEnds
    <2>5. <<m>>[1] = m
        OBVIOUS
    <2> QED BY <1>5, <2>1, <2>3, <2>4, <2>5
<1>6. CASE r.run = "text"
    <2>1. o \in RunText(r.text)
        BY <1>1, <1>6 DEF Outcomes
    <2>2. CASE r.text = <<>>
        <3> DEFINE m == Msg("I", "")
        <3>1. m \in Message /\ m.n = asked[1].n /\ m.t = "I" /\ m.v = ""
            BY MsgTypes DEF Msg
        <3>2. o = Outcome(<<m>>, server.txn, "done")
            BY <2>1, <2>2 DEF RunText
        <3> HIDE DEF m
        <3>3. Sound(o) /\ o.msgs = <<m>> /\ o.went = "done"
            BY <1>2, <3>1, <3>2, OneMessage
        <3>4. Ends(o, {"I"}, {"I"})
            BY <3>1, <3>3, OneEnds
        <3> QED BY <1>6, <2>2, <3>3, <3>4
    <2>3. CASE r.text # <<>>
        <3>1. Head(r.text) = r.text[1] /\ r.text[1] \in Statement
            BY <1>1, <2>3, HeadTailProperties
        <3>2. o \in Run(r.text[1], server.txn, 1)
            BY <2>1, <2>3, <3>1 DEF RunText
        <3>3. RunsTo(o, r.text[1], 1)
            BY <1>2, <1>6, <2>1, <3>1, <3>2, RunSound DEF Preparing
        <3> QED BY <1>6, <2>3, <3>3 DEF RunsTo
    <2> QED BY <2>2, <2>3
<1> QED BY <1>1, <1>3, <1>4, <1>5, <1>6 DEF Request

-----------------------------------------------------------------------------
(* The type invariant.                                                     *)
LEMMA ServeTypes == ASSUME TypeOK, Serve PROVE TypeOK'
<1> DEFINE r == asked[1]
<1>1. r \in Request /\ Head(asked) = r /\ asked # <<>>
    BY MsgTypes DEF Serve
<1>2. PICK o \in Outcomes(Head(asked)) :
          /\ server' = [txn |-> o.txn, went |-> o.went]
          /\ IF Len(r.text) <= 1 \/ o.went = "failed"
             THEN inbox' = inbox \o Append(o.msgs, Msg("Z", o.txn)) /\ asked' = Tail(asked)
             ELSE inbox' = inbox \o o.msgs /\ asked' = [asked EXCEPT ![1].text = Tail(@)]
    BY <1>1 DEF Serve
<1>8. \/ /\ inbox' = inbox \o Append(o.msgs, Msg("Z", o.txn))
         /\ asked' = Tail(asked)
      \/ /\ inbox' = inbox \o o.msgs
         /\ asked' = [asked EXCEPT ![1].text = Tail(@)] /\ Len(r.text) > 1
    <2>1. Len(r.text) \in Nat
        BY <1>1, LenProperties DEF Request
    <2> QED BY <1>2, <2>1
<1>3. Sound(o)
    BY <1>1, OutcomeSound
<1>4. o.msgs \in Seq(Message) /\ o.txn \in {"I", "T", "E"} /\ Msg("Z", o.txn) \in Message
    BY <1>1, <1>3, MsgTypes DEF Sound
<1>5. inbox' \in Seq(Message)
    <2> DEFINE q == Append(o.msgs, Msg("Z", o.txn))
    <2>1. q \in Seq(Message)
        BY <1>4, AppendProperties
    <2>2. inbox \in Seq(Message)
        BY DEF TypeOK
    <2>3. inbox' = inbox \o q \/ inbox' = inbox \o o.msgs
        BY <1>8
    <2> HIDE DEF q
    <2>4. inbox \o q \in Seq(Message)
        BY <2>1, <2>2, ConcatProperties
    <2>5. inbox \o o.msgs \in Seq(Message)
        BY <1>4, <2>2, ConcatProperties
    <2> QED BY <2>3, <2>4, <2>5
<1>6. asked' \in Seq(Request)
    <2>1. asked \in Seq(Request)
        BY DEF TypeOK
    <2>2. CASE asked' = Tail(asked)
        BY <1>1, <2>1, <2>2, HeadTailProperties
    <2>3. CASE asked' = [asked EXCEPT ![1].text = Tail(@)] /\ Len(r.text) > 1
        <3> DEFINE q == [r EXCEPT !.text = Tail(@)]
        <3>1. r.text \in Seq(Statement) /\ r.text # <<>>
            BY <1>1, <2>3, EmptySeq DEF Request
        <3>2. Tail(r.text) \in Seq(Statement)
            BY <3>1, HeadTailProperties
        <3>3. q \in Request
            BY <1>1, <3>2 DEF Request
        <3>4. asked' = [asked EXCEPT ![1] = q]
            BY <2>3
        <3>5. 1 \in 1..Len(asked)
            BY <1>1, <2>1, EmptySeq, LenProperties
        <3> HIDE DEF q
        <3> QED BY <2>1, <3>3, <3>4, <3>5, ExceptSeq
    <2> QED BY <1>8, <2>2, <2>3
<1>7. server'.txn \in {"I", "T", "E"}
    BY <1>2, <1>4
<1> QED BY <1>5, <1>6, <1>7 DEF Serve, TypeOK, method, history

LEMMA BreakTypes == ASSUME TypeOK, Break PROVE TypeOK'
<1>1. inbox' \in Seq(Message)
    <2>1. inbox \in Seq(Message) /\ Len(inbox) \in Nat
        BY LenProperties DEF TypeOK
    <2>2. ASSUME NEW k \in 0..Len(inbox), inbox' = SubSeq(inbox, 1, k) PROVE inbox' \in Seq(Message)
        <3>1. \A i \in 1..k : inbox[i] \in Message
            BY <2>1, <2>2, ElementOfSeq
        <3> QED BY <2>1, <2>2, <3>1, SubSeqProperties
    <2>3. [t |-> "E", v |-> "FATAL", n |-> requests] \in Message
        BY DEF TypeOK, Message
    <2> QED BY <2>1, <2>2, <2>3, AppendProperties DEF Break
<1>2. asked' = <<>> /\ link' \in {"up", "eof", "reset", "torn"}
    BY DEF Break
<1> QED BY <1>1, <1>2 DEF Break, TypeOK, method, history

LEMMA RecvTypes == ASSUME TypeOK, Recv PROVE TypeOK' /\ DriverTypes
<1>1. PICK m \in Message : ReadMessage(m) /\ inbox' \in Seq(Message) /\ mixed' \in BOOLEAN
    <2>1. CASE saved # NoMessage /\ ReadMessage(saved) /\ UNCHANGED <<inbox, mixed>>
        BY <2>1 DEF TypeOK
    <2>2. CASE saved = NoMessage /\ inbox # <<>> /\ inbox' = Tail(inbox) /\ ReadMessage(Head(inbox))
               /\ mixed' = (mixed \/ (Head(inbox).n # requests /\ Head(inbox).v # "FATAL"))
        <3>1. Head(inbox) \in Message /\ Tail(inbox) \in Seq(Message)
            BY <2>2, NextMessage
        <3> QED BY <2>2, <3>1 DEF TypeOK
    <2> QED BY <2>1, <2>2 DEF Recv
<1>2. DriverTypes
    BY <1>1, SimpleExecTypes, SimpleQueryTypes, PrepareToTypes, ExecTypes, WorkaroundTypes,
       StmtExecTypes, StmtCloseTypes, RowsTypes DEF ReadMessage
<1>3. TypeOK'
    BY <1>1, <1>2 DEF Recv, TypeOK, DriverTypes
<1> QED BY <1>2, <1>3

LEMMA StartupTypes == ASSUME TypeOK, Open \/ Password \/ RecvStartup PROVE TypeOK'
<1>1. CASE Gone("error")
    BY <1>1, GoneType
<1>2. CASE Open /\ ~Gone("error")
    <2>1. inbox' \in Seq(Message)
        BY <1>2, StartTypes DEF Open
    <2> QED BY <1>2, <2>1 DEF Open, TypeOK, history
<1>3. CASE Password /\ ~Gone("error")
    <2>1. inbox' \in Seq(Message)
        BY <1>3, StartTypes DEF Password, TypeOK
    <2> QED BY <1>3, <2>1 DEF Password, TypeOK, method, history
<1>4. CASE RecvStartup /\ ~Gone("error")
    <2>1. Head(inbox) \in Message /\ Tail(inbox) \in Seq(Message)
        BY <1>4, NextMessage DEF RecvStartup
    <2>2. Head(inbox).t = "Z" => Head(inbox).v \in {"I", "T", "E"}
        BY <2>1, Messages
    <2> DEFINE m == Head(inbox)
    <2>3. /\ loop' = IF m.v = "ok" THEN "startup" ELSE IF m.v = "password" THEN "password" ELSE "none"
          /\ IF m.t = "Z" THEN txn' = m.v /\ call' = "none" /\ answer' = "ok"
             ELSE UNCHANGED <<txn, call, answer>>
          /\ inbox' = Tail(inbox)
          /\ UNCHANGED <<prepared, inTx, err, res, bad, saved, rows, link, requests, asked, server, history>>
        BY <1>4 DEF RecvStartup
    <2>4. loop' \in {"startup", "password", "none"} /\ inbox' \in Seq(Message)
        BY <2>1, <2>3
    <2>5. CASE m.t = "Z"
        BY <2>2, <2>3, <2>4, <2>5 DEF TypeOK, history
    <2>6. CASE m.t # "Z"
        BY <2>3, <2>4, <2>6 DEF TypeOK, history
    <2> QED BY <2>5, <2>6
<1> QED BY <1>1, <1>2, <1>3, <1>4

(* What is sent, and the loop that reads the answer.                       *)
Fits(c, run, text, l) ==
    /\ c \in {"none", "Open", "Begin", "Commit", "CommitFailed", "Rollback", "StmtClose"}
                \cup Simple \cup Extended
    /\ run \in {"text", "prepare", "bound", "close"} /\ text \in Seq(Statement)
    /\ run = "text" => l \in {"simpleExec", "simpleQuery"}
    /\ run # "text" => text = <<>> /\ l = LoopOf[run]
    /\ l = "simpleExec" /\ c = "Commit" => text = <<"COMMIT">>

Called ==
    \/ Begin \/ Commit \/ Rollback \/ StmtClose \/ Bind
    \/ \E text \in Texts : Exec(text) \/ Query(text)
    \/ \E c \in Extended : Prepare(c)

Waits == <<prepared, txn, saved, rows, inbox, link, requests, asked, server, history>>

LEMMA Calls ==
    ASSUME TypeOK, Called
    PROVE  /\ loop = "bind" \/ (loop = "none" /\ ~bad /\ rows = "none")
           /\ \/ \E c, run, text, l : Fits(c, run, text, l) /\ Send(c, run, text, l)
              \/ \E c : \E isBad \in {bad, TRUE} : Finish(c, "error", isBad) /\ UNCHANGED Waits
<1>1. <<>> \in Seq(Statement) /\ <<"BEGIN">> \in Seq(Statement) /\ <<"COMMIT">> \in Seq(Statement)
      /\ <<"ROLLBACK">> \in Seq(Statement) /\ \A text \in Texts : text \in Seq(Statement)
    BY TextsAssumption DEF Statement
<1>2. loop = "bind" \/ (loop = "none" /\ ~bad /\ rows = "none")
    BY DEF Called, Begin, Commit, Rollback, EndTx, StmtClose, Bind, Exec, Query, Prepare, Idle
<1>3. ASSUME NEW c, WrongStatus(c)
      PROVE  \E isBad \in {bad, TRUE} : Finish(c, "error", isBad) /\ UNCHANGED Waits
    BY <1>3 DEF WrongStatus, Waits
<1>4. CASE Begin
    <2>1. CASE WrongStatus("Begin")
        BY <1>2, <1>3, <2>1
    <2>2. CASE Send("Begin", "text", <<"BEGIN">>, "simpleExec")
        <3>1. Fits("Begin", "text", <<"BEGIN">>, "simpleExec")
            BY <1>1 DEF Fits
        <3> QED BY <1>2, <2>2, <3>1
    <2> QED BY <1>4, <2>1, <2>2 DEF Begin
<1>5. ASSUME NEW c, NEW t, EndTx(c, t), Fits(c, "text", <<t>>, "simpleExec")
      PROVE  \/ Fits(c, "text", <<t>>, "simpleExec") /\ Send(c, "text", <<t>>, "simpleExec")
             \/ \E isBad \in {bad, TRUE} : Finish(c, "error", isBad) /\ UNCHANGED Waits
    BY <1>3, <1>5 DEF EndTx
<1>6. CASE Commit \/ Rollback
    <2>1. /\ Fits("Commit", "text", <<"COMMIT">>, "simpleExec")
          /\ Fits("CommitFailed", "text", <<"ROLLBACK">>, "simpleExec")
          /\ Fits("Rollback", "text", <<"ROLLBACK">>, "simpleExec")
        BY <1>1 DEF Fits
    <2>2. EndTx("Commit", "COMMIT") \/ EndTx("CommitFailed", "ROLLBACK") \/ EndTx("Rollback", "ROLLBACK")
        BY <1>6 DEF Commit, Rollback
    <2> QED BY <1>2, <1>5, <2>1, <2>2
<1>7. CASE StmtClose
    <2>1. Send("StmtClose", "close", <<>>, "stmtClose") /\ Fits("StmtClose", "close", <<>>, "stmtClose")
        BY <1>1, <1>7 DEF StmtClose, Fits, LoopOf
    <2> QED BY <1>2, <2>1
<1>8. CASE Bind
    <2>1. CASE Send(call, "bound", <<>>, "exec")
        <3>1. Fits(call, "bound", <<>>, "exec")
            BY <1>1 DEF Fits, TypeOK, LoopOf
        <3> QED BY <1>2, <2>1, <3>1
    <2>2. CASE Return("error", bad) /\ UNCHANGED Waits
        BY <1>2, <2>2 DEF Return
    <2> QED BY <1>8, <2>1, <2>2 DEF Bind, Waits
<1>9. CASE \E text \in Texts : Exec(text) \/ Query(text)
    <2>1. PICK text \in Texts : \/ Send("Exec", "text", text, "simpleExec") /\ "Exec" \in Simple
                                \/ Send("Query", "text", text, "simpleQuery") /\ "Query" \in Simple
        BY <1>9 DEF Exec, Query
    <2>2. "Exec" \in Simple => Fits("Exec", "text", text, "simpleExec")
        BY <1>1 DEF Fits
    <2>3. "Query" \in Simple => Fits("Query", "text", text, "simpleQuery")
        BY <1>1 DEF Fits
    <2> QED BY <1>2, <2>1, <2>2, <2>3
<1>10. CASE \E c \in Extended : Prepare(c)
    <2>1. PICK c \in Extended : Send(c, "prepare", <<>>, "prepareTo")
        BY <1>10 DEF Prepare
    <2>2. Fits(c, "prepare", <<>>, "prepareTo")
        BY <1>1 DEF Fits, LoopOf
    <2> QED BY <1>2, <2>1, <2>2
<1> QED BY <1>4, <1>6, <1>7, <1>8, <1>9, <1>10 DEF Called

LEMMA CallTypes == ASSUME TypeOK, Called PROVE TypeOK'
<1>1. CASE \E c, run, text, l : Fits(c, run, text, l) /\ Send(c, run, text, l)
    <2>1. PICK c, run, text, l : Fits(c, run, text, l) /\ Send(c, run, text, l)
        BY <1>1
    <2>2. l \in {"simpleExec", "simpleQuery", "prepareTo", "exec", "stmtClose"}
        BY <2>1 DEF Fits, LoopOf
    <2> QED BY <2>1, <2>2, SendType DEF Fits
<1>2. CASE \E c : \E isBad \in {bad, TRUE} : Finish(c, "error", isBad) /\ UNCHANGED Waits
    <2>1. PICK c, isBad : isBad \in {bad, TRUE} /\ Finish(c, "error", isBad) /\ UNCHANGED Waits
        BY <1>2
    <2>2. isBad \in BOOLEAN
        BY <2>1 DEF TypeOK
    <2>3. /\ loop' = "none" /\ call' = "none" /\ err' = "nil" /\ res' = "nil"
          /\ answer' = "error" /\ bad' \in BOOLEAN /\ inTx' \in BOOLEAN
        BY <2>1, <2>2, FinishType
    <2> QED BY <2>1, <2>3 DEF TypeOK, Waits, history
<1> QED BY <1>1, <1>2, Calls

LEMMA RecvFailsTypes == ASSUME TypeOK, RecvFails PROVE TypeOK'
<1>1. Recovered(link) \in Answers /\ bad \in BOOLEAN
    BY ResultTypes DEF TypeOK
<1>2. /\ loop' = "none" /\ call' = "none" /\ err' = "nil" /\ res' = "nil"
      /\ answer' \in Answers /\ bad' \in BOOLEAN /\ inTx' \in BOOLEAN
    BY <1>1, ReturnTypes DEF RecvFails
<1> QED BY <1>2 DEF RecvFails, TypeOK, history, Answers

(* Between methods.                                                        *)
Between ==
    \/ \E c \in Extended : Execute(c)
    \/ \E l \in {"next", "close"} : Fetch(l)
    \/ Refuse \/ Close

LEMMA BetweenTypes == ASSUME TypeOK, Between PROVE TypeOK'
<1>1. CASE \E c \in Extended : Execute(c)
    BY <1>1 DEF Execute, TypeOK, history
<1>2. CASE \E l \in {"next", "close"} : Fetch(l)
    BY <1>2 DEF Fetch, TypeOK, method, history
<1>3. CASE Refuse
    BY <1>3 DEF Refuse, TypeOK, method, history
<1>4. CASE Close
    BY <1>4, GoneType DEF Close
<1> QED BY <1>1, <1>2, <1>3, <1>4 DEF Between

Starts == Open \/ Password \/ RecvStartup
Steps == Starts \/ Called \/ Between \/ Recv \/ RecvFails \/ Serve \/ Break

LEMMA NextSteps == Next => Steps
BY DEF Next, Steps, Starts, Called, Between

LEMMA TypeStep == TypeOK /\ [Next]_vars => TypeOK'
<1>1. ASSUME TypeOK, Steps PROVE TypeOK'
    BY <1>1, StartupTypes, CallTypes, BetweenTypes, RecvTypes, RecvFailsTypes, ServeTypes, BreakTypes
       DEF Steps, Starts
<1>2. ASSUME TypeOK, UNCHANGED vars PROVE TypeOK'
    BY <1>2 DEF TypeOK, vars, method, history
<1> QED BY <1>1, <1>2, NextSteps

-----------------------------------------------------------------------------
(* How a loop ends, with a history or without.                             *)
Turns ==
    \/ loop' = "none"
    \/ loop' = loop /\ rows' = rows /\ bad' = bad /\ (loop = "stmtClose" => err' = err /\ res' \in {res, "closed"})
    \/ /\ loop' \in {"bind", "workaround", "stmtExec"} /\ loop \notin {"next", "close"}
       /\ rows' = rows /\ bad' = bad

LEMMA ReadTurns == ASSUME NEW m, ReadMessage(m) PROVE Turns
<1>1. CASE ReadSimpleExec(m)
    BY <1>1 DEF ReadSimpleExec, Continue, Unexpected, Ready, Return, Finish, Turns, method
<1>2. CASE ReadSimpleQuery(m)
    BY <1>2 DEF ReadSimpleQuery, Continue, Unexpected, Ready, Return, Finish, Turns, method
<1>3. CASE ReadPrepareTo(m)
    BY <1>3 DEF ReadPrepareTo, Continue, Unexpected, Ready, Return, Finish, Turns, method
<1>4. CASE ReadExec(m)
    BY <1>4 DEF ReadExec, Executed, Continue, Unexpected, Ready, Return, Finish, Turns, method
<1>5. CASE ReadWorkaround(m)
    BY <1>5 DEF ReadWorkaround, Executed, Continue, Unexpected, Ready, Return, Finish, Turns, method
<1>6. CASE ReadStmtExec(m)
    BY <1>6 DEF ReadStmtExec, Continue, Unexpected, Ready, Return, Finish, Turns, method
<1>7. CASE ReadStmtClose(m)
    BY <1>7 DEF ReadStmtClose, Unexpected, Ready, Return, Finish, Turns, method
<1>8. CASE ReadRows(m)
    BY <1>8 DEF ReadRows, Continue, Ready, Return, Finish, Turns, method
<1> QED BY <1>1, <1>2, <1>3, <1>4, <1>5, <1>6, <1>7, <1>8 DEF ReadMessage

(* What a loop does with a message that it expects: it goes on, or keeps   *)
(* the rows to be read on;                                                 *)
TextLoops == {"simpleExec", "simpleQuery", "next", "close", "none"}
Letters == {"1", "2", "3", "D", "I", "T", "n", "t", "none", "C", "E", "Z", "R", "F"}

GoesOn(m) ==
    /\ Letter(m) # "Z" /\ strayed' = strayed /\ answer' \notin {"ok", "committed"}
    /\ loop' = "none" => rows' = "open" /\ ~bad'
    /\ loop' \notin {"closed", "bind", "startup", "password", "auth"}
    /\ saved' = NoMessage \/ (/\ saved' = m /\ m.t \in {"D", "C", "I"} /\ err' = "nil"
                              /\ loop' \in {"none", "stmtExec"})
    /\ err' # "nil" <=> (m.t = "E" \/ err # "nil")
    /\ \A y \in Letters : Follows(Letter(m), y, loop = "prepareTo") => Expects(y)'
    /\ loop \in TextLoops => loop' \in TextLoops
    /\ loop = "prepareTo" <=> loop' = "prepareTo"
    /\ loop' = "simpleQuery" /\ m.t = "C" /\ err' = "nil" => res' # "open"
    /\ loop' = "simpleExec" => loop = "simpleExec" /\ call' = call /\ res' \in {res, m.v}

(* or the server is ready, and so is the connection;                       *)
Done(m) ==
    /\ Letter(m) = "Z" /\ loop' \in {"none", "bind"} /\ rows' # "open" /\ saved' = NoMessage
    /\ strayed' = strayed /\ (txn' = m.v \/ bad')
    /\ answer' = "ok" => err = "nil"
    /\ answer' = "committed" =>
          err = "nil" /\ loop = "simpleExec" /\ call = "Commit" /\ res = "COMMIT"

(* or the connection cannot be used.                                       *)
Fails(m) == Letter(m) = "F" /\ loop' = "none" /\ bad' /\ strayed' = strayed /\ answer' = "error"

Due(m) ==
    /\ m \in Message /\ Reading /\ saved = NoMessage /\ Expects(Letter(m))
    /\ answer \notin {"ok", "committed"} /\ ~strayed /\ ~strayed'

LEMMA Lettered ==
    ASSUME NEW m \in Message
    PROVE  /\ (Letter(m) = "F" /\ m.t = "E") \/ (Letter(m) = m.t /\ m.t # "F")
           /\ Letter(m) \in Letters
           /\ m.t = "E" => m.v \in {"ERROR", "FATAL"}
<1>1. m.v \in {"ERROR", "FATAL"} <=> m.t = "E"
    BY Messages
<1>2. m.t \in Letters /\ m.t # "F"
    BY DEF Message, Letters
<1> QED BY <1>1, <1>2 DEF Letter, Letters

(* An answer that ends the loop.                                           *)
LEMMA DoneReady ==
    ASSUME Loops, NEW m, Due(m), Letter(m) = "Z", NEW a, NEW isBad, Ready(m, a, isBad),
           rows' # "open", a = "ok" => err = "nil",
           a = "committed" => err = "nil" /\ loop = "simpleExec" /\ call = "Commit" /\ res = "COMMIT"
    PROVE  Done(m)
BY DEF Done, Ready, Return, Finish, Due

LEMMA SimpleExecDue ==
    ASSUME TypeOK, Loops, NEW m, Due(m), ReadSimpleExec(m) PROVE GoesOn(m) \/ Done(m)
<1>1. loop = "simpleExec" /\ ~bad /\ rows # "open"
    BY DEF ReadSimpleExec, Loops
<1>2. /\ (Letter(m) = "F" /\ m.t = "E") \/ (Letter(m) = m.t /\ m.t # "F")
      /\ m.t = "E" => m.v \in {"ERROR", "FATAL"}
    BY Lettered DEF Due
<1>3. CASE Letter(m) = "Z"
    <2>1. m.t = "Z" /\ UNCHANGED rows
        BY <1>2, <1>3 DEF ReadSimpleExec, Unexpected
    <2>2. CASE call = "Exec" \/ err # "nil"
        <3>1. Ready(m, Result, FALSE)
            BY <2>1, <2>2 DEF ReadSimpleExec
        <3> QED BY <1>1, <1>3, <2>1, <3>1, DoneReady DEF Result
    <2>3. CASE ~(call = "Exec" \/ err # "nil")
        <3>1. \/ \E x : Ready(m, "error", x)
              \/ Ready(m, Ended, FALSE) /\ res = Expected[call]
            BY <2>1, <2>3 DEF ReadSimpleExec
        <3>2. CASE \E x : Ready(m, "error", x)
            BY <1>1, <1>3, <2>1, <3>2, DoneReady
        <3>3. CASE Ready(m, Ended, FALSE) /\ res = Expected[call]
            <4>1. Ended = "committed" => call = "Commit" /\ res = "COMMIT"
                BY <3>3 DEF Ended, Expected
            <4> QED BY <1>1, <1>3, <2>1, <2>3, <3>3, <4>1, DoneReady
        <3> QED BY <3>1, <3>2, <3>3
    <2> QED BY <2>2, <2>3
<1>4. CASE Letter(m) # "Z"
    <2>1. m.t \in {"C", "E", "T", "D", "I"}
        BY <1>1, <1>2, <1>4 DEF Expects, Due
    <2>2. PICK e, r : /\ Continue(e, r) /\ (m.t = "E" => e = m.v) /\ (m.t # "E" => e = err)
                      /\ r \in {res, m.v}
        BY <2>1 DEF ReadSimpleExec
    <2>3. /\ loop' = loop /\ call' = call /\ bad' = bad /\ answer' = answer /\ strayed' = strayed
          /\ err' = e /\ res' = r /\ saved' = NoMessage
        BY <2>2 DEF Continue, method
    <2>4. err' # "nil" <=> (m.t = "E" \/ err # "nil")
        BY <1>2, <2>2, <2>3
    <2>5. \A y \in Letters : Follows(Letter(m), y, loop = "prepareTo") => Expects(y)'
        BY <1>1, <1>2, <2>1, <2>3, <2>4 DEF Follows, Expects, Due
    <2> QED BY <1>1, <1>4, <2>2, <2>3, <2>4, <2>5 DEF GoesOn, TextLoops, Due
<1> QED BY <1>3, <1>4

LEMMA SimpleQueryDue ==
    ASSUME TypeOK, Loops, NEW m, Due(m), ReadSimpleQuery(m) PROVE GoesOn(m) \/ Done(m)
<1>1. loop = "simpleQuery" /\ ~bad /\ rows # "open"
    BY DEF ReadSimpleQuery, Loops
<1>2. /\ (Letter(m) = "F" /\ m.t = "E") \/ (Letter(m) = m.t /\ m.t # "F")
      /\ m.t = "E" => m.v \in {"ERROR", "FATAL"}
    BY Lettered DEF Due
<1>3. CASE Letter(m) = "Z"
    <2>1. m.t = "Z" /\ rows' = (IF err = "nil" /\ res # "nil" THEN res ELSE "none")
          /\ Ready(m, Result, FALSE)
        BY <1>2, <1>3 DEF ReadSimpleQuery
    <2>2. err = "nil" => res # "open"
        BY <1>1, <1>3 DEF Expects, Due
    <2> QED BY <1>1, <1>3, <2>1, <2>2, DoneReady DEF Result
<1>4. CASE m.t = "D"
    <2>1. err = "nil" /\ res = "open" /\ Letter(m) = "D"
        BY <1>1, <1>2, <1>4 DEF Expects, Due
    <2>2. saved' = m /\ rows' = res /\ Return("rows", bad) /\ UNCHANGED <<prepared, txn, strayed>>
        BY <1>4, <2>1 DEF ReadSimpleQuery
    <2>3. /\ loop' = "none" /\ ~bad' /\ answer' = "rows" /\ strayed' = strayed /\ rows' = "open"
          /\ err' = "nil" /\ saved' = m
        BY <1>1, <2>1, <2>2 DEF Return, Finish
    <2>4. \A y \in Letters : Follows(Letter(m), y, loop = "prepareTo") => Expects(y)'
        BY <1>1, <2>1, <2>3 DEF Follows, Expects
    <2> QED BY <1>1, <1>4, <2>1, <2>3, <2>4 DEF GoesOn, TextLoops
<1>5. CASE Letter(m) # "Z" /\ m.t # "D"
    <2>1. m.t \in {"C", "I", "E", "T"} /\ (m.t \in {"C", "I"} => err = "nil")
          /\ (err = "nil" /\ m.t = "T" => res # "open")
        BY <1>1, <1>2, <1>5 DEF Expects, Due
    <2>2. PICK e, r : /\ Continue(e, r) /\ (m.t = "E" => e = m.v) /\ (m.t # "E" => e = err)
                      /\ r = (IF m.t \in {"C", "I"} THEN "done" ELSE IF m.t = "E" THEN "nil" ELSE "open")
        BY <2>1 DEF ReadSimpleQuery, NoRows
    <2>3. /\ loop' = loop /\ call' = call /\ bad' = bad /\ answer' = answer /\ strayed' = strayed
          /\ err' = e /\ res' = r /\ saved' = NoMessage
        BY <2>2 DEF Continue, method
    <2>4. err' # "nil" <=> (m.t = "E" \/ err # "nil")
        BY <1>2, <2>2, <2>3
    <2>5. \A y \in Letters : Follows(Letter(m), y, loop = "prepareTo") => Expects(y)'
        BY <1>1, <1>2, <2>1, <2>2, <2>3, <2>4 DEF Follows, Expects, Due
    <2> QED BY <1>1, <1>5, <2>2, <2>3, <2>4, <2>5 DEF GoesOn, TextLoops, Due
<1> QED BY <1>3, <1>4, <1>5

LEMMA PrepareToDue ==
    ASSUME TypeOK, Loops, NEW m, Due(m), ReadPrepareTo(m) PROVE GoesOn(m) \/ Done(m)
<1>1. loop = "prepareTo" /\ ~bad /\ rows # "open"
    BY DEF ReadPrepareTo, Loops
<1>2. /\ (Letter(m) = "F" /\ m.t = "E") \/ (Letter(m) = m.t /\ m.t # "F")
      /\ m.t = "E" => m.v \in {"ERROR", "FATAL"}
    BY Lettered DEF Due
<1>3. CASE Letter(m) = "Z"
    <2>1. m.t = "Z" /\ UNCHANGED rows
        BY <1>2, <1>3 DEF ReadPrepareTo, Unexpected
    <2>2. CASE Ready(m, Result, FALSE)
        BY <1>1, <1>3, <2>1, <2>2, DoneReady DEF Result
    <2>3. CASE loop' = "bind" /\ txn' = m.v /\ saved' = NoMessage
               /\ UNCHANGED <<method, err, res, bad, answer, strayed>>
        BY <1>1, <1>3, <2>1, <2>3 DEF Done, Due
    <2> QED BY <2>1, <2>2, <2>3 DEF ReadPrepareTo
<1>4. CASE Letter(m) # "Z"
    <2>1. m.t \in {"1", "t", "T", "n", "E"}
        BY <1>1, <1>2, <1>4 DEF Expects, Due
    <2>2. PICK e : Continue(e, res) /\ (m.t = "E" => e = m.v) /\ (m.t # "E" => e = err)
        BY <2>1 DEF ReadPrepareTo
    <2>3. /\ loop' = loop /\ call' = call /\ bad' = bad /\ answer' = answer /\ strayed' = strayed
          /\ err' = e /\ res' = res /\ saved' = NoMessage
        BY <2>2 DEF Continue, method
    <2>4. err' # "nil" <=> (m.t = "E" \/ err # "nil")
        BY <1>2, <2>2, <2>3
    <2>5. \A y \in Letters : Follows(Letter(m), y, loop = "prepareTo") => Expects(y)'
        BY <1>1, <1>2, <2>1, <2>3, <2>4 DEF Follows, Expects, Due
    <2> QED BY <1>1, <1>4, <2>2, <2>3, <2>4, <2>5 DEF GoesOn, TextLoops, Due
<1> QED BY <1>3, <1>4

(* A statement that is executed: its rows are kept, or read to the end.    *)
LEMMA ExecutedDue ==
    ASSUME NEW m, Executed, ~bad, answer \notin {"ok", "committed"}, rows # "open"
    PROVE  /\ loop' \in {"none", "stmtExec"} /\ ~bad' /\ answer' \notin {"ok", "committed"}
           /\ loop' = "none" => rows' = "open"
           /\ err = "nil" => err' = "nil"
BY DEF Executed, Return, Finish, method

LEMMA ExecDue ==
    ASSUME TypeOK, Loops, NEW m, Due(m), ReadExec(m) PROVE GoesOn(m) \/ Done(m)
<1>1. loop = "exec" /\ ~bad /\ rows # "open"
    BY DEF ReadExec, Loops
<1>2. /\ (Letter(m) = "F" /\ m.t = "E") \/ (Letter(m) = m.t /\ m.t # "F")
      /\ m.t = "E" => m.v \in {"ERROR", "FATAL"}
    BY Lettered DEF Due
<1>3. CASE Letter(m) = "Z"
    <2>1. err # "nil"
        BY <1>1, <1>3 DEF Expects, Due
    <2>2. m.t = "Z" /\ UNCHANGED rows /\ Ready(m, Recovered(err), FALSE)
        BY <1>2, <1>3, <2>1 DEF ReadExec
    <2>3. Recovered(err) \notin {"ok", "committed"}
        BY DEF Recovered
    <2> QED BY <1>1, <1>3, <2>2, <2>3, DoneReady
<1>4. CASE m.t = "2"
    <2>1. err = "nil" /\ Letter(m) = "2"
        BY <1>1, <1>2, <1>4 DEF Expects, Due
    <2>2. /\ loop' = "workaround" /\ saved' = NoMessage
          /\ UNCHANGED <<method, err, res, bad, txn, rows, answer, strayed>>
        BY <1>4, <2>1 DEF ReadExec
    <2>3. \A y \in Letters : Follows(Letter(m), y, loop = "prepareTo") => Expects(y)'
        BY <2>1, <2>2 DEF Follows, Expects
    <2> QED BY <1>1, <1>4, <2>1, <2>2, <2>3 DEF GoesOn, TextLoops, Due
<1>5. CASE Letter(m) # "Z" /\ m.t # "2"
    <2>1. m.t = "E"
        BY <1>1, <1>2, <1>5 DEF Expects, Due
    <2>2. Continue(m.v, res)
        BY <2>1 DEF ReadExec
    <2>3. /\ loop' = loop /\ call' = call /\ bad' = bad /\ answer' = answer /\ strayed' = strayed
          /\ err' = m.v /\ res' = res /\ saved' = NoMessage
        BY <2>2 DEF Continue, method
    <2>4. err' # "nil"
        BY <1>2, <2>1, <2>3
    <2>5. \A y \in Letters : Follows(Letter(m), y, loop = "prepareTo") => Expects(y)'
        BY <1>1, <1>2, <2>1, <2>3, <2>4 DEF Follows, Expects, Due
    <2> QED BY <1>1, <1>5, <2>1, <2>3, <2>4, <2>5 DEF GoesOn, TextLoops, Due
<1> QED BY <1>3, <1>4, <1>5

LEMMA WorkaroundDue ==
    ASSUME TypeOK, Loops, NEW m, Due(m), ReadWorkaround(m) PROVE GoesOn(m) \/ Done(m)
<1>1. loop = "workaround" /\ ~bad /\ rows # "open"
    BY DEF ReadWorkaround, Loops
<1>2. /\ (Letter(m) = "F" /\ m.t = "E") \/ (Letter(m) = m.t /\ m.t # "F")
      /\ m.t = "E" => m.v \in {"ERROR", "FATAL"}
    BY Lettered DEF Due
<1>3. CASE Letter(m) = "Z"
    <2>1. err # "nil"
        BY <1>1, <1>3 DEF Expects, Due
    <2>2. m.t = "Z" /\ UNCHANGED rows /\ Ready(m, Recovered(err), FALSE)
        BY <1>2, <1>3, <2>1 DEF ReadWorkaround
    <2>3. Recovered(err) \notin {"ok", "committed"}
        BY DEF Recovered
    <2> QED BY <1>1, <1>3, <2>2, <2>3, DoneReady
<1>4. CASE m.t \in {"C", "D"}
    <2>1. err = "nil" /\ Letter(m) = m.t
        BY <1>1, <1>2, <1>4 DEF Expects, Due
    <2>2. saved' = m /\ Executed /\ UNCHANGED <<txn, strayed>>
        BY <1>4 DEF ReadWorkaround, Unexpected
    <2>3. /\ loop' \in {"none", "stmtExec"} /\ ~bad' /\ answer' \notin {"ok", "committed"}
          /\ loop' = "none" => rows' = "open"
          /\ err' = "nil"
        BY <1>1, <2>1, <2>2, ExecutedDue DEF Due
    <2>4. \A y \in Letters : Follows(Letter(m), y, loop = "prepareTo") => Expects(y)'
        BY <1>1, <1>4, <2>1, <2>3 DEF Follows, Expects
    <2> QED BY <1>1, <1>4, <2>1, <2>2, <2>3, <2>4 DEF GoesOn, TextLoops, Due
<1>5. CASE Letter(m) # "Z" /\ m.t \notin {"C", "D"}
    <2>1. m.t = "E"
        BY <1>1, <1>2, <1>5 DEF Expects, Due
    <2>2. Continue(m.v, res)
        BY <2>1 DEF ReadWorkaround
    <2>3. /\ loop' = loop /\ call' = call /\ bad' = bad /\ answer' = answer /\ strayed' = strayed
          /\ err' = m.v /\ res' = res /\ saved' = NoMessage
        BY <2>2 DEF Continue, method
    <2>4. err' # "nil"
        BY <1>2, <2>1, <2>3
    <2>5. \A y \in Letters : Follows(Letter(m), y, loop = "prepareTo") => Expects(y)'
        BY <1>1, <1>2, <2>1, <2>3, <2>4 DEF Follows, Expects, Due
    <2> QED BY <1>1, <1>5, <2>1, <2>3, <2>4, <2>5 DEF GoesOn, TextLoops, Due
<1> QED BY <1>3, <1>4, <1>5

LEMMA StmtExecDue ==
    ASSUME TypeOK, Loops, NEW m, Due(m), ReadStmtExec(m) PROVE GoesOn(m) \/ Done(m)
<1>1. loop = "stmtExec" /\ ~bad /\ rows # "open"
    BY DEF ReadStmtExec, Loops
<1>2. /\ (Letter(m) = "F" /\ m.t = "E") \/ (Letter(m) = m.t /\ m.t # "F")
      /\ m.t = "E" => m.v \in {"ERROR", "FATAL"}
    BY Lettered DEF Due
<1>3. CASE Letter(m) = "Z"
    <2>1. m.t = "Z" /\ UNCHANGED rows /\ Ready(m, Result, FALSE)
        BY <1>2, <1>3 DEF ReadStmtExec
    <2> QED BY <1>1, <1>3, <2>1, DoneReady DEF Result
<1>4. CASE Letter(m) # "Z"
    <2>1. m.t \in {"C", "E", "T", "D", "I"}
        BY <1>1, <1>2, <1>4 DEF Expects, Due
    <2>2. PICK e : Continue(e, res) /\ (m.t = "E" => e = m.v) /\ (m.t # "E" => e = err)
        BY <2>1 DEF ReadStmtExec
    <2>3. /\ loop' = loop /\ call' = call /\ bad' = bad /\ answer' = answer /\ strayed' = strayed
          /\ err' = e /\ res' = res /\ saved' = NoMessage
        BY <2>2 DEF Continue, method
    <2>4. err' # "nil" <=> (m.t = "E" \/ err # "nil")
        BY <1>2, <2>2, <2>3
    <2>5. \A y \in Letters : Follows(Letter(m), y, loop = "prepareTo") => Expects(y)'
        BY <1>1, <1>2, <2>1, <2>3, <2>4 DEF Follows, Expects, Due
    <2> QED BY <1>1, <1>4, <2>2, <2>3, <2>4, <2>5 DEF GoesOn, TextLoops, Due
<1> QED BY <1>3, <1>4

LEMMA StmtCloseDue ==
    ASSUME TypeOK, Loops, NEW m, Due(m), ReadStmtClose(m) PROVE GoesOn(m) \/ Done(m) \/ Fails(m)
<1>1. loop = "stmtClose" /\ ~bad /\ rows # "open" /\ err = "nil" /\ rows' = rows
    BY DEF ReadStmtClose, Loops
<1>2. /\ (Letter(m) = "F" /\ m.t = "E") \/ (Letter(m) = m.t /\ m.t # "F")
      /\ m.t = "E" => m.v \in {"ERROR", "FATAL"}
    BY Lettered DEF Due
<1>3. \/ Letter(m) = "F" /\ m.t = "E"
      \/ Letter(m) = "3" /\ m.t = "3" /\ res # "closed"
      \/ Letter(m) = "Z" /\ m.t = "Z" /\ res = "closed"
    BY <1>1, <1>2 DEF Expects, Due
<1>4. CASE Letter(m) = "F"
    <2>1. Unexpected(TRUE)
        BY <1>3, <1>4 DEF ReadStmtClose
    <2> QED BY <1>4, <2>1 DEF Unexpected, Return, Finish, Fails
<1>5. CASE Letter(m) = "3"
    <2>1. /\ res' = "closed" /\ saved' = NoMessage
          /\ UNCHANGED <<loop, call, inTx, err, bad, txn, answer, strayed>>
        BY <1>1, <1>3, <1>5 DEF ReadStmtClose, Loops
    <2>2. \A y \in Letters : Follows(Letter(m), y, loop = "prepareTo") => Expects(y)'
        BY <1>1, <1>5, <2>1 DEF Follows, Expects
    <2> QED BY <1>1, <1>3, <1>5, <2>1, <2>2 DEF GoesOn, TextLoops, Due
<1>6. CASE Letter(m) = "Z"
    <2>1. Ready(m, "ok", FALSE)
        BY <1>3, <1>6 DEF ReadStmtClose
    <2> QED BY <1>1, <1>6, <2>1, DoneReady
<1> QED BY <1>3, <1>4, <1>5, <1>6

LEMMA RowsDue ==
    ASSUME TypeOK, Loops, NEW m, Due(m), ReadRows(m) PROVE GoesOn(m) \/ Done(m)
<1>1. loop \in {"next", "close"} /\ ~bad /\ rows = "open"
    BY DEF ReadRows, Loops
<1>2. /\ (Letter(m) = "F" /\ m.t = "E") \/ (Letter(m) = m.t /\ m.t # "F")
      /\ m.t = "E" => m.v \in {"ERROR", "FATAL"}
    BY Lettered DEF Due
<1>3. CASE Letter(m) = "Z"
    <2>1. m.t = "Z" /\ rows' = (IF loop = "close" THEN "none" ELSE "done") /\ Ready(m, Result, FALSE)
        BY <1>2, <1>3 DEF ReadRows
    <2> QED BY <1>1, <1>3, <2>1, DoneReady DEF Result
<1>4. CASE Letter(m) # "Z" /\ \E e : /\ Continue(e, res) /\ (m.t = "E" => e = m.v)
                                     /\ (m.t # "E" => e = err)
    <2>1. m.t \in {"C", "E", "T", "D", "I"}
        BY <1>1, <1>2, <1>4 DEF Expects, Due
    <2>2. PICK e : Continue(e, res) /\ (m.t = "E" => e = m.v) /\ (m.t # "E" => e = err)
        BY <1>4
    <2>3. /\ loop' = loop /\ call' = call /\ bad' = bad /\ answer' = answer /\ strayed' = strayed
          /\ err' = e /\ res' = res /\ saved' = NoMessage
        BY <2>2 DEF Continue, method
    <2>4. err' # "nil" <=> (m.t = "E" \/ err # "nil")
        BY <1>2, <2>2, <2>3
    <2>5. \A y \in Letters : Follows(Letter(m), y, loop = "prepareTo") => Expects(y)'
        BY <1>1, <1>2, <2>1, <2>3, <2>4 DEF Follows, Expects, Due
    <2> QED BY <1>1, <1>4, <2>2, <2>3, <2>4, <2>5 DEF GoesOn, TextLoops, Due
<1>5. CASE Letter(m) # "Z" /\ ~\E e : /\ Continue(e, res) /\ (m.t = "E" => e = m.v)
                                      /\ (m.t # "E" => e = err)
    <2>1. m.t \in {"T", "D"} /\ err = "nil" /\ Letter(m) = m.t
        BY <1>1, <1>2, <1>5 DEF Expects, Due, ReadRows
    <2>2. PICK a \in {"rows", "error"} : Return(a, bad) /\ saved' = NoMessage
              /\ rows' = (IF loop = "close" THEN "none" ELSE rows)
              /\ strayed' = (strayed \/ loop = "close")
        BY <1>5, <2>1 DEF ReadRows
    <2>3. loop = "next"
        BY <1>1, <2>2 DEF Due
    <2>4. /\ loop' = "none" /\ ~bad' /\ answer' = a /\ ~strayed' /\ rows' = "open"
          /\ err' = "nil" /\ saved' = NoMessage
        BY <1>1, <2>2, <2>3 DEF Return, Finish, Due
    <2>5. \A y \in Letters : Follows(Letter(m), y, loop = "prepareTo") => Expects(y)'
        BY <2>1, <2>3, <2>4 DEF Follows, Expects
    <2>6. strayed' = strayed
        BY <2>2, <2>3, <2>4 DEF Due, TypeOK
    <2> QED BY <1>5, <2>1, <2>3, <2>4, <2>5, <2>6 DEF GoesOn, TextLoops
<1> QED BY <1>3, <1>4, <1>5

LEMMA ReadDue ==
    ASSUME TypeOK, Loops, NEW m, Due(m), ReadMessage(m) PROVE GoesOn(m) \/ Done(m) \/ Fails(m)
BY SimpleExecDue, SimpleQueryDue, PrepareToDue, ExecDue, WorkaroundDue, StmtExecDue, StmtCloseDue,
   RowsDue DEF ReadMessage

(* What was saved is read first.                                           *)
LEMMA ReadSaved ==
    ASSUME TypeOK, Loops, SavedInv, Reading, saved # NoMessage, ReadMessage(saved),
           answer \notin {"ok", "committed"}, ~strayed, ~strayed'
    PROVE  /\ loop \in {"next", "close", "stmtExec"} /\ saved' = NoMessage /\ err = "nil" /\ err' = "nil"
           /\ answer' \notin {"ok", "committed"} /\ strayed' = strayed
           /\ loop' = loop \/ (loop' = "none" /\ rows' = "open" /\ ~bad')
<1>1. saved.t \in {"D", "C", "I"} /\ err = "nil" /\ loop \in {"next", "close", "stmtExec"} /\ ~bad
    BY DEF SavedInv, Reading, Loops
<1>2. CASE loop = "stmtExec"
    <2>1. Continue(err, res)
        BY <1>1, <1>2 DEF ReadMessage, ReadSimpleExec, ReadSimpleQuery, ReadPrepareTo, ReadExec,
                          ReadWorkaround, ReadStmtExec, ReadStmtClose, ReadRows
    <2> QED BY <1>1, <2>1 DEF Continue, method
<1>3. CASE loop \in {"next", "close"}
    <2>1. ReadRows(saved) /\ rows = "open"
        BY <1>1, <1>3 DEF ReadMessage, ReadSimpleExec, ReadSimpleQuery, ReadPrepareTo, ReadExec,
                          ReadWorkaround, ReadStmtExec, ReadStmtClose, Loops
    <2>2. CASE Continue(err, res)
        BY <1>1, <2>2 DEF Continue, method
    <2>3. CASE ~Continue(err, res)
        <3>1. /\ saved.t = "D" /\ loop = "next" /\ saved' = NoMessage /\ Return("rows", bad)
              /\ rows' = rows /\ strayed' = (strayed \/ loop = "close")
            BY <1>1, <2>1, <2>3 DEF ReadRows
        <3> QED BY <1>1, <2>1, <3>1 DEF Return, Finish, TypeOK
    <2> QED BY <2>2, <2>3
<1> QED BY <1>1, <1>2, <1>3

-----------------------------------------------------------------------------
(* The loops and the rows.                                                 *)
LEMMA LoopStep == TypeOK /\ Loops /\ [Next]_vars => Loops'
<1> SUFFICES ASSUME TypeOK, Loops, [Next]_vars PROVE Loops'
    OBVIOUS
<1>1. CASE \E a : Gone(a)
    BY <1>1 DEF Gone, Loops, Starting
<1>2. CASE Starts /\ ~\E a : Gone(a)
    BY <1>2 DEF Starts, Open, Password, RecvStartup, Loops, Starting, method, history
<1>3. CASE Called
    <2>1. loop = "bind" \/ (loop = "none" /\ ~bad /\ rows = "none")
        BY <1>3, Calls
    <2>2. CASE \E c, a, isBad : Finish(c, a, isBad) /\ UNCHANGED rows
        BY <2>1, <2>2 DEF Finish, Loops, Starting
    <2>3. CASE \E c, run, text, l : Fits(c, run, text, l) /\ Send(c, run, text, l)
                                    /\ UNCHANGED <<bad, rows, strayed>> /\ err' = "nil" /\ res' = "nil"
                                    /\ loop' = l
        <3>1. loop' \in {"simpleExec", "simpleQuery", "prepareTo", "exec", "stmtClose"}
            BY <2>3 DEF Fits, LoopOf
        <3> QED BY <2>1, <2>3, <3>1 DEF Loops, Starting
    <2>4. ASSUME NEW c, NEW run, NEW text, NEW l, Fits(c, run, text, l), Send(c, run, text, l)
          PROVE  \/ \E a, isBad : Finish(c, a, isBad) /\ UNCHANGED rows
                 \/ UNCHANGED <<bad, rows, strayed>> /\ err' = "nil" /\ res' = "nil" /\ loop' = l
        BY <2>4 DEF Send, history
    <2>5. CASE \E c, run, text, l : Fits(c, run, text, l) /\ Send(c, run, text, l)
        <3>1. PICK c, run, text, l : Fits(c, run, text, l) /\ Send(c, run, text, l)
            BY <2>5
        <3> QED BY <2>2, <2>3, <2>4, <3>1
    <2>6. CASE \E c : \E isBad \in {bad, TRUE} : Finish(c, "error", isBad) /\ UNCHANGED Waits
        BY <2>2, <2>6 DEF Waits
    <2> QED BY <1>3, <2>5, <2>6, Calls
<1>4. CASE Between /\ ~\E a : Gone(a)
    <2>1. CASE \E c \in Extended : Execute(c)
        BY <2>1 DEF Execute, Idle, Loops, Starting, history
    <2>2. CASE \E l \in {"next", "close"} : Fetch(l)
        BY <2>2 DEF Fetch, Loops, Starting, TypeOK, method, history
    <2>3. CASE Refuse
        BY <2>3 DEF Refuse, Loops, Starting, method, history
    <2> QED BY <1>4, <2>1, <2>2, <2>3 DEF Between, Close
<1>5. CASE Recv
    <2>1. Turns /\ Reading
        BY <1>5, ReadTurns DEF Recv
    <2> QED BY <2>1 DEF Turns, Reading, Loops, Starting
<1>6. CASE RecvFails
    BY <1>6 DEF RecvFails, Return, Finish, Loops, Starting, Reading
<1>7. CASE Serve \/ Break \/ UNCHANGED vars
    BY <1>7 DEF Serve, Break, vars, method, history, Loops, Starting
<1> QED BY <1>1, <1>2, <1>3, <1>4, <1>5, <1>6, <1>7, NextSteps DEF Steps

-----------------------------------------------------------------------------
(* Connecting.                                                             *)
LEMMA GoneStep == ASSUME NEW a \in {"nil", "error", "ErrBadConn"}, Gone(a) PROVE Phases'
BY DEF Gone, Phases, Busy, Reading, Starting, ClosedInv, SuccessIsTrue

LEMMA Rest ==
    ASSUME TypeOK, inbox # <<>>, inbox' = Tail(inbox)
    PROVE  /\ Head(inbox) = inbox[1] /\ inbox[1] \in Message /\ Len(inbox) \in Nat /\ Len(inbox) # 0
           /\ Len(inbox') = Len(inbox) - 1
           /\ \A i \in 1..Len(inbox') : i + 1 \in 1..Len(inbox) /\ inbox'[i] = inbox[i + 1]
<1>1. inbox \in Seq(Message) /\ Len(inbox) \in Nat
    BY LenProperties DEF TypeOK
<1>2. Len(inbox) # 0
    BY <1>1, EmptySeq
<1>3. Head(inbox) = inbox[1] /\ Head(inbox) \in Message
    BY <1>1, HeadTailProperties
<1>4. Len(Tail(inbox)) = Len(inbox) - 1
    BY <1>1, HeadTailProperties
<1>5. \A i \in 1..Len(inbox) - 1 : Tail(inbox)[i] = inbox[i + 1]
    BY <1>1, <1>2, HeadTailProperties
<1>6. \A i \in 1..Len(inbox) - 1 : i + 1 \in 1..Len(inbox)
    BY <1>1
<1> QED BY <1>1, <1>2, <1>3, <1>4, <1>5, <1>6

LEMMA Greetings ==
    ASSUME NEW q \in {Welcome, Refused, <<Hello("R", "password")>>, <<Hello("R", "other")>>}
    PROVE  \A i \in 1..Len(q) : q[i].t = "Z" => q[i].v = "I" /\ i = Len(q)
<1>1. CASE q = Welcome
    <2>1. Len(q) = 2 /\ q[1].t = "R" /\ q[2].v = "I"
        BY <1>1 DEF Welcome, Hello
    <2> QED BY <2>1
<1>2. CASE q # Welcome
    <2>1. Len(q) = 1 /\ q[1].t # "Z"
        BY <1>2 DEF Refused, Hello
    <2> QED BY <2>1
<1> QED BY <1>1, <1>2

LEMMA StartsStep == ASSUME TypeOK, Loops, Phases, ~strayed, Starts PROVE Phases'
<1>1. CASE \E a \in {"nil", "error", "ErrBadConn"} : Gone(a)
    BY <1>1, GoneStep
<1>2. CASE Open /\ ~Gone("error")
    <2>1. ClosedInv /\ asked = <<>>
        BY <1>2 DEF Open, Phases, Busy, Reading
    <2>2. \A i \in 1..Len(inbox') : inbox'[i].t = "Z" => inbox'[i].v = "I" /\ i = Len(inbox')
        BY <1>2, Greetings DEF Open
    <2>3. loop' = "startup" /\ answer' = "nil" /\ UNCHANGED <<saved, server, asked, link>>
        BY <1>2 DEF Open
    <2>4. StartInv'
        BY <2>1, <2>2, <2>3 DEF StartInv, ClosedInv
    <2> QED BY <2>1, <2>3, <2>4 DEF Phases, Busy, Reading, Starting, SuccessIsTrue
<1>3. CASE Password /\ ~Gone("error")
    <2>1. StartInv /\ asked = <<>>
        BY <1>3 DEF Password, Phases, Starting, Busy, Reading
    <2>2. loop' = "auth" /\ UNCHANGED <<saved, server, asked, link, answer>>
        BY <1>3 DEF Password
    <2>3. CASE link = "up"
        <3>1. inbox' \in {Welcome, Refused}
            BY <1>3, <2>3 DEF Password
        <3>2. \A i \in 1..Len(inbox') : inbox'[i].t = "Z" => inbox'[i].v = "I" /\ i = Len(inbox')
            BY <3>1, Greetings
        <3>3. StartInv'
            BY <2>1, <2>2, <3>2 DEF StartInv
        <3> QED BY <2>1, <2>2, <3>3 DEF Phases, Busy, Reading, Starting, StartInv, SuccessIsTrue
    <2>4. CASE link # "up"
        <3>1. inbox' = inbox
            BY <1>3, <2>4 DEF Password
        <3>2. StartInv'
            BY <2>1, <2>2, <3>1 DEF StartInv, Letter
        <3> QED BY <2>1, <2>2, <3>2 DEF Phases, Busy, Reading, Starting, StartInv, SuccessIsTrue
    <2> QED BY <2>3, <2>4
<1>4. CASE RecvStartup /\ ~Gone("error")
    <2>1. StartInv /\ asked = <<>> /\ ~bad /\ rows # "open" /\ link \in {"up", "eof", "reset", "torn"}
        BY <1>4 DEF RecvStartup, Phases, Starting, Busy, Reading, Loops, TypeOK
    <2> DEFINE m == inbox[1]
    <2>2. inbox # <<>> /\ inbox' = Tail(inbox) /\ Head(inbox) = m /\ m \in Message
          /\ UNCHANGED <<saved, server, asked, link, bad, rows>>
        BY <1>4, NextMessage, HeadTailProperties DEF RecvStartup, TypeOK
    <2>3. Len(inbox) \in Nat /\ Len(inbox) # 0 /\ Len(inbox') = Len(inbox) - 1
        BY <2>2, Rest
    <2>4. \A i \in 1..Len(inbox') : i + 1 \in 1..Len(inbox) /\ inbox'[i] = inbox[i + 1]
        BY <2>2, Rest
    <2>5. CASE m.t = "Z"
        <3>1. m.v = "I" /\ (Len(inbox) = 1 \/ (Len(inbox) = 2 /\ Letter(inbox[2]) = "F" /\ link = "eof"))
            BY <2>1, <2>3, <2>5 DEF StartInv
        <3>2. loop' = "none" /\ txn' = "I" /\ answer' = "ok"
            BY <1>4, <2>2, <2>5, <3>1 DEF RecvStartup
        <3>3. Len(inbox') <= 1 /\ \A i \in 1..Len(inbox') : inbox'[i] = inbox[2] /\ link = "eof" /\ Letter(inbox[2]) = "F"
            BY <2>3, <2>4, <3>1
        <3>4. inbox' # <<>> => Len(inbox') = 1
            BY <2>2, <2>3, <3>3, NextMessage, EmptySeq
        <3>5. QuietInv'
            BY <2>1, <2>2, <3>2, <3>3, <3>4 DEF QuietInv, StartInv, FatalAtEof, Letter
        <3> QED BY <2>1, <2>2, <3>2, <3>5 DEF Phases, Busy, Reading, Starting, StartInv, SuccessIsTrue
    <2>6. CASE m.t # "Z"
        <3>1. loop' \in {"startup", "password"} /\ UNCHANGED answer
            BY <1>4, <2>2, <2>6, Messages DEF RecvStartup
        <3>2. \A i \in 1..Len(inbox') : inbox'[i].t = "Z" =>
                /\ inbox'[i].v = "I"
                /\ i = Len(inbox') \/ (i + 1 = Len(inbox') /\ Letter(inbox'[i + 1]) = "F" /\ link' = "eof")
            <4> SUFFICES ASSUME NEW i \in 1..Len(inbox'), inbox'[i].t = "Z"
                         PROVE  /\ inbox'[i].v = "I"
                                /\ i = Len(inbox') \/ (/\ i + 1 = Len(inbox')
                                                       /\ Letter(inbox'[i + 1]) = "F" /\ link' = "eof")
                OBVIOUS
            <4>1. /\ inbox[i + 1].v = "I" /\ i \in Nat
                  /\ \/ i + 1 = Len(inbox)
                     \/ (i + 1) + 1 = Len(inbox) /\ Letter(inbox[(i + 1) + 1]) = "F" /\ link = "eof"
                BY <2>1, <2>3, <2>4 DEF StartInv
            <4>2. CASE i + 1 = Len(inbox)
                BY <2>3, <2>4, <4>1, <4>2
            <4>3. CASE (i + 1) + 1 = Len(inbox) /\ Letter(inbox[(i + 1) + 1]) = "F" /\ link = "eof"
                <5>1. i + 1 = Len(inbox') /\ i + 1 \in 1..Len(inbox')
                    BY <2>3, <4>1, <4>3
                <5>2. inbox'[i + 1] = inbox[(i + 1) + 1]
                    BY <2>4, <5>1
                <5> QED BY <2>2, <2>4, <4>1, <4>3, <5>1, <5>2
            <4> QED BY <4>1, <4>2, <4>3
        <3>3. StartInv'
            BY <2>1, <2>2, <3>1, <3>2 DEF StartInv, Letter
        <3> QED BY <2>1, <2>2, <3>1, <3>3 DEF Phases, Busy, Reading, Starting, StartInv, SuccessIsTrue
    <2> QED BY <2>5, <2>6
<1> QED BY <1>1, <1>2, <1>3, <1>4 DEF Starts

-----------------------------------------------------------------------------
(* Calls.                                                                  *)

(* At most the fatal error is under way.                                   *)
LEMMA OnlyFatal ==
    ASSUME TypeOK, QuietInv
    PROVE  /\ Len(inbox) \in {0, 1} /\ (inbox # <<>> <=> Len(inbox) = 1)
           /\ inbox # <<>> => inbox[1] \in Message /\ Letter(inbox[1]) = "F" /\ inbox[1].t = "E" /\ link = "eof"
           /\ \A i \in 1..Len(inbox) : i = 1 /\ inbox # <<>>
<1>1. inbox \in Seq(Message) /\ Len(inbox) \in Nat
    BY LenProperties DEF TypeOK
<1>2. inbox # <<>> <=> Len(inbox) # 0
    BY <1>1, EmptySeq
<1>3. Len(inbox) \in {0, 1}
    <2>1. Len(inbox) <= 1
        BY DEF QuietInv
    <2> DEFINE n == Len(inbox)
    <2>2. n \in Nat /\ n <= 1
        BY <1>1, <2>1
    <2> HIDE DEF n
    <2>3. n \in {0, 1}
        BY <2>2
    <2> QED BY <2>3 DEF n
<1>4. inbox # <<>> => inbox[1] \in Message
    BY <1>1, <1>2, <1>3, ElementOfSeq
<1>5. inbox # <<>> => Letter(inbox[1]) = "F" /\ link = "eof" /\ inbox[1].t = "E"
    BY <1>2, <1>3, <1>4, Lettered DEF QuietInv, FatalAtEof
<1>6. \A i \in 1..Len(inbox) : i = 1
    <2> DEFINE n == Len(inbox)
    <2>1. n \in {0, 1}
        BY <1>3
    <2> HIDE DEF n
    <2>2. \A i \in 1..n : i = 1
        BY <2>1
    <2> QED BY <2>2 DEF n
<1>7. \A i \in 1..Len(inbox) : inbox # <<>>
    BY <1>2, <1>3
<1>8. inbox # <<>> <=> Len(inbox) = 1
    BY <1>2, <1>3
<1> QED BY <1>3, <1>4, <1>5, <1>6, <1>7, <1>8

LEMMA SentStep ==
    ASSUME TypeOK, Loops, QuietInv, asked = <<>>, ~strayed, rows # "open",
           NEW c, NEW run, NEW text, NEW l, Fits(c, run, text, l), Send(c, run, text, l)
    PROVE  Phases'
<1> DEFINE r == [run |-> run, text |-> text, n |-> requests']
<1>1. UNCHANGED <<saved, txn, rows, inbox, link, server, strayed>>
    BY DEF Send, history
<1>2. l \in {"simpleExec", "simpleQuery", "prepareTo", "exec", "stmtClose"}
    BY DEF Fits, LoopOf
<1>3. CASE Finish(c, Recovered("reset"), bad) /\ link # "up" /\ asked' = <<>>
    <2>1. loop' = "none" /\ bad' /\ answer' = "ErrBadConn"
        BY <1>3 DEF Finish, Recovered
    <2> QED BY <1>1, <1>3, <2>1 DEF Phases, Busy, Reading, Starting, SuccessIsTrue
<1>4. CASE /\ loop' = l /\ call' = c /\ err' = "nil" /\ res' = "nil" /\ answer' = "nil"
           /\ \/ link = "up" /\ asked' = Append(asked, r)
              \/ link # "up" /\ asked' = <<>>
    <2>1. /\ Len(inbox) \in {0, 1} /\ (inbox # <<>> <=> Len(inbox) = 1)
          /\ inbox # <<>> => inbox[1] \in Message /\ Letter(inbox[1]) = "F" /\ inbox[1].t = "E" /\ link = "eof"
          /\ \A i \in 1..Len(inbox) : i = 1 /\ inbox # <<>>
        BY OnlyFatal
    <2>2. \A i \in 1..Len(inbox) - 1 : FALSE
        BY <2>1
    <2>3. inbox # <<>> => inbox[1].v # "COMMIT"
        BY <2>1, Messages DEF Letter
    <2>4. Numbered' /\ Chain' /\ FatalAtEof' /\ (inbox # <<>> => Expects(Letter(inbox[1])))'
        BY <1>1, <2>1, <2>2 DEF Numbered, Chain, FatalAtEof, Letter, Expects
    <2>5. SavedInv' /\ Answered' /\ Told' /\ answer' \notin {"ok", "committed"}
        <3>1. asked' # <<>> \/ link' # "up"
            <4>1. Append(<<>>, r) # <<>>
                OBVIOUS
            <4> HIDE DEF r
            <4> QED BY <1>1, <1>4, <4>1
        <3>2. SavedInv' /\ answer' \notin {"ok", "committed"}
            BY <1>1, <1>4 DEF SavedInv, QuietInv
        <3>3. Answered'
            BY <3>1 DEF Answered
        <3>4. Told'
            BY <1>1, <2>1 DEF Told
        <3> QED BY <3>2, <3>3, <3>4
    <2>6. Asked' /\ Tagged'
        <3>1. CASE asked' = <<>>
            <4>1. Tagged'
                BY <1>1, <1>4, <2>1, <2>3 DEF Tagged
            <4> QED BY <3>1, <4>1 DEF Asked
        <3>2. CASE link = "up" /\ asked' = Append(asked, r)
            <4>1. asked' = <<r>>
                BY <3>2
            <4> HIDE DEF r
            <4>2. Len(asked') = 1 /\ asked'[1] = r /\ asked' # <<>>
                BY <4>1
            <4>3. asked'[1].run = run /\ asked'[1].text = text /\ asked'[1].n = requests'
                BY <4>2 DEF r
            <4>4. inbox' = <<>>
                BY <1>1, <2>1, <3>2
            <4>5. run = "text" \/ run \in {"prepare", "bound", "close"}
                BY DEF Fits
            <4>6. Asked'
                BY <1>4, <4>2, <4>3, <4>4, <4>5 DEF Asked, Fits, LoopOf
            <4> QED BY <4>2, <4>6 DEF Tagged
        <3> QED BY <1>4, <3>1, <3>2
    <2>7. BusyInv' /\ Busy'
        BY <1>2, <1>4, <2>4, <2>5, <2>6 DEF BusyInv, Busy, Reading
    <2>8. link' # "up" => asked' = <<>>
        BY <1>1, <1>4
    <2> QED BY <1>2, <1>4, <2>7, <2>8 DEF Phases, Starting, SuccessIsTrue
<1>5. \/ Finish(c, Recovered("reset"), bad) /\ link # "up" /\ asked' = <<>>
      \/ /\ loop' = l /\ call' = c /\ err' = "nil" /\ res' = "nil" /\ answer' = "nil"
         /\ \/ link = "up" /\ asked' = Append(asked, r)
            \/ link # "up" /\ asked' = <<>>
    BY DEF Send
<1> QED BY <1>3, <1>4, <1>5

LEMMA CalledStep == ASSUME TypeOK, Loops, Phases, ~strayed, Called PROVE Phases'
<1>1. QuietInv /\ asked = <<>> /\ rows # "open" /\ ~bad
    <2>1. loop = "bind" \/ (loop = "none" /\ ~bad /\ rows = "none")
        BY Calls
    <2> QED BY <2>1 DEF Phases, Busy, Reading, Loops
<1>2. CASE \E c, run, text, l : Fits(c, run, text, l) /\ Send(c, run, text, l)
    BY <1>1, <1>2, SentStep
<1>3. CASE \E c : \E isBad \in {bad, TRUE} : Finish(c, "error", isBad) /\ UNCHANGED Waits
    <2>1. loop' = "none" /\ answer' = "error" /\ UNCHANGED Waits
        BY <1>3 DEF Finish
    <2>2. QuietInv'
        BY <1>1, <2>1 DEF QuietInv, FatalAtEof, Letter, Waits
    <2> QED BY <1>1, <2>1, <2>2 DEF Phases, Busy, Reading, Starting, SuccessIsTrue, Waits
<1> QED BY <1>2, <1>3, Calls

(* Between methods: rows that are kept are read on as they are.            *)
LEMMA BetweenStep == ASSUME TypeOK, Loops, Phases, ~strayed, Between PROVE Phases'
<1>1. CASE Close
    BY <1>1, GoneStep DEF Close
<1>2. CASE \E c \in Extended : Execute(c)
    <2>1. loop = "none" /\ ~bad /\ rows = "none" /\ loop' = "bind" /\ answer' = "nil"
          /\ UNCHANGED <<bad, txn, saved, rows, inbox, link, asked, server, strayed>>
        BY <1>2 DEF Execute, Idle, history
    <2>2. QuietInv /\ asked = <<>>
        BY <2>1 DEF Phases, Busy, Reading
    <2>3. QuietInv'
        BY <2>1, <2>2 DEF QuietInv, FatalAtEof, Letter
    <2> QED BY <2>1, <2>2, <2>3 DEF Phases, Busy, Reading, Starting, SuccessIsTrue
<1>3. CASE \E l \in {"next", "close"} : Fetch(l)
    <2>1. PICK l \in {"next", "close"} : Fetch(l)
        BY <1>3
    <2>2. loop = "none" /\ UNCHANGED <<call, err, res, bad, txn, saved, inbox, link, requests, asked,
                                       server, strayed>>
        BY <2>1 DEF Fetch, method, history
    <2>3. CASE rows = "done" \/ bad
        <3>1. loop' = "none" /\ answer' \in {"nil", "ErrBadConn"}
              /\ (rows' = "open" => rows = "open" /\ bad)
            BY <2>1, <2>2, <2>3 DEF Fetch
        <3>2. asked = <<>> /\ (~bad => QuietInv)
            BY <2>2, <2>3 DEF Phases, Busy, Reading
        <3>3. ~bad => QuietInv'
            BY <2>2, <3>2 DEF QuietInv, FatalAtEof, Letter
        <3> QED BY <2>2, <2>3, <3>1, <3>2, <3>3 DEF Phases, Busy, Reading, Starting, SuccessIsTrue
    <2>4. CASE ~(rows = "done" \/ bad)
        <3>1. loop' = l /\ answer' = "nil" /\ rows = "open" /\ rows' = rows
            BY <2>1, <2>4 DEF Fetch, TypeOK
        <3>2. BusyInv /\ Busy
            BY <2>2, <2>4, <3>1 DEF Phases, Busy
        <3>3. Numbered' /\ FatalAtEof' /\ SavedInv' /\ Answered' /\ Told'
            BY <2>2, <3>1, <3>2 DEF BusyInv, Numbered, FatalAtEof, SavedInv, Answered, Told, Letter, Last
        <3>4. Chain'
            BY <2>2, <3>1, <3>2 DEF BusyInv, Chain, Follows, Letter
        <3>5. (inbox # <<>> => Expects(Letter(inbox[1])))'
            BY <2>2, <3>1, <3>2 DEF BusyInv, Expects, Letter
        <3>6. Asked' /\ Tagged'
            <4>1. asked # <<>> => asked[1].run \in {"text", "prepare", "bound", "close"}
                BY MsgTypes DEF Request
            <4>2. asked # <<>> => asked[1].run = "text"
                BY <2>2, <3>2, <4>1 DEF BusyInv, Asked, LoopOf
            <4>3. asked # <<>> => /\ Len(asked) = 1 /\ asked[1].n = requests /\ err = "nil"
                                  /\ inbox # <<>> => Letter(Last) = "C"
                BY <3>2 DEF BusyInv, Asked
            <4>4. Asked'
                BY <2>2, <3>1, <4>2, <4>3 DEF Asked, Last, Letter
            <4>5. Tagged'
                BY <3>1 DEF Tagged
            <4> QED BY <4>4, <4>5
        <3>7. BusyInv' /\ Busy'
            BY <3>1, <3>3, <3>4, <3>5, <3>6 DEF BusyInv, Busy, Reading
        <3> QED BY <2>2, <3>1, <3>7 DEF Phases, Starting, SuccessIsTrue
    <2> QED BY <2>3, <2>4
<1>4. CASE Refuse
    <2>1. loop = "none" /\ bad /\ answer' = "ErrBadConn" /\ UNCHANGED <<loop, bad, asked, link>>
        BY <1>4 DEF Refuse, method
    <2> QED BY <2>1 DEF Phases, Busy, Reading, Starting, SuccessIsTrue
<1> QED BY <1>1, <1>2, <1>3, <1>4 DEF Between

-----------------------------------------------------------------------------
(* The link.                                                               *)
LEMMA RecvFailsStep == ASSUME TypeOK, Loops, Phases, ~strayed, RecvFails PROVE Phases'
<1>1. /\ Reading /\ saved = NoMessage /\ inbox = <<>> /\ link # "up" /\ Return(Recovered(link), bad)
      /\ link' = (IF link = "torn" THEN "eof" ELSE link) /\ link \in {"up", "eof", "reset", "torn"}
      /\ rows' = (IF loop = "close" THEN "none" ELSE rows)
      /\ UNCHANGED <<txn, saved, inbox, requests, asked, server, strayed>>
    BY DEF RecvFails, history, TypeOK
<1>2. link' # "up" /\ asked = <<>> /\ ~bad /\ BusyInv /\ loop # "none"
    BY <1>1 DEF Phases, Busy, Loops, Reading
<1>3. /\ loop' = "none" /\ err' = "nil" /\ res' = "nil" /\ answer' \in {"error", "ErrBadConn"}
      /\ bad' = (bad \/ Recovered(link) = "ErrBadConn")
    BY <1>1 DEF Return, Finish, Recovered
<1>4. Len(inbox) = 0 /\ \A i \in 1..Len(inbox) : FALSE
    BY <1>1
<1>5. \A i \in 1..Len(inbox) - 1 : FALSE
    BY <1>4
<1>6. QuietInv'
    <2>1. Len(inbox) <= 1
        BY <1>4
    <2> QED BY <1>1, <1>2, <1>4, <2>1 DEF QuietInv, FatalAtEof
<1>7. Numbered' /\ Chain' /\ FatalAtEof' /\ (inbox # <<>> => Expects(Letter(inbox[1])))'
    BY <1>1, <1>4, <1>5 DEF Numbered, Chain, FatalAtEof
<1>8. SavedInv' /\ Asked' /\ Answered' /\ Told' /\ Tagged' /\ answer' \notin {"ok", "committed"}
    BY <1>1, <1>2, <1>3, <1>4 DEF SavedInv, Asked, Answered, Told, Tagged
<1>9. BusyInv'
    BY <1>7, <1>8 DEF BusyInv
<1> QED BY <1>1, <1>2, <1>3, <1>6, <1>9 DEF Phases, Starting, SuccessIsTrue

(* While the link is up nothing comes after Z.                             *)
LEMMA ReadyIsLast ==
    ASSUME TypeOK, Chain, FatalAtEof, link = "up", NEW i \in 1..Len(inbox), inbox[i].t = "Z"
    PROVE  i = Len(inbox)
<1>1. Len(inbox) \in Nat /\ \A j \in 1..Len(inbox) : inbox[j] \in Message
    BY LenProperties, ElementOfSeq DEF TypeOK
<1> SUFFICES ASSUME i # Len(inbox) PROVE FALSE
    OBVIOUS
<1>2. i \in 1..Len(inbox) - 1 /\ i + 1 \in 1..Len(inbox)
    BY <1>1
<1>3. Letter(inbox[i]) = "Z"
    BY <1>1, Lettered
<1>4. Follows("Z", Letter(inbox[i + 1]), loop = "prepareTo")
    BY <1>2, <1>3 DEF Chain
<1>5. Letter(inbox[i + 1]) = "F"
    BY <1>4 DEF Follows
<1> QED BY <1>2, <1>5 DEF FatalAtEof

(* What is left of the messages, and the fatal error after them.           *)
LEMMA Cut ==
    ASSUME TypeOK, NEW k \in 0..Len(inbox)
    PROVE  /\ SubSeq(inbox, 1, k) \in Seq(Message) /\ Len(SubSeq(inbox, 1, k)) = k
           /\ \A i \in 1..k : SubSeq(inbox, 1, k)[i] = inbox[i] /\ inbox[i] \in Message
<1>1. inbox \in Seq(Message) /\ Len(inbox) \in Nat
    BY LenProperties DEF TypeOK
<1>2. \A i \in 1..k : inbox[i] \in Message
    BY <1>1, ElementOfSeq
<1>3. SubSeq(inbox, 1, k) \in Seq(Message)
    BY <1>1, <1>2, SubSeqProperties
<1>4. Len(SubSeq(inbox, 1, k)) = k
    BY <1>1, <1>2, SubSeqProperties
<1>5. \A i \in 1..k : SubSeq(inbox, 1, k)[i] = inbox[i]
    BY <1>1, <1>2, SubSeqProperties
<1> QED BY <1>2, <1>3, <1>4, <1>5

LEMMA Broken ==
    ASSUME TypeOK, Break
    PROVE  \E k \in 0..Len(inbox) :
              /\ \A i \in 1..k : inbox'[i] = inbox[i] /\ inbox[i] \in Message
              /\ \/ Len(inbox') = k
                 \/ /\ k = Len(inbox) /\ Len(inbox') = k + 1 /\ link' = "eof"
                    /\ inbox'[k + 1] = [t |-> "E", v |-> "FATAL", n |-> requests]
<1>1. inbox \in Seq(Message) /\ Len(inbox) \in Nat
    BY LenProperties DEF TypeOK
<1>2. CASE \E k \in 0..Len(inbox) : inbox' = SubSeq(inbox, 1, k)
    <2>1. PICK k \in 0..Len(inbox) : inbox' = SubSeq(inbox, 1, k)
        BY <1>2
    <2>2. Len(inbox') = k
        BY <2>1, Cut
    <2>3. \A i \in 1..k : inbox'[i] = inbox[i] /\ inbox[i] \in Message
        BY <2>1, Cut
    <2> QED BY <2>2, <2>3
<1>3. CASE link' = "eof" /\ inbox' = Append(inbox, [t |-> "E", v |-> "FATAL", n |-> requests])
    <2> DEFINE f == [t |-> "E", v |-> "FATAL", n |-> requests]  n == Len(inbox)
    <2>1. f \in Message
        BY DEF Message, TypeOK
    <2> HIDE DEF f
    <2>2. Len(inbox') = n + 1
        BY <1>1, <1>3, <2>1, AppendProperties DEF f
    <2>3. \A i \in 1..n : inbox'[i] = inbox[i]
        BY <1>1, <1>3, <2>1, AppendProperties DEF f
    <2>4. inbox'[n + 1] = f
        BY <1>1, <1>3, <2>1, AppendProperties DEF f
    <2>5. \A i \in 1..n : inbox[i] \in Message
        BY <1>1, ElementOfSeq
    <2> HIDE DEF n
    <2>6. n \in 0..n /\ n \in Nat
        BY <1>1 DEF n
    <2> QED BY <1>3, <2>2, <2>3, <2>4, <2>5, <2>6 DEF f, n
<1> QED BY <1>2, <1>3 DEF Break

LEMMA BreakStep == ASSUME TypeOK, Loops, Phases, ~strayed, Break PROVE Phases'
<1>1. /\ link = "up" /\ loop # "closed" /\ link' # "up" /\ asked' = <<>>
      /\ UNCHANGED <<loop, method, err, res, bad, txn, saved, rows, answer, requests, server, strayed>>
    BY DEF Break, history
<1> DEFINE n == Len(inbox)  n2 == Len(inbox')
<1>2. n \in Nat /\ n2 \in Nat
    BY BreakTypes, LenProperties DEF TypeOK
<1>3. /\ inbox # <<>> <=> n # 0
      /\ inbox' # <<>> <=> n2 # 0
    BY BreakTypes, EmptySeq DEF TypeOK
<1>4. PICK k \in 0..n :
          /\ \A i \in 1..k : inbox'[i] = inbox[i] /\ inbox[i] \in Message
          /\ \/ n2 = k
             \/ /\ k = n /\ n2 = k + 1 /\ link' = "eof"
                /\ inbox'[k + 1] = [t |-> "E", v |-> "FATAL", n |-> requests]
    BY Broken
<1>5. n2 = k + 1 => /\ inbox'[k + 1].t = "E" /\ inbox'[k + 1].v = "FATAL" /\ Letter(inbox'[k + 1]) = "F"
                    /\ k = n /\ link' = "eof"
    BY <1>2, <1>4 DEF Letter
<1>6. k \in Nat /\ k <= n /\ \A i \in 1..k : i \in 1..n
    BY <1>2
<1>7. \A i \in 1..n2 : i \in 1..k \/ (i = k + 1 /\ n2 = k + 1)
    BY <1>2, <1>4, <1>6
<1>8. (\A i \in 1..n : Letter(inbox[i]) # "F") =>
          /\ FatalAtEof'
          /\ \A i \in 1..n2 : Letter(inbox'[i]) = "F" => i = k + 1 /\ n2 = k + 1
    BY <1>1, <1>4, <1>5, <1>6, <1>7 DEF FatalAtEof, Letter
<1>9. ASSUME Busy PROVE BusyInv'
    <2>1. BusyInv
        BY <1>9 DEF Phases
    <2>2. \A i \in 1..n : Letter(inbox[i]) # "F"
        BY <1>1, <2>1 DEF BusyInv, FatalAtEof
    <2>3. Numbered' /\ FatalAtEof'
        BY <1>1, <1>4, <1>5, <1>6, <1>7, <1>8, <2>1, <2>2 DEF BusyInv, Numbered, Letter
    <2>4. Chain'
        <3> SUFFICES ASSUME NEW i \in 1..n2 - 1
                     PROVE  Follows(Letter(inbox'[i]), Letter(inbox'[i + 1]), loop' = "prepareTo")
            BY DEF Chain, Letter
        <3>1. i \in 1..n2 /\ i + 1 \in 1..n2 /\ i # k + 1
            BY <1>2, <1>4, <1>6
        <3>2. i \in 1..k /\ i \in 1..n
            BY <1>6, <1>7, <3>1
        <3>3. CASE i + 1 \in 1..k
            <4>1. i \in 1..n - 1
                BY <1>2, <1>6, <3>2, <3>3
            <4>2. Follows(Letter(inbox[i]), Letter(inbox[i + 1]), loop = "prepareTo")
                BY <2>1, <4>1 DEF BusyInv, Chain
            <4> QED BY <1>1, <1>4, <3>2, <3>3, <4>2
        <3>4. CASE i + 1 = k + 1 /\ n2 = k + 1
            <4>1. Letter(inbox'[i + 1]) = "F" /\ Letter(inbox'[i]) # "F"
                BY <1>4, <1>5, <2>2, <3>2, <3>4
            <4> QED BY <4>1 DEF Follows
        <3> QED BY <1>7, <3>1, <3>3, <3>4
    <2>5. (inbox # <<>> => Expects(Letter(inbox[1])))'
        <3>1. CASE 1 \in 1..k
            <4>1. Expects(Letter(inbox[1])) /\ inbox'[1] = inbox[1]
                BY <1>3, <1>4, <1>6, <2>1, <3>1 DEF BusyInv
            <4> QED BY <1>1, <4>1 DEF Expects, Letter
        <3>2. CASE 1 \notin 1..k /\ inbox' # <<>>
            <4>1. 1 \in 1..n2
                BY <1>2, <1>3, <3>2
            <4>2. 1 = k + 1 /\ n2 = k + 1
                BY <1>7, <3>2, <4>1
            <4>3. Letter(inbox'[1]) = "F"
                BY <1>5, <4>2
            <4> QED BY <4>3 DEF Expects, Letter
        <3> QED BY <3>1, <3>2
    <2>6. SavedInv' /\ Asked' /\ Answered' /\ answer' \notin {"ok", "committed"}
        BY <1>1, <2>1 DEF BusyInv, SavedInv, Asked, Answered
    <2>7. Told'
        <3> SUFFICES ASSUME NEW i \in 1..n2, inbox'[i].t = "Z", server.went = "failed", err = "nil"
                     PROVE  \E j \in 1..n2 : Letter(inbox'[j]) = "E"
            BY <1>1 DEF Told, Letter
        <3>1. i \in 1..k /\ inbox[i].t = "Z" /\ i \in 1..n
            BY <1>4, <1>5, <1>6, <1>7
        <3>2. i = n
            BY <1>1, <2>1, <3>1, ReadyIsLast DEF BusyInv
        <3>3. PICK j \in 1..n : Letter(inbox[j]) = "E"
            BY <2>1, <3>1 DEF BusyInv, Told
        <3>4. j \in 1..k /\ j \in 1..n2
            BY <1>2, <1>4, <1>6, <3>1, <3>2
        <3> QED BY <1>4, <3>3, <3>4
    <2>8. Tagged'
        <3> SUFFICES ASSUME loop = "simpleExec", call = "Commit", server.went # "done"
                     PROVE  res # "COMMIT" /\ \A i \in 1..n2 : inbox'[i].v # "COMMIT"
            BY <1>1 DEF Tagged, method
        <3>1. res # "COMMIT" /\ \A i \in 1..n : inbox[i].v # "COMMIT"
            <4>1. CASE asked = <<>>
                BY <2>1, <4>1 DEF BusyInv, Tagged
            <4>2. CASE asked # <<>>
                <5>1. asked[1].run \in {"text", "prepare", "bound", "close"}
                    BY <4>2, MsgTypes DEF Request
                <5>2. asked[1].run = "text"
                    BY <2>1, <4>2, <5>1 DEF BusyInv, Asked, LoopOf
                <5>3. res = "nil" /\ inbox = <<>>
                    BY <2>1, <4>2, <5>2 DEF BusyInv, Asked
                <5>4. n = 0
                    BY <1>3, <5>3
                <5> QED BY <5>3, <5>4
            <4> QED BY <4>1, <4>2
        <3>2. \A i \in 1..n2 : inbox'[i].v # "COMMIT"
            BY <1>4, <1>5, <1>6, <1>7, <3>1
        <3> QED BY <3>1, <3>2
    <2> QED BY <2>3, <2>4, <2>5, <2>6, <2>7, <2>8 DEF BusyInv
<1>10. ASSUME QuietInv PROVE QuietInv'
    <2>1. n = 0
        BY <1>1, <1>10, OnlyFatal
    <2>2. \A i \in 1..n : Letter(inbox[i]) # "F"
        BY <2>1
    <2>3. k = 0 /\ n2 \in {0, 1}
        BY <1>2, <1>4, <1>6, <2>1
    <2>4. inbox' # <<>> => Letter(inbox'[1]) = "F"
        BY <1>3, <1>5, <2>3
    <2>5. n2 <= 1
        <3>1. \A x \in {0, 1} : x <= 1
            OBVIOUS
        <3> QED BY <2>3, <3>1
    <2> QED BY <1>1, <1>8, <1>10, <2>2, <2>4, <2>5 DEF QuietInv, Letter
<1>11. ASSUME StartInv PROVE StartInv'
    <2> SUFFICES ASSUME NEW i \in 1..n2, inbox'[i].t = "Z"
                 PROVE  /\ inbox'[i].v = "I"
                        /\ i = n2 \/ (i + 1 = n2 /\ Letter(inbox'[i + 1]) = "F" /\ link' = "eof")
        BY <1>1, <1>11 DEF StartInv, Letter
    <2>1. i \in 1..k /\ i \in 1..n /\ inbox[i].t = "Z"
        BY <1>4, <1>5, <1>6, <1>7
    <2>2. inbox'[i].v = "I" /\ i = n
        BY <1>1, <1>4, <1>11, <2>1 DEF StartInv
    <2>3. i = k
        BY <1>2, <1>6, <2>1, <2>2
    <2> QED BY <1>4, <1>5, <2>2, <2>3
<1> HIDE DEF n, n2
<1>12. Busy' <=> Busy
    BY <1>1 DEF Busy, Reading
<1>13. (Starting' <=> Starting) /\ SuccessIsTrue'
    BY <1>1 DEF Starting, Phases, SuccessIsTrue
<1> QED BY <1>1, <1>9, <1>10, <1>11, <1>12, <1>13 DEF Phases

-----------------------------------------------------------------------------
(* A message is read.                                                      *)
LEMMA SavedStep ==
    ASSUME TypeOK, Loops, Phases, ~strayed, ~strayed', Recv, saved # NoMessage
    PROVE  Phases'
<1>1. Reading /\ ReadMessage(saved) /\ UNCHANGED <<inbox, link, requests, asked, server>>
    BY DEF Recv
<1>2. BusyInv /\ (link # "up" => asked = <<>>)
    BY <1>1 DEF Phases, Busy
<1>3. SavedInv /\ answer \notin {"ok", "committed"}
    BY <1>2 DEF BusyInv
<1>4. /\ loop \in {"next", "close", "stmtExec"} /\ saved' = NoMessage /\ err = "nil" /\ err' = "nil"
      /\ answer' \notin {"ok", "committed"} /\ strayed' = strayed
      /\ loop' = loop \/ (loop' = "none" /\ rows' = "open" /\ ~bad')
    BY <1>1, <1>3, ReadSaved
<1>5. Busy' /\ loop' \in {"next", "close", "stmtExec", "none"}
    BY <1>4 DEF Busy, Reading
<1>6. Numbered' /\ FatalAtEof' /\ SavedInv' /\ Answered' /\ Told' /\ Tagged'
    BY <1>1, <1>2, <1>4 DEF BusyInv, Numbered, FatalAtEof, SavedInv, Answered, Told, Tagged, Letter, Last
<1>7. Chain'
    BY <1>1, <1>2, <1>4 DEF BusyInv, Chain, Follows, Letter
<1>8. (inbox # <<>> => Expects(Letter(inbox[1])))'
    BY <1>1, <1>2, <1>4 DEF BusyInv, Expects, Letter
<1>9. Asked'
    <2>1. asked # <<>> => asked[1].run \in {"text", "prepare", "bound", "close"}
        BY MsgTypes DEF Request
    <2>2. asked # <<>> => asked[1].run = "text" /\ loop \in {"next", "close"}
        BY <1>2, <1>4, <2>1 DEF BusyInv, Asked, LoopOf
    <2>3. asked # <<>> => /\ Len(asked) = 1 /\ asked[1].n = requests
                          /\ inbox # <<>> => Letter(Last) = "C"
        BY <1>2 DEF BusyInv, Asked
    <2> QED BY <1>1, <1>4, <2>2, <2>3 DEF Asked, Last, Letter
<1>10. BusyInv'
    BY <1>4, <1>6, <1>7, <1>8, <1>9 DEF BusyInv
<1> QED BY <1>1, <1>2, <1>4, <1>5, <1>10 DEF Phases, Busy, Reading, Starting, SuccessIsTrue

(* What may come after the message that is read.                           *)
LEMMA Ending ==
    ASSUME TypeOK, Chain, FatalAtEof, inbox # <<>>
    PROVE  /\ Letter(inbox[1]) = "F" => Len(inbox) = 1
           /\ Letter(inbox[1]) = "Z" =>
                 Len(inbox) = 1 \/ (Len(inbox) = 2 /\ Letter(inbox[2]) = "F" /\ link = "eof")
           /\ Letter(inbox[1]) = "E" => Letter(Last) # "C"
<1> DEFINE n == Len(inbox)
<1>1. n \in Nat /\ n # 0
    BY LenProperties, EmptySeq DEF TypeOK
<1>2. \A i \in 1..n - 1 : Follows(Letter(inbox[i]), Letter(inbox[i + 1]), loop = "prepareTo")
    BY DEF Chain
<1> HIDE DEF n
<1>3. \A i \in 1..n : Letter(inbox[i]) = "F" => i = n
    <2> SUFFICES ASSUME NEW i \in 1..n, Letter(inbox[i]) = "F", i # n PROVE FALSE
        OBVIOUS
    <2>1. i \in 1..n - 1
        BY <1>1
    <2> QED BY <1>2, <2>1 DEF Follows
<1>4. \A i \in 1..n : Letter(inbox[i]) = "Z" => i = n \/ (i + 1 = n /\ Letter(inbox[i + 1]) = "F")
    <2> SUFFICES ASSUME NEW i \in 1..n, Letter(inbox[i]) = "Z", i # n
                 PROVE  i + 1 = n /\ Letter(inbox[i + 1]) = "F"
        OBVIOUS
    <2>1. i \in 1..n - 1 /\ i + 1 \in 1..n
        BY <1>1
    <2>2. Letter(inbox[i + 1]) = "F"
        BY <1>2, <2>1 DEF Follows
    <2> QED BY <1>3, <2>1, <2>2
<1>5. 1 \in 1..n /\ n \in 1..n /\ (n # 1 => 1 \in 1..n - 1)
    BY <1>1
<1>6. Letter(inbox[1]) = "F" => n = 1
    BY <1>3, <1>5
<1>7. Letter(inbox[1]) = "Z" => n = 1 \/ (n = 2 /\ Letter(inbox[2]) = "F" /\ link = "eof")
    <2>1. Letter(inbox[1]) = "Z" => n = 1 \/ (n = 2 /\ Letter(inbox[2]) = "F")
        BY <1>1, <1>4, <1>5
    <2>2. n = 2 => 2 \in 1..n
        OBVIOUS
    <2> QED BY <2>1, <2>2 DEF FatalAtEof, n
<1>8. Letter(inbox[1]) = "E" => Letter(inbox[n]) # "C"
    <2> SUFFICES ASSUME Letter(inbox[1]) = "E", Letter(inbox[n]) = "C" PROVE FALSE
        OBVIOUS
    <2>1. n # 1 /\ 1 \in 1..n - 1 /\ 2 \in 1..n
        BY <1>1, <1>5
    <2>2. Letter(inbox[2]) \in {"F", "Z"}
        <3>1. Follows(Letter(inbox[1]), Letter(inbox[1 + 1]), loop = "prepareTo")
            BY <1>2, <2>1
        <3> QED BY <3>1 DEF Follows
    <2>3. 2 = n \/ (2 + 1 = n /\ Letter(inbox[2 + 1]) = "F")
        BY <1>3, <1>4, <2>1, <2>2
    <2> QED BY <2>2, <2>3
<1> QED BY <1>6, <1>7, <1>8 DEF Last, n

LEMMA InboxStep ==
    ASSUME TypeOK, Loops, Phases, ~strayed, ~strayed', Recv, saved = NoMessage
    PROVE  Phases'
<1> DEFINE m == inbox[1]  n == Len(inbox)  n2 == Len(inbox')
<1>1. /\ Reading /\ inbox # <<>> /\ inbox' = Tail(inbox) /\ ReadMessage(Head(inbox))
      /\ UNCHANGED <<link, requests, asked, server>>
    BY DEF Recv
<1>2. Head(inbox) = m /\ m \in Message /\ n \in Nat /\ n # 0 /\ n2 = n - 1
    BY <1>1, Rest
<1>3. \A i \in 1..n2 : i + 1 \in 1..n /\ inbox'[i] = inbox[i + 1]
    BY <1>1, Rest
<1>4. BusyInv /\ (link # "up" => asked = <<>>)
    BY <1>1 DEF Phases, Busy
<1>5. Due(m)
    BY <1>1, <1>2, <1>4 DEF Due, BusyInv
<1>6. GoesOn(m) \/ Done(m) \/ Fails(m)
    BY <1>1, <1>2, <1>5, ReadDue
<1>7. /\ (Letter(m) = "F" /\ m.t = "E") \/ (Letter(m) = m.t /\ m.t # "F")
      /\ \A i \in 1..n : Letter(inbox[i]) \in Letters /\ (inbox[i].t = "Z" => Letter(inbox[i]) = "Z")
    <2>1. \A i \in 1..n : inbox[i] \in Message
        BY ElementOfSeq DEF TypeOK
    <2> QED BY <1>2, <2>1, Lettered
<1>8. /\ Letter(m) = "F" => n = 1
      /\ Letter(m) = "Z" => n = 1 \/ (n = 2 /\ Letter(inbox[2]) = "F" /\ link = "eof")
      /\ Letter(m) = "E" => Letter(inbox[n]) # "C"
    BY <1>1, <1>4, Ending DEF BusyInv, Last
<1>9. asked # <<>> =>
          /\ Len(asked) = 1 /\ asked[1].n = requests /\ err = "nil" /\ Letter(inbox[n]) = "C"
          /\ asked[1].run = "text" /\ loop \in TextLoops /\ ~(loop = "simpleExec" /\ call = "Commit")
          /\ link = "up"
    BY <1>1, <1>4 DEF BusyInv, Asked, Last, TextLoops
<1>10. (inbox' # <<>> <=> n2 # 0) /\ n2 \in Nat
    BY RecvTypes, EmptySeq, LenProperties DEF TypeOK
<1>11. \A i \in 1..n : i = 1 \/ (i - 1 \in 1..n2 /\ inbox'[i - 1] = inbox[i])
    <2> SUFFICES ASSUME NEW i \in 1..n, i # 1 PROVE i - 1 \in 1..n2 /\ inbox'[i - 1] = inbox[i]
        OBVIOUS
    <2>1. i - 1 \in 1..n2 /\ (i - 1) + 1 = i
        BY <1>2
    <2> QED BY <1>3, <2>1
<1>12. 1 \in 1..n /\ n \in 1..n /\ (n2 # 0 => n2 \in 1..n2 /\ n2 + 1 = n /\ 1 \in 1..n - 1)
    <2> HIDE DEF n, n2
    <2> QED BY <1>2, <1>10
<1>13. n2 # 0 => /\ Follows(Letter(m), Letter(inbox'[1]), loop = "prepareTo")
                 /\ inbox'[n2] = inbox[n] /\ Letter(inbox'[1]) \in Letters
    <2>1. n2 # 0 => Follows(Letter(inbox[1]), Letter(inbox[1 + 1]), loop = "prepareTo")
        BY <1>4, <1>12 DEF BusyInv, Chain
    <2>2. n2 # 0 => 1 \in 1..n2 /\ inbox'[1] = inbox[1 + 1] /\ inbox'[n2] = inbox[n]
        BY <1>3, <1>10, <1>12
    <2>3. n2 # 0 => Letter(inbox'[1]) \in Letters
        BY <1>3, <1>7, <2>2
    <2> QED BY <2>1, <2>2, <2>3
<1>14. Numbered' /\ FatalAtEof'
    BY <1>1, <1>3, <1>4 DEF BusyInv, Numbered, FatalAtEof, Letter
<1> HIDE DEF n, n2
<1>15. CASE GoesOn(m)
    <2>1. Busy' /\ loop' \notin {"closed", "bind", "startup", "password", "auth"}
        BY <1>15 DEF GoesOn, Busy, Reading
    <2>2. Chain'
        <3> SUFFICES ASSUME NEW i \in 1..n2 - 1
                     PROVE  Follows(Letter(inbox'[i]), Letter(inbox'[i + 1]), loop' = "prepareTo")
            BY DEF Chain, Letter, n2
        <3>1. i \in 1..n2 /\ i + 1 \in 1..n2 /\ i + 1 \in 1..n - 1
            BY <1>2, <1>10
        <3>2. Follows(Letter(inbox[i + 1]), Letter(inbox[(i + 1) + 1]), loop = "prepareTo")
            BY <1>4, <3>1 DEF BusyInv, Chain, n
        <3>3. inbox'[i] = inbox[i + 1] /\ inbox'[i + 1] = inbox[(i + 1) + 1]
            BY <1>3, <3>1
        <3>4. loop = "prepareTo" <=> loop' = "prepareTo"
            BY <1>15 DEF GoesOn
        <3> QED BY <3>2, <3>3, <3>4 DEF Follows
    <2>3. (inbox # <<>> => Expects(Letter(inbox[1])))'
        <3>1. \A y \in Letters : Follows(Letter(m), y, loop = "prepareTo") => Expects(y)'
            BY <1>15 DEF GoesOn
        <3> QED BY <1>10, <1>13, <3>1 DEF Expects, Letter
    <2>4. SavedInv'
        BY <1>15 DEF GoesOn, SavedInv
    <2>5. Asked'
        <3> SUFFICES ASSUME asked # <<>> PROVE Asked'
            BY <1>1 DEF Asked
        <3>1. m.t # "E" /\ err' = "nil"
            BY <1>7, <1>8, <1>9, <1>15 DEF GoesOn
        <3>2. inbox' # <<>> => Letter(inbox'[n2]) = "C"
            BY <1>9, <1>10, <1>13
        <3>3. inbox' = <<>> => m.t = "C"
            <4>1. inbox' = <<>> => n = 1
                BY <1>2, <1>10
            <4> QED BY <1>7, <1>9, <4>1
        <3>4. loop' \in TextLoops /\ ~(loop' = "simpleExec" /\ call' = "Commit")
            BY <1>9, <1>15 DEF GoesOn
        <3>5. loop' = "simpleQuery" /\ inbox' = <<>> => res' # "open"
            BY <1>15, <3>1, <3>3 DEF GoesOn
        <3> QED BY <1>1, <1>9, <3>1, <3>2, <3>4, <3>5 DEF Asked, Last, Letter, TextLoops, n2
    <2>6. Answered'
        <3> SUFFICES ASSUME link = "up", asked = <<>>
                     PROVE  inbox' # <<>> /\ inbox'[n2].t = "Z" /\ inbox'[n2].v = server.txn
            BY <1>1 DEF Answered, Last, n2
        <3>1. inbox[n].t = "Z" /\ inbox[n].v = server.txn
            BY <1>4 DEF BusyInv, Answered, Last, n
        <3>2. n # 1
            BY <1>7, <1>12, <1>15, <3>1 DEF GoesOn
        <3>3. n2 # 0
            BY <1>2, <3>2
        <3> QED BY <1>10, <1>13, <3>1, <3>3
    <2>7. Told'
        <3> SUFFICES ASSUME NEW i \in 1..n2, inbox'[i].t = "Z", server.went = "failed", err' = "nil"
                     PROVE  \E j \in 1..n2 : Letter(inbox'[j]) = "E"
            BY <1>1 DEF Told, Letter, n2
        <3>1. i + 1 \in 1..n /\ inbox[i + 1].t = "Z"
            BY <1>3
        <3>2. m.t # "E" /\ err = "nil"
            BY <1>15 DEF GoesOn
        <3>3. PICK j \in 1..n : Letter(inbox[j]) = "E"
            BY <1>4, <3>1, <3>2 DEF BusyInv, Told, n
        <3>4. j # 1
            BY <1>7, <3>2, <3>3
        <3> QED BY <1>11, <3>3, <3>4
    <2>8. Tagged'
        <3> SUFFICES ASSUME loop' = "simpleExec", call' = "Commit", server.went # "done", asked = <<>>
                     PROVE  res' # "COMMIT" /\ \A i \in 1..n2 : inbox'[i].v # "COMMIT"
            BY <1>1 DEF Tagged, n2
        <3>1. loop = "simpleExec" /\ call = "Commit" /\ res' \in {res, m.v}
            BY <1>15 DEF GoesOn
        <3>2. res # "COMMIT" /\ \A i \in 1..n : inbox[i].v # "COMMIT"
            BY <1>4, <3>1 DEF BusyInv, Tagged, n
        <3> QED BY <1>3, <1>12, <3>1, <3>2
    <2>9. answer' \notin {"ok", "committed"}
        BY <1>15 DEF GoesOn
    <2>10. BusyInv'
        BY <1>14, <2>2, <2>3, <2>4, <2>5, <2>6, <2>7, <2>8, <2>9 DEF BusyInv
    <2> QED BY <1>1, <1>4, <2>1, <2>9, <2>10 DEF Phases, Busy, Reading, Starting, SuccessIsTrue
<1>16. CASE Done(m)
    <2>1. /\ Letter(m) = "Z" /\ loop' \in {"none", "bind"} /\ rows' # "open" /\ saved' = NoMessage
          /\ txn' = m.v \/ bad'
        BY <1>16 DEF Done
    <2>2. n = 1 \/ (n = 2 /\ Letter(inbox[2]) = "F" /\ link = "eof")
        BY <1>8, <2>1
    <2>3. asked = <<>>
        BY <1>9, <2>1, <2>2
    <2>4. ~bad' => QuietInv'
        <3>1. n2 = 0 \/ (n2 = 1 /\ Letter(inbox'[1]) = "F")
            <4>1. CASE n = 1
                BY <1>2, <4>1
            <4>2. CASE n = 2 /\ Letter(inbox[2]) = "F"
                <5>1. n2 = 1 /\ 1 \in 1..n2
                    BY <1>2, <4>2
                <5>2. inbox'[1] = inbox[1 + 1]
                    BY <1>3, <5>1
                <5> QED BY <4>2, <5>1, <5>2
            <4> QED BY <2>2, <4>1, <4>2
        <3>2. n2 <= 1
            BY <3>1
        <3>3. link = "up" => m.v = server.txn
            BY <1>4, <2>2, <2>3 DEF BusyInv, Answered, Last, n
        <3>4. inbox' # <<>> => Letter(inbox'[1]) = "F"
            BY <1>10, <3>1
        <3> QED BY <1>1, <1>14, <2>1, <3>2, <3>3, <3>4 DEF QuietInv, Letter, n2
    <2>5. SuccessIsTrue'
        <3>1. m.t = "Z"
            BY <1>7, <2>1
        <3>2. \A i \in 1..n : Letter(inbox[i]) # "E"
            <4>1. \A i \in 1..n : i = 1 \/ (i = 2 /\ n = 2)
                BY <2>2
            <4> QED BY <2>1, <2>2, <4>1
        <3>3. err = "nil" => server.went # "failed"
            BY <1>4, <1>12, <3>1, <3>2 DEF BusyInv, Told, n
        <3>4. loop = "simpleExec" /\ call = "Commit" /\ res = "COMMIT" => server.went = "done"
            BY <1>4, <2>3 DEF BusyInv, Tagged
        <3> QED BY <1>1, <1>16, <3>3, <3>4 DEF Done, SuccessIsTrue
    <2>6. ~Busy' /\ ~Starting' /\ loop' # "closed"
        BY <2>1 DEF Busy, Reading, Starting
    <2> QED BY <1>1, <2>3, <2>4, <2>5, <2>6 DEF Phases
<1>17. CASE Fails(m)
    <2>1. Letter(m) = "F" /\ loop' = "none" /\ bad' /\ answer' = "error"
        BY <1>17 DEF Fails
    <2>2. link = "eof"
        BY <1>4, <1>12, <2>1 DEF BusyInv, FatalAtEof, n
    <2>3. asked = <<>>
        BY <1>4, <2>2
    <2> QED BY <1>1, <2>1, <2>3 DEF Phases, Busy, Reading, Starting, SuccessIsTrue
<1> QED BY <1>6, <1>15, <1>16, <1>17

-----------------------------------------------------------------------------
(* The server answers.                                                     *)

(* What the server is asked, and who reads the answer.                     *)
LEMMA AskedBy ==
    ASSUME TypeOK, Asked, asked # <<>>
    PROVE  /\ asked[1].run \in {"text", "prepare", "bound", "close"} /\ asked[1].text \in Seq(Statement)
           /\ Preparing <=> loop = "prepareTo"
           /\ asked[1].run = "bound" <=> loop = "exec"
           /\ asked[1].run = "close" <=> loop = "stmtClose"
           /\ asked[1].run = "text" <=> loop \in TextLoops
<1>1. asked[1].run \in {"text", "prepare", "bound", "close"} /\ asked[1].text \in Seq(Statement)
    BY MsgTypes DEF Request
<1> QED BY <1>1 DEF Asked, LoopOf, Preparing, TextLoops

(* The first letter of an answer, and the last before Z.                   *)
LEMMA AnswerEnds ==
    ASSUME TypeOK, Asked, asked # <<>>, NEW o \in Outcomes(Head(asked))
    PROVE  /\ inbox = <<>> => Expects(o.msgs[1].t)
           /\ inbox # <<>> => Follows("C", o.msgs[1].t, loop = "prepareTo")
           /\ Follows(o.msgs[Len(o.msgs)].t, "Z", loop = "prepareTo")
           /\ o.went # "failed" /\ Len(asked[1].text) > 1 => o.msgs[Len(o.msgs)].t = "C"
           /\ o.went = "failed" => o.msgs[Len(o.msgs)].t = "E"
<1> DEFINE f == o.msgs[1].t  l == o.msgs[Len(o.msgs)].t
<1>1. err = "nil" /\ (asked[1].run # "text" => asked[1].text = <<>> /\ inbox = <<>>)
    BY DEF Asked
<1>2. o.went = "failed" => l = "E"
    BY OutcomeSound DEF Sound
<1>3. CASE asked[1].run = "prepare"
    <2>1. f \in {"1", "E"} /\ (o.went # "failed" => l \in {"T", "n"}) /\ loop = "prepareTo"
        BY <1>3, OutcomeSound, AskedBy DEF Ends, Preparing
    <2>2. Len(asked[1].text) = 0
        BY <1>1, <1>3
    <2> HIDE DEF f, l
    <2> QED BY <1>1, <1>2, <1>3, <2>1, <2>2 DEF Expects, Follows, f, l
<1>4. CASE asked[1].run = "bound"
    <2>1. f \in {"2", "E"} /\ (o.went # "failed" => l = "C") /\ loop = "exec"
        BY <1>4, OutcomeSound, AskedBy DEF Ends
    <2>2. Len(asked[1].text) = 0
        BY <1>1, <1>4
    <2> QED BY <1>1, <1>2, <1>4, <2>1, <2>2 DEF Expects, Follows
<1>5. CASE asked[1].run = "close"
    <2>1. f = "3" /\ l = "3" /\ o.went = "done" /\ loop = "stmtClose" /\ res # "closed"
        BY <1>5, OutcomeSound, AskedBy DEF Ends, Asked
    <2>2. Len(asked[1].text) = 0
        BY <1>1, <1>5
    <2> QED BY <1>1, <1>2, <1>5, <2>1, <2>2 DEF Expects, Follows
<1>6. CASE asked[1].run = "text"
    <2>1. loop \in TextLoops /\ (inbox = <<>> /\ loop = "simpleQuery" => res # "open")
        BY <1>6, AskedBy DEF Asked
    <2>2. f \in {"I", "C", "T", "E"} /\ (o.went # "failed" => l \in {"I", "C"})
        BY <1>6, OutcomeSound DEF RunsTo, Ends
    <2>3. o.went # "failed" /\ Len(asked[1].text) > 1 => l = "C"
        <3>1. asked[1].text = <<>> => Len(asked[1].text) = 0
            OBVIOUS
        <3>2. asked[1].text # <<>> => RunsTo(o, asked[1].text[1], 1)
            BY <1>6, OutcomeSound
        <3>3. asked[1].text # <<>> /\ o.went # "failed" => l = "C"
            BY <3>2 DEF RunsTo, Ends
        <3> QED BY <3>1, <3>3
    <2>4. Expects(f) \/ inbox # <<>>
        BY <1>1, <2>1, <2>2 DEF Expects, TextLoops
    <2>5. Follows("C", f, loop = "prepareTo") /\ Follows(l, "Z", loop = "prepareTo")
        BY <1>2, <2>1, <2>2 DEF Follows, TextLoops
    <2> QED BY <1>2, <2>3, <2>4, <2>5
<1> QED BY <1>3, <1>4, <1>5, <1>6, AskedBy

(* An answer, to the end of the request or to the end of a statement.      *)
IsAnswer(q, o, ended) ==
    /\ q \in Seq(Message) /\ q # <<>>
    /\ \A i \in 1..Len(q) : q[i].n = requests /\ Letter(q[i]) = q[i].t /\ q[i].t # "F"
    /\ \A i \in 1..Len(q) - 1 : Follows(q[i].t, q[i + 1].t, loop = "prepareTo")
    /\ inbox = <<>> => Expects(q[1].t)
    /\ inbox # <<>> => Follows("C", q[1].t, loop = "prepareTo")
    /\ ended => q[Len(q)].t = "Z" /\ q[Len(q)].v = o.txn
    /\ ~ended => q[Len(q)].t = "C"
    /\ o.went = "failed" => \E i \in 1..Len(q) : q[i].t = "E"
    /\ o.went # "done" /\ loop = "simpleExec" /\ call = "Commit" =>
          \A i \in 1..Len(q) : q[i].v # "COMMIT"

LEMMA Answer ==
    ASSUME TypeOK, Asked, asked # <<>>, NEW o \in Outcomes(Head(asked)), asked[1].n = requests
    PROVE  /\ IsAnswer(Append(o.msgs, Msg("Z", o.txn)), o, TRUE)
           /\ o.went # "failed" /\ Len(asked[1].text) > 1 => IsAnswer(o.msgs, o, FALSE)
<1> DEFINE p == o.msgs  n == Len(p)  z == Msg("Z", o.txn)  q == Append(p, z)
<1>1. Sound(o)
    BY OutcomeSound
<1>2. /\ p \in Seq(Message) /\ p # <<>> /\ n \in Nat /\ n # 0 /\ o.txn \in {"I", "T", "E"}
      /\ \A i \in 1..n : p[i].n = requests /\ p[i].t # "Z" /\ Letter(p[i]) = p[i].t
    BY <1>1, EmptySeq, LenProperties DEF Sound
<1>3. \A i \in 1..n - 1 : Follows(p[i].t, p[i + 1].t, loop = "prepareTo")
    BY <1>1, AskedBy DEF Sound, Follows
<1>4. /\ inbox = <<>> => Expects(p[1].t)
      /\ inbox # <<>> => Follows("C", p[1].t, loop = "prepareTo")
      /\ Follows(p[n].t, "Z", loop = "prepareTo")
      /\ o.went # "failed" /\ Len(asked[1].text) > 1 => p[n].t = "C"
      /\ o.went = "failed" => p[n].t = "E"
    BY AnswerEnds
<1>5. \A i \in 1..n : p[i].t # "F" /\ p[i] \in Message
    <2>1. \A i \in 1..n : p[i] \in Message
        BY <1>2, ElementOfSeq
    <2> QED BY <2>1, Lettered
<1>6. o.went # "done" /\ loop = "simpleExec" /\ call = "Commit" => \A i \in 1..n : p[i].v # "COMMIT"
    <2> SUFFICES ASSUME o.went # "done", loop = "simpleExec", call = "Commit"
                 PROVE  \A i \in 1..n : p[i].v # "COMMIT"
        OBVIOUS
    <2>1. asked[1].run = "text"
        BY AskedBy DEF TextLoops
    <2>2. asked[1].text = <<"COMMIT">>
        BY <2>1 DEF Asked
    <2>3. RunsTo(o, asked[1].text[1], 1) /\ asked[1].text[1] = "COMMIT"
        BY <2>1, <2>2, OutcomeSound
    <2> QED BY <2>3 DEF RunsTo
<1>7. z \in Message /\ z.t = "Z" /\ z.v = o.txn /\ z.n = requests /\ Letter(z) = "Z" /\ z.v # "COMMIT"
    <2>1. z \in Message
        BY <1>2, MsgTypes
    <2>2. z.t = "Z" /\ z.v = o.txn /\ z.n = requests
        BY MsgTypes DEF Msg
    <2>3. z.v # "COMMIT"
        BY <1>2, <2>2
    <2>4. Letter(z) = "Z"
        BY <1>2, <2>2 DEF Letter
    <2> QED BY <2>1, <2>2, <2>3, <2>4
<1>8. o.went # "failed" /\ Len(asked[1].text) > 1 => IsAnswer(p, o, FALSE)
    BY <1>2, <1>3, <1>4, <1>5, <1>6 DEF IsAnswer
<1> HIDE DEF p, z
<1>9. q \in Seq(Message) /\ Len(q) = n + 1 /\ (\A i \in 1..n : q[i] = p[i]) /\ q[n + 1] = z
    <2>1. q \in Seq(Message)
        BY <1>2, <1>7, AppendProperties
    <2>2. Len(q) = n + 1
        BY <1>2, <1>7, AppendProperties
    <2>3. \A i \in 1..n : q[i] = p[i]
        BY <1>2, <1>7, AppendProperties
    <2>4. q[n + 1] = z
        BY <1>2, <1>7, AppendProperties
    <2> QED BY <2>1, <2>2, <2>3, <2>4
<1> HIDE DEF q, n
<1>10. \A i \in 1..n + 1 : i \in 1..n \/ i = n + 1
    BY <1>2
<1>11. q # <<>> /\ 1 \in 1..n /\ n \in 1..n /\ n + 1 \in 1..n + 1 /\ \A i \in 1..n : i \in 1..n + 1
    BY <1>2, <1>9, EmptySeq
<1>12. \A i \in 1..n + 1 : q[i].n = requests /\ Letter(q[i]) = q[i].t /\ q[i].t # "F"
    BY <1>2, <1>5, <1>7, <1>9, <1>10
<1>13. \A i \in 1..(n + 1) - 1 : Follows(q[i].t, q[i + 1].t, loop = "prepareTo")
    <2> SUFFICES ASSUME NEW i \in 1..n PROVE Follows(q[i].t, q[i + 1].t, loop = "prepareTo")
        BY <1>2
    <2>1. CASE i = n
        BY <1>4, <1>7, <1>9, <2>1
    <2>2. CASE i # n
        <3>1. i \in 1..n - 1 /\ i + 1 \in 1..n
            BY <1>2, <2>2
        <3> QED BY <1>3, <1>9, <3>1
    <2> QED BY <2>1, <2>2
<1>14. /\ inbox = <<>> => Expects(q[1].t)
       /\ inbox # <<>> => Follows("C", q[1].t, loop = "prepareTo")
    BY <1>4, <1>9, <1>11
<1>15. o.went = "failed" => \E i \in 1..n + 1 : q[i].t = "E"
    BY <1>4, <1>9, <1>11
<1>16. o.went # "done" /\ loop = "simpleExec" /\ call = "Commit" => \A i \in 1..n + 1 : q[i].v # "COMMIT"
    BY <1>6, <1>7, <1>9, <1>10
<1>17. IsAnswer(q, o, TRUE)
    BY <1>7, <1>9, <1>11, <1>12, <1>13, <1>14, <1>15, <1>16 DEF IsAnswer
<1> QED BY <1>8, <1>17 DEF p, q, z

LEMMA Joined ==
    ASSUME TypeOK, NEW q \in Seq(Message), inbox' = inbox \o q
    PROVE  /\ Len(inbox) \in Nat /\ Len(q) \in Nat /\ Len(inbox') = Len(inbox) + Len(q)
           /\ \A i \in 1..Len(inbox) : inbox'[i] = inbox[i] /\ inbox[i] \in Message
           /\ \A i \in 1..Len(q) : inbox'[Len(inbox) + i] = q[i]
<1> DEFINE n == Len(inbox)  k == Len(q)
<1>1. inbox \in Seq(Message) /\ n \in Nat /\ k \in Nat
    BY LenProperties DEF TypeOK
<1>2. Len(inbox \o q) = n + k
    BY <1>1, ConcatProperties
<1>3. \A i \in 1..n + k : (inbox \o q)[i] = IF i <= n THEN inbox[i] ELSE q[i - n]
    BY <1>1, ConcatProperties
<1>4. \A i \in 1..n : inbox[i] \in Message
    BY <1>1, ElementOfSeq
<1> HIDE DEF n, k
<1>5. \A i \in 1..n : i \in 1..n + k /\ i <= n
    BY <1>1
<1>6. \A i \in 1..k : n + i \in 1..n + k /\ ~(n + i <= n) /\ (n + i) - n = i
    BY <1>1
<1>7. \A i \in 1..n : inbox'[i] = inbox[i]
    BY <1>3, <1>5
<1>8. \A i \in 1..k : inbox'[n + i] = q[i]
    BY <1>3, <1>6
<1> QED BY <1>1, <1>2, <1>4, <1>7, <1>8 DEF n, k

LEMMA ServeStep == ASSUME TypeOK, Loops, Phases, ~strayed, Serve PROVE Phases'
<1>1. /\ link = "up" /\ asked # <<>>
      /\ UNCHANGED <<loop, method, err, res, bad, txn, saved, rows, answer, link, requests, strayed>>
    BY DEF Serve, history
<1>2. Busy /\ BusyInv
    BY <1>1 DEF Phases
<1>3. Asked /\ Len(asked) = 1 /\ asked[1].n = requests /\ err = "nil" /\ (inbox # <<>> => Letter(Last) = "C")
    BY <1>1, <1>2 DEF BusyInv, Asked
<1>4. asked[1].text \in Seq(Statement) /\ Head(asked) = asked[1]
    BY <1>1, MsgTypes
<1>5. PICK o \in Outcomes(Head(asked)) :
          /\ server' = [txn |-> o.txn, went |-> o.went]
          /\ IF Len(asked[1].text) <= 1 \/ o.went = "failed"
             THEN inbox' = inbox \o Append(o.msgs, Msg("Z", o.txn)) /\ asked' = Tail(asked)
             ELSE inbox' = inbox \o o.msgs /\ asked' = [asked EXCEPT ![1].text = Tail(@)]
    BY <1>4 DEF Serve
<1>6. Len(asked[1].text) \in Nat
    BY <1>4, LenProperties
<1>7. \E q \in Seq(Message) : \E ended \in BOOLEAN :
          /\ IsAnswer(q, o, ended) /\ inbox' = inbox \o q
          /\ ended => asked' = Tail(asked)
          /\ ~ended => /\ asked' = [asked EXCEPT ![1].text = Tail(@)] /\ o.went # "failed"
                       /\ Len(asked[1].text) > 1
    <2>1. CASE Len(asked[1].text) <= 1 \/ o.went = "failed"
        <3>1. IsAnswer(Append(o.msgs, Msg("Z", o.txn)), o, TRUE)
            BY <1>1, <1>3, Answer
        <3>2. Append(o.msgs, Msg("Z", o.txn)) \in Seq(Message)
            BY <3>1 DEF IsAnswer
        <3> QED BY <1>5, <2>1, <3>1, <3>2
    <2>2. CASE ~(Len(asked[1].text) <= 1 \/ o.went = "failed")
        <3>1. Len(asked[1].text) > 1 /\ o.went # "failed"
            BY <1>6, <2>2
        <3>2. IsAnswer(o.msgs, o, FALSE)
            BY <1>1, <1>3, <3>1, Answer
        <3>3. o.msgs \in Seq(Message)
            BY <3>2 DEF IsAnswer
        <3> QED BY <1>5, <2>2, <3>1, <3>2, <3>3
    <2> QED BY <2>1, <2>2
<1>8. PICK q \in Seq(Message) : \E ended \in BOOLEAN :
          /\ IsAnswer(q, o, ended) /\ inbox' = inbox \o q
          /\ ended => asked' = Tail(asked)
          /\ ~ended => /\ asked' = [asked EXCEPT ![1].text = Tail(@)] /\ o.went # "failed"
                       /\ Len(asked[1].text) > 1
    BY <1>7
<1>9. PICK ended \in BOOLEAN :
          /\ IsAnswer(q, o, ended) /\ inbox' = inbox \o q
          /\ ended => asked' = Tail(asked)
          /\ ~ended => /\ asked' = [asked EXCEPT ![1].text = Tail(@)] /\ o.went # "failed"
                       /\ Len(asked[1].text) > 1
    BY <1>8
<1> DEFINE n == Len(inbox)  k == Len(q)  n2 == Len(inbox')
<1>10. /\ n \in Nat /\ k \in Nat /\ n2 = n + k
       /\ \A i \in 1..n : inbox'[i] = inbox[i] /\ inbox[i] \in Message
       /\ \A i \in 1..k : inbox'[n + i] = q[i]
    BY <1>9, Joined
<1>11. k # 0 /\ (inbox # <<>> <=> n # 0)
    BY <1>9, EmptySeq DEF IsAnswer, TypeOK
<1>12. /\ \A i \in 1..k : q[i].n = requests /\ Letter(q[i]) = q[i].t /\ q[i].t # "F"
       /\ \A i \in 1..k - 1 : Follows(q[i].t, q[i + 1].t, loop = "prepareTo")
       /\ inbox = <<>> => Expects(q[1].t)
       /\ inbox # <<>> => Follows("C", q[1].t, loop = "prepareTo")
       /\ ended => q[k].t = "Z" /\ q[k].v = o.txn
       /\ ~ended => q[k].t = "C"
       /\ o.went = "failed" => \E i \in 1..k : q[i].t = "E"
       /\ o.went # "done" /\ loop = "simpleExec" /\ call = "Commit" => \A i \in 1..k : q[i].v # "COMMIT"
    BY <1>9 DEF IsAnswer
<1>13. server'.txn = o.txn /\ server'.went = o.went
    BY <1>5
<1> HIDE DEF n, k, n2
<1>14. \A i \in 1..n2 : i \in 1..n \/ (i - n \in 1..k /\ inbox'[i] = q[i - n])
    <2> SUFFICES ASSUME NEW i \in 1..n2, i \notin 1..n PROVE i - n \in 1..k /\ inbox'[i] = q[i - n]
        OBVIOUS
    <2>1. i - n \in 1..k /\ n + (i - n) = i
        BY <1>10
    <2> QED BY <1>10, <2>1
<1>15. 1 \in 1..k /\ k \in 1..k /\ n2 \in Nat /\ n2 # 0 /\ (\A i \in 1..k : n + i \in 1..n2)
       /\ (\A i \in 1..n : i \in 1..n2)
    BY <1>10, <1>11
<1>16. inbox'[n2] = q[k] /\ inbox'[n + 1] = q[1]
    BY <1>10, <1>15
<1>17. inbox' # <<>>
    <2>1. Len(<<>>) = 0
        OBVIOUS
    <2> QED BY <1>15, <2>1 DEF n2
<1>18. Numbered' /\ FatalAtEof'
    <2>1. \A i \in 1..n2 : Letter(inbox'[i]) # "F" /\ inbox'[i].n = requests
        <3>1. \A i \in 1..n : Letter(inbox[i]) # "F" /\ inbox[i].n = requests
            BY <1>1, <1>2 DEF BusyInv, FatalAtEof, Numbered, n
        <3> SUFFICES ASSUME NEW i \in 1..n2 PROVE Letter(inbox'[i]) # "F" /\ inbox'[i].n = requests
            OBVIOUS
        <3>2. CASE i \in 1..n
            <4>1. inbox'[i] = inbox[i]
                BY <1>10, <3>2
            <4> QED BY <3>1, <3>2, <4>1
        <3>3. CASE i \notin 1..n
            <4> DEFINE j == i - n
            <4>1. j \in 1..k /\ inbox'[i] = q[j]
                BY <1>14, <3>3
            <4> HIDE DEF j
            <4> QED BY <1>12, <4>1
        <3> QED BY <3>2, <3>3
    <2> QED BY <1>1, <2>1 DEF Numbered, FatalAtEof, Letter, n2
<1>19. Chain'
    <2> SUFFICES ASSUME NEW i \in 1..n2 - 1
                 PROVE  Follows(Letter(inbox'[i]), Letter(inbox'[i + 1]), loop = "prepareTo")
        BY <1>1 DEF Chain, Letter, n2
    <2>1. i \in 1..n2 /\ i + 1 \in 1..n2
        BY <1>15
    <2>2. CASE i \in 1..n - 1
        <3>1. i \in 1..n /\ i + 1 \in 1..n
            BY <1>10, <2>2
        <3>2. Follows(Letter(inbox[i]), Letter(inbox[i + 1]), loop = "prepareTo")
            BY <1>2, <2>2 DEF BusyInv, Chain, n
        <3> QED BY <1>10, <3>1, <3>2
    <2>3. CASE i = n
        <3>1. inbox # <<>> /\ n \in 1..n
            BY <1>10, <1>11, <2>3
        <3>2. Letter(inbox[n]) = "C"
            BY <1>3, <3>1 DEF Last, n
        <3>3. Follows("C", q[1].t, loop = "prepareTo") /\ Letter(q[1]) = q[1].t
            BY <1>12, <1>15, <3>1
        <3> QED BY <1>10, <1>16, <2>3, <3>1, <3>2, <3>3
    <2>4. CASE i \notin 1..n
        <3> DEFINE j == i - n
        <3>1. j \in 1..k - 1 /\ j \in 1..k /\ j + 1 \in 1..k /\ n + j = i /\ n + (j + 1) = i + 1
            BY <1>10, <2>4
        <3> HIDE DEF j
        <3>2. inbox'[i] = q[j] /\ inbox'[i + 1] = q[j + 1]
            BY <1>10, <3>1
        <3> QED BY <1>12, <3>1, <3>2
    <2> QED BY <1>10, <2>2, <2>3, <2>4
<1>20. (inbox # <<>> => Expects(Letter(inbox[1])))'
    <2>1. CASE inbox = <<>>
        <3>1. n = 0
            BY <1>11, <2>1
        <3>2. inbox'[1] = q[1] /\ Letter(q[1]) = q[1].t /\ Expects(q[1].t)
            BY <1>12, <1>15, <1>16, <2>1, <3>1
        <3> QED BY <1>1, <3>2 DEF Expects, Letter
    <2>2. CASE inbox # <<>>
        <3>1. 1 \in 1..n
            BY <1>10, <1>11, <2>2
        <3>2. inbox'[1] = inbox[1] /\ Expects(Letter(inbox[1]))
            BY <1>2, <1>10, <2>2, <3>1 DEF BusyInv
        <3> QED BY <1>1, <3>2 DEF Expects, Letter
    <2> QED BY <2>1, <2>2
<1>21. SavedInv' /\ answer' \notin {"ok", "committed"}
    BY <1>1, <1>2 DEF BusyInv, SavedInv
<1>22. ended => asked' = <<>>
    <2>1. asked \in Seq(Request) /\ Len(asked) = 1
        BY <1>3 DEF TypeOK
    <2>2. Len(Tail(asked)) = 0 /\ Tail(asked) \in Seq(Request)
        BY <1>1, <2>1, HeadTailProperties
    <2> QED BY <1>9, <2>2, EmptySeq
<1>23. ~ended => /\ Len(asked') = 1 /\ asked' # <<>> /\ asked'[1].n = requests /\ asked[1].run = "text"
                 /\ asked'[1].run = "text" /\ Letter(inbox'[n2]) = "C" /\ Len(asked[1].text) > 1
    <2> SUFFICES ASSUME ~ended
                 PROVE  /\ Len(asked') = 1 /\ asked' # <<>> /\ asked'[1].n = requests /\ asked[1].run = "text"
                        /\ asked'[1].run = "text" /\ Letter(inbox'[n2]) = "C" /\ Len(asked[1].text) > 1
        OBVIOUS
    <2>1. asked \in Seq(Request) /\ asked[1] \in Request
        BY <1>1, MsgTypes DEF TypeOK
    <2>2. Len(asked[1].text) > 1
        BY <1>9
    <2>3. asked[1].run = "text"
        <3>1. asked[1].text # <<>>
            <4>1. Len(<<>>) = 0
                OBVIOUS
            <4> QED BY <2>2, <4>1
        <3> QED BY <1>1, <1>3, <3>1 DEF Asked
    <2> DEFINE r == [asked[1] EXCEPT !.text = Tail(@)]
    <2>4. asked' = [asked EXCEPT ![1] = r]
        BY <1>9
    <2>5. r.run = asked[1].run /\ r.n = asked[1].n
        BY <2>1 DEF Request
    <2> HIDE DEF r
    <2>6. 1 \in 1..Len(asked) /\ Len(asked) = 1
        BY <1>3
    <2>7. Len(asked') = 1 /\ asked'[1] = r
        BY <2>1, <2>4, <2>6
    <2>8. asked' # <<>>
        <3>1. Len(<<>>) = 0
            OBVIOUS
        <3> QED BY <2>7, <3>1
    <2>9. Letter(inbox'[n2]) = "C"
        BY <1>12, <1>15, <1>16
    <2> QED BY <1>3, <2>2, <2>3, <2>5, <2>7, <2>8, <2>9
<1>24. Asked'
    <2>1. CASE ended
        BY <1>22, <2>1 DEF Asked
    <2>2. CASE ~ended
        <3>1. loop \in {"simpleExec", "simpleQuery", "none", "next", "close"}
            BY <1>1, <1>3, <1>23, <2>2 DEF Asked
        <3>2. ~(loop = "simpleExec" /\ call = "Commit")
            <4> SUFFICES ASSUME loop = "simpleExec", call = "Commit" PROVE FALSE
                OBVIOUS
            <4>1. asked[1].text = <<"COMMIT">> /\ Len(asked[1].text) > 1
                BY <1>1, <1>3, <1>23, <2>2 DEF Asked
            <4> QED BY <4>1
        <3> QED BY <1>1, <1>3, <1>17, <1>23, <2>2, <3>1, <3>2 DEF Asked, Last, Letter, method, n2
    <2> QED BY <2>1, <2>2
<1>25. Answered'
    <2>1. CASE ended
        BY <1>12, <1>13, <1>16, <1>17, <2>1 DEF Answered, Last, n2
    <2>2. CASE ~ended
        BY <1>23, <2>2 DEF Answered
    <2> QED BY <2>1, <2>2
<1>26. Told'
    <2> SUFFICES ASSUME o.went = "failed" PROVE \E j \in 1..n2 : Letter(inbox'[j]) = "E"
        BY <1>13 DEF Told, Letter, n2
    <2>1. PICK j \in 1..k : q[j].t = "E"
        BY <1>12
    <2> QED BY <1>10, <1>12, <1>15, <2>1
<1>27. Tagged'
    <2> SUFFICES ASSUME loop = "simpleExec", call = "Commit", o.went # "done"
                 PROVE  res # "COMMIT" /\ \A i \in 1..n2 : inbox'[i].v # "COMMIT"
        BY <1>1, <1>13 DEF Tagged, method, n2
    <2>1. asked[1].run = "text"
        BY <1>1, <1>3, AskedBy DEF TextLoops
    <2>2. res = "nil" /\ inbox = <<>>
        BY <1>1, <1>3, <2>1 DEF Asked
    <2>3. n = 0
        BY <1>11, <2>2
    <2>4. \A i \in 1..n : FALSE
        BY <2>3
    <2> QED BY <1>12, <1>14, <2>2, <2>4
<1>28. BusyInv'
    BY <1>18, <1>19, <1>20, <1>21, <1>24, <1>25, <1>26, <1>27 DEF BusyInv
<1>29. Busy' /\ ~Starting' /\ loop' # "closed"
    BY <1>1, <1>2 DEF Busy, Reading, Starting
<1> QED BY <1>1, <1>21, <1>28, <1>29 DEF Phases, Busy, Reading, SuccessIsTrue

(* Only what is read changes the history, and only a connection that is    *)
(* gone forgets it.                                                        *)
LEMMA Histories ==
    ASSUME Steps
    PROVE  \/ \E a \in {"nil", "error", "ErrBadConn"} : Gone(a)
           \/ Recv /\ (strayed => strayed')
           \/ UNCHANGED history
<1>1. CASE Starts
    BY <1>1 DEF Starts, Open, Password, RecvStartup
<1>2. CASE Called
    <2>1. ASSUME NEW c, NEW run, NEW text, NEW l, Send(c, run, text, l) PROVE UNCHANGED history
        BY <2>1 DEF Send
    <2>2. ASSUME NEW c, WrongStatus(c) PROVE UNCHANGED history
        BY <2>2 DEF WrongStatus
    <2> QED BY <1>2, <2>1, <2>2 DEF Called, Begin, Commit, Rollback, EndTx, StmtClose, Bind, Exec, Query, Prepare
<1>3. CASE Between
    BY <1>3 DEF Between, Execute, Fetch, Refuse, Close
<1>4. CASE Recv
    <2>1. strayed => strayed'
        BY <1>4 DEF Recv, ReadMessage, ReadSimpleExec, ReadSimpleQuery, ReadPrepareTo, ReadExec,
            ReadWorkaround, ReadStmtExec, ReadStmtClose, ReadRows, Continue, Unexpected, Ready
    <2> QED BY <1>4, <2>1
<1>5. CASE RecvFails \/ Serve \/ Break
    BY <1>5 DEF RecvFails, Serve, Break
<1> QED BY <1>1, <1>2, <1>3, <1>4, <1>5 DEF Steps

(* A message that is read answers the last request.                        *)
LEMMA MixedStep ==
    ASSUME TypeOK, mixed => strayed, ~strayed => Phases, Steps PROVE (mixed => strayed)'
<1>1. CASE \E a \in {"nil", "error", "ErrBadConn"} : Gone(a)
    BY <1>1 DEF Gone
<1>2. CASE UNCHANGED history
    BY <1>2 DEF history
<1>3. CASE Recv /\ (strayed => strayed')
    <2>1. CASE saved # NoMessage
        BY <1>3, <2>1 DEF Recv
    <2>2. CASE saved = NoMessage /\ ~strayed
        <3>1. Reading /\ inbox # <<>> /\ inbox' = Tail(inbox)
              /\ mixed' = (mixed \/ (Head(inbox).n # requests /\ Head(inbox).v # "FATAL"))
            BY <1>3, <2>2 DEF Recv
        <3>2. Head(inbox) = inbox[1] /\ 1 \in 1..Len(inbox)
            BY <3>1, Rest
        <3>3. Head(inbox).v # "FATAL" => Head(inbox).n = requests
            <4>1. Numbered
                BY <2>2, <3>1 DEF Phases, Busy, BusyInv
            <4>2. inbox[1].v # "FATAL" => Letter(inbox[1]) # "F"
                BY <3>1, Rest, Lettered, Messages DEF Letter
            <4> QED BY <3>2, <4>1, <4>2 DEF Numbered
        <3> QED BY <2>2, <3>1, <3>3
    <2> QED BY <1>3, <2>1, <2>2 DEF TypeOK
<1> QED BY <1>1, <1>2, <1>3, Histories

LEMMA PhaseStep == ASSUME TypeOK, Loops, ~strayed => Phases, Steps, ~strayed' PROVE Phases'
<1>1. CASE \E a \in {"nil", "error", "ErrBadConn"} : Gone(a)
    BY <1>1, GoneStep
<1>2. CASE ~strayed /\ Recv
    BY <1>2, SavedStep, InboxStep
<1>3. CASE ~strayed /\ ~Recv
    BY <1>3, StartsStep, CalledStep, BetweenStep, RecvFailsStep, ServeStep, BreakStep DEF Steps
<1> QED BY <1>1, <1>2, <1>3, Histories DEF history, TypeOK

-----------------------------------------------------------------------------
(* What holds of every connection.                                         *)
LEMMA Start == Init => IInv
<1> SUFFICES ASSUME Init PROVE IInv
    OBVIOUS
<1>1. TypeOK
    <2>1. <<>> \in Seq(Message) /\ <<>> \in Seq(Request)
        OBVIOUS
    <2>2. inbox \in Seq(Message) /\ asked \in Seq(Request) /\ saved \in Message
        BY <2>1, NoMessageType DEF Init
    <2>3. server.txn \in {"I", "T", "E"}
        BY DEF Init
    <2> QED BY <2>2, <2>3 DEF Init, TypeOK
<1>2. Loops /\ Phases
    BY DEF Init, Loops, Phases, Busy, Reading, Starting, ClosedInv, SuccessIsTrue
<1> QED BY <1>1, <1>2 DEF Init, IInv

LEMMA Inductive == IInv /\ [Next]_vars => IInv'
<1> SUFFICES ASSUME IInv, [Next]_vars PROVE IInv'
    OBVIOUS
<1>1. TypeOK' /\ Loops'
    BY TypeStep, LoopStep DEF IInv
<1>2. CASE Steps
    BY <1>1, <1>2, MixedStep, PhaseStep DEF IInv
<1>3. CASE UNCHANGED vars
    <2>1. (mixed => strayed)'
        BY <1>3 DEF IInv, vars, history
    <2>2. ASSUME ~strayed' PROVE Phases'
        <3>1. Phases
            BY <1>3, <2>2 DEF IInv, vars, history
        <3> QED BY <1>3, <3>1 DEF vars, method, history, Phases, Busy, Reading, Starting, BusyInv, QuietInv,
              StartInv, ClosedInv, SuccessIsTrue, Numbered, Chain, FatalAtEof, Expects, SavedInv, Asked,
              Answered, Told, Tagged, Last, Letter, Follows
    <2> QED BY <1>1, <2>1, <2>2 DEF IInv
<1> QED BY <1>2, <1>3, NextSteps

LEMMA Handed == IInv => ConnInv /\ NoMixing /\ SuccessIsTrue
<1> SUFFICES ASSUME IInv PROVE ConnInv /\ NoMixing /\ SuccessIsTrue
    OBVIOUS
<1>1. ASSUME loop = "none", rows # "open", ~bad, ~strayed, link = "up"
      PROVE  inbox = <<>> /\ saved = NoMessage /\ txn = server.txn
    <2>1. QuietInv
        BY <1>1 DEF IInv, Phases
    <2>2. inbox = <<>>
        BY <1>1, <2>1, OnlyFatal DEF IInv
    <2> QED BY <1>1, <2>1, <2>2 DEF QuietInv
<1> QED BY <1>1 DEF IInv, ConnInv, InStep, NoMixing, Phases, SuccessIsTrue

(* What a loop is sent it knows what to do with, and it reads on until the *)
(* server is ready: of every text, with any number of requests and rows.   *)
THEOREM Invariance == Spec => []IInv
BY Start, Inductive, PTL DEF Spec

(* A connection that is handed to the next user holds nothing of the last, *)
(* and the driver and the server agree on the transaction (conn.go: every  *)
(* loop reads to ReadyForQuery, and notes its status).                     *)
THEOREM ConnSound == Spec => []ConnInv
BY Invariance, Handed, PTL

(* A method reads what answers its own request, until rows are closed      *)
(* before the second result of a text (conn.go rows.Close).                *)
THEOREM NoneMixed == Spec => []NoMixing
BY Invariance, Handed, PTL

(* A method reports success only of a request that the server ran to its   *)
(* end, and a commit only if it was one (conn.go Commit, simpleExec).      *)
THEOREM SuccessHolds == Spec => []SuccessIsTrue
BY Invariance, Handed, PTL
=============================================================================
