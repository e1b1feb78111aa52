-------------------------------- MODULE Website --------------------------------
(***************************************************************************)
(* The website's server (src/website) and its access to the database       *)
(* (src/lib/database.go) through database/sql, which is external: a pool   *)
(* of connections, opened when they are needed, and a query tried again    *)
(* when the driver says ErrBadConn.  What a connection does is PqConn's;   *)
(* here it is live, or dead with the server it was made to.                *)
(*                                                                         *)
(* Texts are sequences of atoms: a separator, a key, a value.  The values  *)
(* of the environment make up a connection string that lib/pq takes apart. *)
(***************************************************************************)
EXTENDS Integers, Sequences

CONSTANTS
    Atom,           \* what texts are made of
    Environments,   \* the values of PGUSER ... PGDATABASE, by option
    Client,         \* those that ask for pages
    Path,           \* the paths they ask for
    MaxIdle,        \* the idle connections sql.DB keeps (2)
    MaxTries,       \* how often it tries a query (10)
    MaxOutages,     \* bound on the outages of the database
    None            \* no option, no view

Option == {"user", "password", "host", "port", "dbname", "search_path"}

Value == Seq(Atom) \cup {None}
Parsed == [Option \cup {None} -> Value]

ASSUME AtomAssumption ==
    Option \cup {" ", "=", "'", "\\", "tweetwatcher", "localhost", "5432"} \subseteq Atom
ASSUME EnvironmentsAssumption == Environments \subseteq [Option \ {"search_path"} -> Value]
ASSUME BoundsAssumption == MaxIdle \in Nat /\ MaxTries \in Nat /\ MaxOutages \in Nat
ASSUME RetryAssumption == MaxTries > MaxIdle    \* the constants of database/sql
ASSUME NoneAssumption == None \notin Option \cup {"live", "dead"} \cup Parsed

VARIABLES
    env,        \* the environment's values, None where one is not set
    opts,       \* the options of lib/pq, None if they do not parse
    started,    \* NewDatabase has returned and the server listens
    up,         \* the database answers
    outages,    \* how often it stopped
    rows,       \* the views that have a row
    idle,       \* the free connections: how many are live, how many dead
    req         \* each client's request

vars == <<env, opts, started, up, outages, rows, idle, req>>

-----------------------------------------------------------------------------
(* parseOpts.  Where it is in the text, what it has of a key and a value,  *)
(* and the options set so far.  What is not an option of ours is kept      *)
(* under None: the server would refuse it.                                 *)
Getenv(v) == IF v = None THEN <<>> ELSE v

Between(o) == [at |-> "between", key |-> <<>>, value |-> <<>>, opts |-> o]

Set(p) ==
    LET o == IF Len(p.key) = 1 /\ p.key[1] \in Option THEN p.key[1] ELSE None
    IN  [p.opts EXCEPT ![o] = p.value]

(* The next atom.  A key ends before a space or a =; a backslash takes the *)
(* next atom of a value as it is; a quote is ended by a quote.             *)
Read(p, x) ==
    LET AtKey == p.at = "between" \/ p.at = "key"
        AtValue == p.at = "before" \/ p.at = "bare"
    IN  CASE p.at \in {"between", "equals", "before"} /\ x = " " -> p
          [] p.at = "key" /\ x = " " -> [p EXCEPT !.at = "equals"]
          [] AtKey /\ x \notin {" ", "="} -> [p EXCEPT !.at = "key", !.key = Append(@, x)]
          [] (AtKey \/ p.at = "equals") /\ x = "=" -> [p EXCEPT !.at = "before"]
          [] p.at = "equals" /\ x \notin {" ", "="} -> [p EXCEPT !.at = "error"]
          [] p.at = "before" /\ x = "'" -> [p EXCEPT !.at = "quoted"]
          [] AtValue /\ x = "\\" -> [p EXCEPT !.at = "bareNext"]
          [] p.at = "quoted" /\ x = "\\" -> [p EXCEPT !.at = "quotedNext"]
          [] \/ p.at = "bareNext"
             \/ (p.at = "bare" /\ x \notin {" ", "\\"})
             \/ (p.at = "before" /\ x \notin {" ", "'", "\\"}) ->
                [p EXCEPT !.at = "bare", !.value = Append(@, x)]
          [] p.at = "quotedNext" \/ (p.at = "quoted" /\ x \notin {"'", "\\"}) ->
                [p EXCEPT !.at = "quoted", !.value = Append(@, x)]
          [] (p.at = "bare" /\ x = " ") \/ (p.at = "quoted" /\ x = "'") -> Between(Set(p))
          [] p.at = "error" -> p

ReadAll(p, text) ==
    LET after[n \in 0..Len(text)] == IF n = 0 THEN p ELSE Read(after[n - 1], text[n])
    IN  after[Len(text)]

(* A value may end with the text, a key or a quote may not.                *)
ParseOpts(text, sofar) ==
    LET p == ReadAll(Between(sofar), text)
    IN  IF p.at = "between" THEN p.opts
        ELSE IF p.at \in {"before", "bare"} THEN Set(p) ELSE None

\* The defaults of DialOpen.
Default(o) == IF o = "host" THEN <<"localhost">> ELSE IF o = "port" THEN <<"5432">> ELSE None

\* Mutant: the environment is not read again.
EnvironUnread(e) == [o \in Option \cup {None} |-> Default(o)]

(* parseEnviron: what is set, be it empty, goes before the defaults.       *)
Environ(e) ==
    [o \in Option \cup {None} |->
        IF o \in DOMAIN e /\ e[o] # None THEN e[o] ELSE Default(o)]

(* connect: each option is put as it is, a space after it.                 *)
Put(e, o) == <<o, "=">> \o Getenv(e[o]) \o <<" ">>
ConnStr(e) ==
    Put(e, "user") \o Put(e, "password") \o Put(e, "host") \o Put(e, "port") \o Put(e, "dbname")
        \o <<"search_path", "=", "tweetwatcher">>

(* What DialOpen uses.                                                     *)
Opts(e) == ParseOpts(ConnStr(e), Environ(e))

(* The server is the environment's, and finds the views.                   *)
Reaches ==
    /\ opts # None /\ opts[None] = None
    /\ \A o \in DOMAIN env : opts[o] = Getenv(env[o])
FindsViews == opts # None /\ opts["search_path"] = <<"tweetwatcher">>

-----------------------------------------------------------------------------
(* The handlers: which view a path is answered from.                       *)
ViewOf(path) ==
    CASE path = "/tweets/past24hours" -> "V_tweetsPast24Hrs"
      [] path = "/hashtags/past24hours" -> "V_top25HashtagsPast24Hours"
      [] path \in {"/wards/past24hours", "/tweets/ward"} -> "V_tweetsByWardDailyChange"
      [] path = "/hashtags/ward" -> None
View == {ViewOf(path) : path \in Path} \ {None}

-----------------------------------------------------------------------------
Init ==
    /\ env \in Environments /\ opts = Opts(env)
    /\ started = FALSE /\ up \in BOOLEAN /\ outages = 0 /\ rows = {}
    /\ idle = [live |-> 0, dead |-> 0]
    /\ req = [c \in Client |-> [at |-> "none", path |-> None, conn |-> None, tries |-> 0,
                                status |-> 0, excused |-> FALSE]]

(* sql.DB keeps the connection that was used, if it may.                  *)
Free == IF idle.live + idle.dead < MaxIdle THEN [idle EXCEPT !.live = @ + 1] ELSE idle

(* NewDatabase opens lazily and pings; that the ping failed is not told.   *)
Start ==
    /\ ~started /\ started' = TRUE
    /\ idle' = IF up /\ Reaches THEN Free ELSE idle
    /\ UNCHANGED <<env, opts, up, outages, rows, req>>

(* The database stops: its connections are dead.  Every request that is    *)
(* under way is excused.                                                   *)
Stop ==
    /\ up /\ outages < MaxOutages /\ up' = FALSE /\ outages' = outages + 1
    /\ idle' = [live |-> 0, dead |-> idle.live + idle.dead]
    /\ req' = [c \in Client |->
                  [req[c] EXCEPT !.excused = (req[c].at # "none"),
                                 !.conn = IF @ = "live" THEN "dead" ELSE @]]
    /\ UNCHANGED <<env, opts, started, rows>>

Restart == ~up /\ up' = TRUE /\ UNCHANGED <<env, opts, started, outages, rows, idle, req>>

(* A day passes or tweets arrive: a view gets a row, or it has none.       *)
Change(v) ==
    /\ rows' = IF v \in rows THEN rows \ {v} ELSE rows \cup {v}
    /\ UNCHANGED <<env, opts, started, up, outages, idle, req>>

-----------------------------------------------------------------------------
(* writeResult.                                                            *)
Answer(c, status) ==
    req' = [req EXCEPT ![c] = [@ EXCEPT !.at = "none", !.conn = None, !.tries = 0, !.status = status]]

Ask(c, path) ==
    /\ started /\ req[c].at = "none"
    /\ req' = [req EXCEPT ![c] =
                  [at |-> IF ViewOf(path) = None THEN "none" ELSE "conn", path |-> path,
                   conn |-> None, tries |-> 0, excused |-> ~up,
                   status |-> IF ViewOf(path) = None THEN 200 ELSE 0]]
    /\ UNCHANGED <<env, opts, started, up, outages, rows, idle>>

(* sql.DB gives a free connection, whatever became of it, or opens one.    *)
Conn(c) ==
    /\ req[c].at = "conn"
    /\ \/ \E k \in {"live", "dead"} :
             /\ idle[k] > 0 /\ idle' = [idle EXCEPT ![k] = @ - 1]
             /\ req' = [req EXCEPT ![c].at = "query", ![c].conn = k]
       \/ /\ idle.live + idle.dead = 0 /\ UNCHANGED idle
          /\ IF up /\ Reaches THEN req' = [req EXCEPT ![c].at = "query", ![c].conn = "live"]
             ELSE Answer(c, 500)
    /\ UNCHANGED <<env, opts, started, up, outages, rows>>

(* The query on a live connection: its one row, which is NULL and does not *)
(* scan when the view is empty.                                            *)
Query(c) ==
    /\ req[c].at = "query" /\ req[c].conn = "live"
    /\ idle' = Free
    /\ Answer(c, IF FindsViews /\ ViewOf(req[c].path) \in rows THEN 200 ELSE 500)
    /\ UNCHANGED <<env, opts, started, up, outages, rows>>

\* Mutant: what breaks the connection is told as an error like any other.
DriverErrorsPlain(c) == {"error"}
\* Mutant: nothing is told, the loop reads on.
DriverErrorsNone(c) == {}

(* What lib/pq tells of a dead connection: ErrBadConn, or, if it broke     *)
(* within a message, which only an answer under way can, an error.         *)
DriverErrors(c) == {"ErrBadConn"} \cup (IF req[c].excused THEN {"error"} ELSE {})

(* On ErrBadConn sql.DB drops the connection and tries the query again.    *)
QueryDead(c) ==
    /\ req[c].at = "query" /\ req[c].conn = "dead"
    /\ \E e \in DriverErrors(c) :
          IF e = "ErrBadConn" /\ req[c].tries + 1 < MaxTries
            THEN req' = [req EXCEPT ![c].at = "conn", ![c].conn = None, ![c].tries = @ + 1]
            ELSE Answer(c, 500)
    /\ UNCHANGED <<env, opts, started, up, outages, rows, idle>>

Handle(c) == Conn(c) \/ Query(c) \/ QueryDead(c)

Next ==
    \/ Start \/ Stop \/ Restart
    \/ \E v \in View : Change(v)
    \/ \E c \in Client : Handle(c) \/ \E path \in Path : Ask(c, path)

Fairness == \A c \in Client : WF_vars(Handle(c))
Spec == Init /\ [][Next]_vars /\ Fairness

-----------------------------------------------------------------------------
Unset(v) == v = None \/ v = <<>>
Plain(v) == ~Unset(v) /\ \A j \in 1..Len(v) : v[j] \notin {" ", "=", "'", "\\"}

(* The values are not quoted on their way through the connection string.   *)
(* An empty one takes the next option for its value, and yet every plain   *)
(* one arrives: what was taken is in the environment that lib/pq reads     *)
(* first.  Only the search path is not, which an empty name can take.      *)
OptionsExact ==
    (\A o \in DOMAIN env : Unset(env[o]) \/ Plain(env[o])) =>
        /\ opts # None /\ opts[None] = None
        /\ \A o \in DOMAIN env : Plain(env[o]) => opts[o] = env[o]
        /\ Plain(env["dbname"]) => FindsViews

Request == [at : {"none", "conn", "query"}, path : Path \cup {None},
            conn : {"live", "dead", None}, tries : 0..MaxTries - 1,
            status : {0, 200, 500}, excused : BOOLEAN]

TypeOK ==
    /\ started \in BOOLEAN /\ up \in BOOLEAN /\ outages \in 0..MaxOutages
    /\ rows \subseteq View
    /\ idle \in [live : Nat, dead : Nat] /\ (up \/ idle.live = 0)
    /\ req \in [Client -> Request]
    /\ \A c \in Client :
          /\ req[c].at = "query" <=> req[c].conn # None
          /\ req[c].conn = "live" => up

(* What the handlers and the pool start from.                              *)
SiteInv == TypeOK /\ OptionsExact

(* A page is refused only if its view had no row, or the database was down *)
(* at some time of this very request, or a value is not plain: connections *)
(* that died in an outage before it never show, and a website that started *)
(* in one is none the worse.                                               *)
FailuresExplained ==
    [][\A c \in Client :
          (req[c].at # "none" /\ req'[c].status = 500) =>
              \/ ViewOf(req[c].path) \notin rows
              \/ req[c].excused
              \/ \E o \in DOMAIN env : ~Plain(env[o])]_vars

(* Every request is answered, whatever the outages left in the pool.       *)
AlwaysAnswered == \A c \in Client : req[c].at # "none" ~> req[c].at = "none"
=============================================================================
