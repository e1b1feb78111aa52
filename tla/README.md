# tweetmap: a verification project

TLA+ models of tweetmap, the program in `src/` that shows geo-tagged tweets of a
city on a live map, the TLC configurations that check them, and theorems about
them that TLAPS proves. The first part takes stock of the system, the second says
how the modules correspond to it and what each check shows, the third what is
proved, the fourth what is left out and what comes next.

## 1. The system

```
Twitter --> lib.ListenToTwitter --> (watcher) --> lib.InitPublisher
                                        |               | ZMQ PUB
                                        v               v ZMQ SUB
                                   PostgreSQL    feed.listenForTweets   lib.InitReceiver
                                        ^               |
                                        |               v hub.messages
                           website (lib/database.go)  feed hub --> websocketHandler --> page
```

| component | state | operations | hard behaviour |
|---|---|---|---|
| feed: hub and websocket handlers (`feed/main.go:17-87, 117-132`) | the map of clients, the broadcast under way, each handler's place and loop counter | add, remove, publish, range over the map, send; write, ping, leave; `/info` | unbuffered channels, goroutines that wait for one another, a map that is ranged over and changed, broken connections noticed late |
| feed: listener (`feed/main.go:88-116`) | the ZMQ socket in use and the frames in it | receive topic, receive body, unmarshal, offer to the hub, reopen | errors ignored, framing lost by one fault, sockets never closed |
| lib: publisher (`lib/network.go:8-60`) with its owner (`lib/example/publisher.go`) | the message under way on the socket, two channels | accept a tweet, marshal, send two frames, report an error, return | both sides can wait for the other; a message half sent |
| lib: receiver (`lib/network.go:62-128`) with its consumer (`lib/example/receiver.go`) | the frames in the socket, two channels | receive two frames, deliver, report, stop | frame alignment, a done channel |
| lib: Twitter listener (`lib/feed.go`, `lib/transform.go`) | the stream in use | request, read, filter, convert (which may panic), report, wait, request anew | streams that break, an owner that leaves |
| database (`database/schema.sql`) | tables of tweets, hashtags and their relation | `insertTweet`, `insertHashtag`, the queries and views | sessions that race, calls half done, borders of periods |
| website: server (`website/*.go`, `lib/database.go`) | a pool of database connections, requests under way | `NewDatabase`, one handler for each path, a query tried again on a dead connection | start without a database, outages during requests, a connection string made from the environment, views that are NULL |
| database connection (`lib/pq/conn.go`, vendored) | the socket, one saved message, the transaction's status | `Exec`, `Query`, `Prepare` and the statement's methods, `Begin`, `Commit`, `Close` | each method has its own loop of reads; errors at every place; more results than one |
| wire format (`golang/protobuf/proto`, vendored) | - | encode, size, decode, merge | bytes cut anywhere, readers built from older types, borders of words |
| website: page (`website/www/src/js`) | list of tweets, markers, timers, websocket | message, timer, close, reconnect, alert | timers that run late, overlapping websockets |
| charts, overlays, API client | none that interacts | drawing, single requests | - |
| watcher | named in `README.md`, not in the repository | | |

What makes each correct, in a line: every browser is sent every tweet from the
moment it is registered, in order; no goroutine waits for ever for one that
waits for it; a loss is told to somebody; each tweet is counted once; what is
put on the page leaves it, at its time; what is decoded is what was encoded; an
answer from the database belongs to the question; every request is answered, and
refused for a cause.

## 2. The modules and the runs

Each component's module holds its `VARIABLES`, `Init`, one action for each step
of the code, `Next`, `Spec` and its properties. Fairness is in `Spec`, or, where
theorems are about `Spec`, added to it in `FairSpec`. A module `MCxxx` gives TLC
its instance. Operators commented "Mutant" are the ways in which each
property is known to fail: with the mutant in place of the definition the run of
the same name reports the property violated.

Unbuffered Go channels appear everywhere. A send and its receive are one action of
both goroutines, whose guard says that both are at that place. A goroutine whose
partner is elsewhere has no action and waits.

| module | models | state and actions |
|---|---|---|
| `FeedHub` | the hub, the handlers, `/info` | `hubPc` is the hub's place in its `select` or its range; `rest` is what the range has not visited; `pc[h]` the handler's place. `AddClient`, `RemoveClient`, `Publish` are the cases of the select, `PickClient`, `Deliver`, `EndBroadcast` the range, `WriteOk/Fail`, `Timeout`, `PingOk/Fail` the handler. A handler stands for its channel. |
| `FeedDelivery` | `FeedHub` with histories | `log`, `start`, `inbox`, `sent`; every action of `FeedHub` with what it adds to them |
| `Broadcast` | the promise to subscribers | no hub, no channel: publish, join, leave, take the next message |
| `FeedListener` | `listenForTweets` | `queue` holds frames, 0 for `"TWEET"`, otherwise the tweet; `Open`, `RecvTopic`, `RecvBody`, each with its failure, `Offer` |
| `TweetPublisher` | `InitPublisher` and the example's owner | `open` counts the `"TWEET"` frames of the message under way, `wire` the messages sent; `Offer`, `Accept`, `TakeError` on the owner's side |
| `TweetReceiver` | `InitReceiver` and the example's consumer | `pipe` holds frames; messages of more than two frames arrive as `TweetPublisher` shows they can |
| `Pipeline` | publisher, network and receiver together | extends both modules; `Carry` takes the next message of the publisher's `wire` to the receiver's `pipe`, or loses it |
| `StreamListener` | `ListenToTwitter`, `ToProtoTweet`'s outcome, and the owners in the example and in `feed_test.go` | `stream` holds what Twitter sent on the stream in use; `oneTweet`, chosen in `Init`, says which owner |
| `Browser` | `Feed.ts`, `ViewModel.ts`, `Map.ts` | the list, markers, timers with the time left, websockets; one callback is one action |
| `TweetStore` | `insertTweet`, `insertHashtag` by several sessions, the queries on hashtags | tables as sets of rows; a call is two steps, as read committed isolation has it. `StartTweet` takes the ward and `now()`, `Look` what is found, into `adding[s]` and `call[s]`; `CommitTweet` and `Commit` make the rows seen, with the time of the start; or `Abort` undoes all |
| `TweetStats` | the views by ward and by hour | each view is the set of its rows at `now`, of what is committed by then; time in ticks, an hour of several |
| `Website` | `main`, `NewDatabase`, `parseOpts` and the handlers, over a pool | `opts` is what lib/pq makes of the connection string, a sequence of the constant `Atom` that it reads one by one (`Read`, `at` says which of `parseOpts`'s loops it is in); `idle` the pool, live and dead; a request takes a connection, queries, tries again, answers |
| `PqConn` | a connection's methods, the server, a link that breaks | `loop` is the loop that reads messages; `asked` the requests that the server has yet to run, of a text one statement at a time (`Serve`), while the loop reads; `inbox` the messages under way, each with the request it answers; `saved` the one message put back |
| `WireFormat` | the vendored protobuf below messages: words, bytes, keys, fields, and their sizes | pure operators, named as the functions; a `Buffer`'s index is the argument `i`, what a read returns is a record (`Read`) or `Fail` |
| `Wire` | `Marshal`, `Size`, `Unmarshal`, `Merge` of the vendored protobuf, on the tweet's type | extends `WireFormat` with what is recursive, messages in messages; the state is a message built field by field, sent in pieces, relayed by readers of older types |

### Runs that pass

| run | bounds | what it shows |
|---|---|---|
| `FeedHub` | 2 connections, one flaky, 2 tweets, a counter of 2 | `HubInv`: registry, goroutines and range agree, the map never changes under the range, and stale entries are only those of handlers that used up their counter. `WedgeCause`: a slow browser alone never wedges the hub. `WedgeIsForever`: once wedged, frozen. Unless it wedges, `JoinersServed` and `DeadPeersDropped`. |
| `FeedDelivery` | the same, 3 broadcasts | `GapFree`, `LagBound`, and `ImplementsBroadcast`, the refinement of `Broadcast` with `members <- clients` |
| `Pipeline` | a batch of 4, 2 errors of the publisher, 2 interrupted calls of the receiver, any message lost | `LossesLeaveFrames`: a tweet lost at the publisher leaves a frame in the next message; `StuckIsForever`; `InOrder`; `OneFaultSilences`: one interrupted call and nothing is delivered again; `AllAccountedFor`: a tweet is with the consumer, under way, or lost in one of three places, two of which tell; `ImplementsReceiver`: the arrivals that `TweetReceiver` assumes are the publisher's |
| `FeedListener` | 5 tweets, 3 sockets, 4 faults, 4 empty tweets | `ListenerInv` (order; nothing skipped on a socket before the second fault), `LostForGood` once the sockets are used up, `ArrivedIsPublished` |
| `StreamListener` | 5 tweets, 3 faults | `ListenerInv` (order, everything told), `GapsAreTold`, `LeftForGood` for the owner that leaves |
| `Browser` | 4 tweets, 3 ticks of life, late timers | `PageInv`: `pop` always removes the tweet whose timer ran and its marker, an alert is followed by a call. `OneConnection`, `TweetsLeave` |
| `TweetStore` | 2 sessions, 2 spellings of one hashtag, 2 tweets, 3 calls, 3 instants | `StoreInv` (whole calls, a row per session at most), `TagQueriesExact`, `WardListsComplete` |
| `TweetStats` | 2 sessions, 3 tweets, in a ward or in none, hours of 2 ticks, days of 2 hours, weeks of 2 days | `WardRowsAddUp` (rows of a day, and of two), `OneBarPerHour`. `BarsSettle`: a bar that was drawn changes only by calls begun in its hour that commit later |
| `Wire` | bytes of 4 bits, words of 4 and 8; the tweet's type and 6 fields of other kinds; 2 older readers; 3 values in any pieces | `Delivered`: pieces amount to their merge, whoever relayed them. `MissingIsTold`, `SizeExact`, `CutsAreHonest`: bytes cut anywhere are refused or are the fields before the cut |
| `PqConn` | every method, 5 texts of up to 2 statements, 4 requests, 2 rows, errors everywhere, a link that breaks in 3 ways | `ConnInv`: driver and server in step whenever the connection is free. `NoMixing`, `SuccessIsTrue`, `CallsReturn` |
| `Website` | 2 clients, 3 paths, 2 outages, environments with one odd or two empty values | `SiteInv`: plain options arrive. `FailuresExplained`: a refusal has a cause within its own request. `AlwaysAnswered` |

Why the bounds are enough. In the hub everything is about one client that is
being sent to while another, or the same one, joins, leaves or breaks: two
connections and two tweets have all these pairs, and the theorems below cover
every number of connections. In the publisher and the receiver a fault shifts
the frames by one and a second one shifts them back; the bounds allow both, on
either side. The listener's three sockets are used up within four faults. Two sessions
are enough for one race; a third would be a second race of the same kind. Days
and hours of two units have both borders and a middle, and two sessions can both
be late for a bar, or overtake one another. A day has a fixed number of hours: the two
days a year when the clocks change, of 23 and 25 hours, are outside of what is
claimed of `TweetStats`. The page's tweets live
three ticks, so that four are listed with different times left, and timers are
let run later than their time. In the wire format words of 4 and 8 bits under
bytes of 4 have what words of 32 and 64 have: values of one and of several bytes,
a sign that is extended, a tag whose key takes two bytes, bits that a long varint
drops. Three values are two pieces that meet in one field and a third that
separates them. A message left in the connection by one request is met by the
next: four requests include a `BEGIN`, a failure, a `COMMIT` and what comes after.
Two dead connections in the pool need an outage under two requests.

Fairness is the least that each liveness property needs, and is stated beside each
specification. The Go runtime runs goroutines that can step, so each place gets weak
fairness. In the hub the cases of a `select` get strong fairness, because Go
picks at random among the cases that are ready, and a case that is ready again
and again is taken. That a websocket write returns is an assumption about
browsers: the code sets no deadline. In `PqConn` the driver reads what has
arrived, and the server runs what it was asked or the link breaks. In
`Website` a request's handler runs; nothing makes the database come back. Nothing
is assumed of arrivals, of faults, of browsers coming and going. In the page time
passes and timers that are due run. The owners are the ones in the repository's
examples, which read their channels.

`CHECK_DEADLOCK FALSE` is set where the bound on arrivals, or the wait that the
module is about, lets the system stop. `FeedHub` and `Browser` go without it, but TLC
can find no deadlock there: `/info` can always be asked and time always passes. That
the goroutines of the hub do not all wait is what `WedgeCause` and the liveness
properties say, and for the page it is `TweetsLeave`.

### Runs that are violated

One run checks a sentence of the repository, and TLC shows the behaviour that refutes it.

- `FeedHub_removals`, `RemovalsHandled` (`feed/main.go:32`): a browser breaks, its
  handler's write fails and it offers its removal, while the hub has taken the next
  tweet and offers it to that very handler. Each waits for the other, and
  the whole feed with them.

### Further observations

Met while modelling, with no violated run of their own. Where code and comments differ:

- `lib/network.go:12` says that the goroutine exits when the tweet channel is
  closed; it first waits for the last tweet's error to be taken.
- `lib/network.go:65` and `lib/feed.go:24` take a done channel that nothing reads.
- `lib/network.go:10-11` promises an error channel. An error raised when
  the owner has begun its next send is never read (`Stuck` in `TweetPublisher`).
- `feed/main.go:79` says that `/info` answers the number of connected clients. The
  size of the map counts handlers that used up their day and returned without a
  `removeClient` as well (third conjunct of `RegistryInv`), and line 82 reads it
  without synchronisation.
- `feed/main.go:59` says "Loop for 1 day", but the counter counts idle minutes only.
- `App.js:231` says two minutes, the timer beside it is of five.
- `insertPicture` (`schema.sql:133`) gives its values to columns in another order
  than it names them.
- `lib/database.go:78` returns no error when the ping fails. The website then
  serves without a database, and `FailuresExplained` shows that it recovers;
  `setupStatements` is never called.

Where the models need an exception to what one would expect:

- A view over no rows is NULL and is answered with status 500 (`lib/database.go:113`).
- An empty `PGDATABASE` takes the next option for its value: the search path is
  lost (`FindsViews`, the exception in `OptionsExact`).
- `rows.Close` of lib/pq stops at the header of a second result and leaves the rest in
  the connection, which is not marked bad (`strayed`, the exception in `NoMixing`).
- A bar of the histogram is not final when it is drawn: `dateAdded` is the time when
  `insertTweet` began (`schema.sql:209`), and one that commits after the full
  hour is added to a bar that was there (`Late` in `BarsSettle`).
- `Exec("COMMIT")` in a failed transaction returns no error; `Tx.Commit` does.
- `conn.Close` of lib/pq returns before it closes the socket when the connection is bad
  or the terminate message cannot be sent (`conn.go:607`). The pool has
  dropped the connection by then; what becomes of the socket is not modelled.
- `Merge` replaces the unrecognised bytes where decoding appends them; required
  fields inside groups are not reported; those with tags above 64 count each
  time they come (`MissingIsTold`); the start of a group is taken for a field of
  any type.
- No write deadline (`feed/main.go:63`): a browser that stops reading without closing
  stops everyone. A stream that broke is not closed and is requested anew
  at once (`lib/feed.go:50`). A point in two wards makes an insert fail
  (`schema.sql:152`). Answers to the online count may overtake one another
  (`ViewModel.ts:100`). None of these has a state that a property could relate.

## 3. What is proved

Theorems hold for every value of the constants that satisfies the module's `ASSUME`s.

`FeedDeliveryProofs`, first about the hub alone, for any finite set of connections and any counter. The inductive
invariant is `IInv == TypeOK /\ RegistryInv /\ RangeInv /\ LoopInv`. `RegistryInv`
alone is not inductive: that a handler which returns after its loop has the full
count needs the bound that `LoopInv` puts on the counter of one that is still in it.
From it follow `Registry` (`HubInv`), `Wedging` (`WedgeCause`) and, with the same
invariant as a premise of the step, `WedgedForever` (`WedgeIsForever`).

Then it adds to `IInv` the facts about histories: the message in
hand is the last of the log, each inbox is a run of the log, what is registered is up
to date but for a broadcast under way (`UpToDate`), and what is written trails what
is received by one at most. One lemma for each action that extends a history,
one for all that do not. It yields `GapFreeDelivery`, `BoundedLag` and `Refinement`,
in which publishing, joining, removing and a good write are steps of
`Broadcast`, and every other action a stutter.

`PipelineProofs` has four parts. About the publisher: `Accounting` (every tweet is on the wire, in hand or told as
an error), `FramesTellLosses` and `StuckForGood`. `LossesLeaveFrames` needs `OpenInv`,
which relates the frames of the message under way to the tweets lost since the last
one that was sent.

About the receiver: `Ordered`, `LossIsReported` and `OneFaultIsEnough`. The
invariant speaks of the goroutine's output and the socket's content as one sequence
that rises (`Rising`), gives each body thrown away an error raised before
it or a frame still to come (`Credit`), and says which frame is next after one
fault (`Phase`).

About both together: the composition implements each of its halves, the publisher
by projection and the receiver by `Refinement`. That the receiver's arrivals are the
publisher's needs `LossesLeaveFrames`: a message carries no more `"TWEET"` frames
than tweets were lost before it. `NothingUncounted` (`AllAccountedFor`) adds an invariant that
counts the bodies on the way, `CountInv`; the theorems about the publisher
and the receiver are used as they are. `EndToEnd` states all of it for
`PSpec`.

About the bytes that `Marshal` hands to `Unmarshal`, for any widths of digits and words
(`WidthAssumption`: bytes divide words), which no finite check covers:

- What is written is read. `VarintRead`, `FixedRead`, `RawRead` and `ZigZagRound` say
  so of words and strings of bytes, `ScalarRead` of every Go type under every encoding
  its fields may have, `KeyRead` of keys. Each lets the buffer hold anything before and
  behind, and says what happens when it was cut there: the read fails.
- Loops over values keep in step. `ValueRead`: one turn of `unmarshalType`'s loop
  reads the key and the value (of a message its bytes, after their length or between a
  group's keys) that `EncValue` wrote, and ends where the next one starts. `PackedRead`:
  the elements of a packed field come back one by one, each where the one before it
  ended, and its length is used up to the byte.
- A whole message keeps in step (`MessageRead`). What `EncFields` writes for any
  message type is read turn by turn: its fields in the order of their tags, each with its
  values in their order, and the last turn ends where the unknown bytes begin. The theorem
  is about the turns of `Loop`; that `Loop` takes them is its recursion, which is TLC's.
- Bytes may be anything. `ScalarHonest`: a scalar read from any bytes ends inside
  the buffer, at least one byte on, is a value of its type, and is the same in every
  longer buffer, so that no value is made up from half of one.
- Sizes are exact. `FieldSize` for the fields, and `SizesExact` for messages within
  messages to any depth. The second is about any two functions on a set of
  messages that are defined by the equations of `EncStruct` and `SizeStruct`, and the
  set must have with a message those inside it. It assumes (`AllFit`) what memory
  guarantees, that no length overflows a word.

The argument starts from the powers of two. The library has no fact about them, but
the number of subsets of a set: one element more doubles it (`PowerStep`), which gives
products and monotonicity by induction. A number is the sum of its digits
(`DigitsValue`), by induction on their number; `EncodeVarint` writes digits and marks
all but the last, and so the first byte that is not marked is the last one.

`FeedListenerProofs`, for any number of sockets, tweets and faults:
`HubGetsWhatCame` (`ListenerInv`) and `OutOfSockets` (`LostForGood`). The code counts
no frames, the invariant does: `Consumed` says how many were taken from the socket in
use, what is left follows from it and from what arrived (`FramesInv`), what is
left is later than what the hub got (`AheadInv`), and before the second fault
`Consumed` is known from the goroutine's place and the number of tweets the hub got
(`Phase`). `LostForGood` needs that a socket never made holds no frame (`DeafInv`).

`BrowserProofs`, for any tweets and delays: `OneWebsocket` (`OneConnection`, inductive
with the types it bounds) and `PageAgrees` (`PageInv`), for which the list must
be shown never to hold a tweet twice (`NoneTwice`): `pop` removes the marker of the
tweet it takes, which is wrong if the list shows that tweet still.

`StreamListenerProofs`, for any number of tweets and faults: `OwnerServed`
(`ListenerInv`), `GapsTold` (`GapsAreTold`) and `StuckForGood` (`LeftForGood`). A
stream is a run of tweets up to the latest made (`StreamInv`), so its length
tells which tweet comes next, and that it is later than all that were read. `GapsAreTold`
is not inductive: `GapInv` also counts the run that the next read will start
(`Anew`) and the error that is on its way (`Untold`).

`DatabaseProofs`, about both modules of the database.
For `TweetStore`, with any sessions, tweets and spellings: `StoreSound` (`StoreInv`),
`TagQueries` (`TagQueriesExact`) and `WardLists` (`WardListsComplete`). Ids are
given out once and each row has one (`Keyed`), so that a committed call is one row of the
relation, tied to one hashtag (`CallsInv`). That races leave no more rows of a
hashtag than there are sessions is not inductive: `RaceInv` also counts the
sessions that looked in vain and are about to insert. The queries join
through pairs of ids, and `Keyed` makes these joins one to one.
For `TweetStats`, with any tweets, wards and lengths of hours, days and weeks:
`OneBar` (`OneBarPerHour`), `SettledBars` (`BarsSettle`) and `WardTable`
(`WardRowsAddUp`). Of the invariant they need
little but the types and that tweets are finitely many. `SettledBars` rests on
`AllDrawn`, that a bar which is not the oldest counts every tweet committed of its hour
(`DrawnWhole`), and on `HourStep`, that of an hour that is over a step adds no tweet or
ends one of its calls under way and adds the tweet of this call. What else is hard
are hours, quotients and remainders of times, and the sum over wards, which is any function that adds up a set
of rows one at a time.

`PqConnProofs`, for any texts of any number of statements, any rows and requests:
`ConnSound` (`ConnInv`), `NoneMixed` (`NoMixing`) and `SuccessHolds`
(`SuccessIsTrue`). What is under way to a loop is described by the letters of
messages, and by nothing of their values but how a request ends: which letter
may follow which (`Follows`), and which ones the loop expects in the state it is in
(`Expects`). A loop that gets none but those never returns before the server is
ready, so a method that returned left nothing (`Phases`, one conjunct for each phase of
a connection: closed, starting, free, asking). All of it is stated while no rows were
closed at the header of a second result (`strayed`): behind that the letters are out
of step, which is the exception in the properties themselves.

`WebsiteProofs`: `SiteSound` (`SiteInv`) and `RefusalsExplained`
(`FailuresExplained`), for any values of the environment, of any length, any
clients, paths and outages, and any pool smaller than the number of tries
(`RetryAssumption`; `database/sql` keeps 2 and tries 10 times). The first
is about what `parseOpts` makes of what `connect` put together. Reading a text is a
recursive function of its length. What is read of a text does not depend on what
follows (`ReadConcat`), so the string is taken an option at a time, and between two of
them the reader is in one of two places (`Good`): before a key, or, after an
empty value, still before a value, with every plain value seen so far in its option. The
second rests on a count: dead connections that a request has met, that it holds and that
are in the pool are no more than the pool keeps (`ReqInv`), unless the database
stopped during that request.
A request that no outage touched has therefore met fewer dead connections
than there are tries when it gets a live one.

The library states induction with a formula as a parameter, which the provers
cannot instantiate. `Induction`, in `WebsiteProofs` and in `PipelineProofs`, states it with
a set in place of the formula, from the fact that every set of numbers has a least one,
and is used for all that is shown of texts and of numbers of any length.

The type invariants of these modules are part of what is proved, and most are not
checked a second time by TLC.

Only model-checked: every liveness property (TLAPS proves nothing about fairness
or `ENABLED`), and the four invariants of `Wire`, whose operators call one another
recursively, through types within types: the prover loses its SMT backend where a
`RECURSIVE` operator is declared, and as functions they would need a domain of all
messages. What they are made of is in `WireFormat` and is proved about, as above.
With TLC alone stay the loop around these reads (fields in any order, unknown ones,
what a group holds, pieces that are merged), relays, and the count of missing fields.

## 4. What is left out, and the plan

Not modelled, by component:

- Payload and looks: tweets' texts and JSON, logging, files, templates, HTTP headers,
  charts, overlays, drawing, the page's type declarations. No state of one
  part depends on them.
- `insertPicture`, whose table no query reads, and `pastDaysTweetGeomByWard`, which is
  one filter.
- ZMQ (`pebbe/zmq4`): bindings that call a C library one function at a time, with
  generated wrappers. A socket is external, modelled as the code uses it:
  whole messages, in order, of which some are lost.
- protobuf: the text format, extensions, maps, proto3 scalars and the generated test
  messages. The tweet's type has none of them and the program calls none.
- lib/pq: TLS, `COPY`, `LISTEN`, arrays and the text encoding of values. The website
  runs queries without arguments, which return one JSON string.
- testify (assertions), OAuth, the router and the websocket library: support code, or
  external.
- The watcher, whose code is not in the repository. `GeoTweet` comes from a package
  that is not either: whether no bytes unmarshal to one is unknown, and
  `FeedListener` takes both answers.

Two thirds of the Go lines in the repository are vendored code of these kinds,
which is why the modules cover a small share of all lines and most of the
program's own.

PostgreSQL, Twitter, `database/sql` and browser timers are external: what a
transaction did is seen from its commit on, all of it or nothing, a query on a dead connection is tried again, a timer runs at its time or
later.

Order of the work, by importance:

1. `FeedHub`, `FeedDelivery`, `Broadcast` with proofs: done.
2. `TweetPublisher`, `TweetReceiver` and `Pipeline` with proofs: done.
3. `FeedListener`, `StreamListener` and `Browser` with proofs: done.
4. `Wire`, `PqConn`, `Website`: modelled and checked.
5. Proofs for `TweetStore` and `TweetStats`, `PqConn` and `Website`: done.
6. Proofs for `WireFormat`, with the induction of `WebsiteProofs`: done.
7. The encoding of values in lib/pq and its connection options, if the website comes
   to use arguments.
