# websocket-labs: TLA+ models, model checking and proofs

This directory models the programs of `websocket-labs`: small servers and
clients that show servlet and Spring MVC asynchrony, WebSockets and message
push, and the two messaging libraries with which its web page listens.  None of
them has tests beyond two load scripts that look for status 200, and all of them
are about interleavings: request threads, timer and I/O threads, callbacks,
container timeouts, connections that break and pages that are reloaded.  Those
interleavings are what the modules describe.

Paths below are relative to `src/`; `R/` stands for
`spring-mvc-asynch/src/main/java/se/callista/websocketlabs/springmvc/asynch/`,
`T/` for the same directory of `spring-mvc-asynch-teststub` followed by
`teststub/`.

## Inventory

| Part | State it keeps | Operations | Interacts with |
|---|---|---|---|
| Routing controller, `R/RoutingController.java`, `R/RoutingCallback*.java` | static `lastRequestId`, `concurrentRequests` (AtomicLong), plain static `maxConcurrentRequests`; one DeferredResult per asynchronous request | three routes, `updateStatistics`, `onCompleted`, `onThrowable`, `onSuccess`, `onFailure` | Tomcat pool and timeout, RestTemplate, AsyncHttpClient, AsyncRestTemplate, the test stub |
| Processing controller (test stub), `T/ProcessingController.java`, `T/ProcessingTask.java` | the same three counters; one static `java.util.Timer`; one task and DeferredResult per request | two handlers, `updateStatistics`, `calculateProcessingTime`, `ProcessingTask.run` | Tomcat pool and timeout, the timer thread |
| Byte counter and number writer, `ws-two/.../nonblocking/*.java` | per request: `readFinished`, `totalBytesRead`, `counter` | `onDataAvailable`, `onAllDataRead`, `onWritePossible`, `onError` | servlet 3.1 container, one call at a time on changing threads |
| Blocking byte counter, `ws-two/.../blocking/ByteCounter.java` | per request: `totalBytesRead` | `doPost` | the container's input stream |
| Load and slow clients, `ws-two/.../client/*.java` | static `okCnt`, `errorCnt` | one thread per POST, slow body | the byte counters |
| WebSocket server, `ws-one/.../server/*.java` | per channel a handler with its own `RPi` | start-up in sequence; `status`, `on`, `off`, `fibonacci` requests | GPIO files, the JMS publisher |
| Raspberry Pi, `ws-one/.../rpi/**` | LED state in the stub or in the GPIO value file | `isLedOn`, `setLedOn`, `fibonacci` | the value file of one pin, shared by all handlers |
| Broker, publisher, subscriber, `ws-one/.../amq/*.java` | one JMS session shared by the event loops | `publish`, `onMessage` | ActiveMQ |
| Static file server, `ws-one/.../http/file/*.java` | none but the file system | the decision tree of one GET, If-Modified-Since | browsers' caches |
| WebSocket client, `ws-one/.../client/*.java` | handshake promise | handshake, send, close | the server |
| Browser page, `ws-one/src/main/resources/web/js/{app,websocket,stomp_push,mqtt_push}.js` | the three connection objects, the text areas | connect, submit, subscribe, show an answer, a notification or an event | web socket server, broker, both libraries |
| MQTT client library (third-party), `web/js/mqttws31.js` | queue, sent and received messages, message identifiers, pingers, timers, localStorage | `connect`, `send` at quality 0 to 2, `subscribe`, `unsubscribe`, `disconnect`, restore after a reload, encoding and decoding | the broker, the application's callbacks |
| STOMP client library (third-party), `web/js/stomp.js` | subscriptions, identifiers, heart-beat timers | `connect`, `send`, `subscribe`, `unsubscribe`, `disconnect`, transactions and acknowledgements, frames in both directions | the broker |

What is hard in it:

* the unsynchronised compare-then-write of `maxConcurrentRequests`;
* increments that no `finally` takes back (`timer.schedule`, `execute` throwing);
* `onCompleted` decrementing before anything in it can throw, and
  AsyncHttpClient calling `onThrowable`, which decrements again;
* the gap between `isSetOrExpired` and `setResult`, in which the container may
  time the request out;
* one timer thread for all requests, ended by any exception of any task;
* a bounded pool whose threads the blocking routes keep while they wait;
* `int` arithmetic on client supplied bounds;
* the order of the container's listener calls, pauses of the output at any
  number, and errors after which nobody completes the request;
* handlers that each read, set and read again an LED they may share, on several
  event loops, with one publisher that may fail in between;
* a file looked at five times while it may be replaced, and dates in whole
  seconds;
* MQTT messages in flight in memory, in localStorage and at the broker, while
  connections, acknowledgements and the page itself are lost; callbacks that
  call the client they are called from; timers of connections that have ended;
* lengths counted in bytes of UTF-8 while strings are UTF-16, one byte of length
  that becomes two at 128, hexadecimal in the storage;
* STOMP heart-beats negotiated from two pairs of numbers, each named from the
  other side, and messages of a subscription that was just ended.

What makes the parts correct: the counters say how many requests are in progress
and each request is answered once (`spring-mvc-asynch*`); a whole body gets the
right answer once, piece by piece, and every failed request still ends
(`ws-two`); a web socket request is as good as atomic, subscribers are told what
clients are told, and a 304 means that the copy is good (`ws-one`); messages
are delivered as their quality of service promises, what goes over the wire is
what the protocols specify, live connections are kept and dead ones noticed, and
the page shows everything once, in order, and says when it has lost a connection
(`web/js`).

## Modules

| Module | Models | Extends |
|---|---|---|
| `AsyncServlet` | what the controllers need of Tomcat and Spring: the bounded pool, the DeferredResult and its `setResult`, dispatch, the 503 after the asynchronous timeout, `afterCompletion` | |
| `RequestStatistics` | the counters both controllers keep, line for line the same code in both; compare and write of the maximum are two steps | `AsyncServlet` |
| `ProcessingTime` | `calculateProcessingTime` in wrapping int arithmetic | |
| `Processing` | the test stub: handlers, timer thread, tasks | `RequestStatistics`, `ProcessingTime` |
| `Routing` | the router: three routes, the callbacks, the provider as environment | `RequestStatistics` |
| `RequestGauge` | abstract: a gauge of work in progress in a service that answers once and finishes the work before it hands out a result | |
| `RequestBody` | the slow client: a body that arrives byte by byte, ends, or breaks off | |
| `NonBlockingServlet` | the servlet 3.1 container's side of non-blocking I/O, and the listener code that `ByteCounter` and `NumberWriter` share | `RequestBody` |
| `ByteCounter`, `NumberWriter` | the two non-blocking servlets | `NonBlockingServlet` |
| `BlockingByteCounter` | the blocking servlet | `RequestBody` |
| `ByteCounters` | both byte counters under the same client, composed of the two modules | `ByteCounter`, instance of `BlockingByteCounter` |
| `WholeBodyAnswer` | abstract: after the whole body, the pieces of the answer in order, then the end; or the request is abandoned | |
| `LedServer` | web socket handlers, event loops, LED, publisher | |
| `LedRegister` | abstract: requests that take effect on their LED at once | |
| `FileServer` | the static file server's GET, a browser's copy, someone who installs pages | |
| `MqttClientImpl` | `ClientImpl` of `mqttws31.js`: every method, socket event and timer as an operator on the client | |
| `MqttDelivery` | that client with an application, a network, page reloads and a broker | `MqttClientImpl` |
| `ReliableDelivery` | abstract: what quality 1 and 2 promise to sender and receiver | |
| `MqttWire` | encoding and decoding of MQTT packets, UTF-8, the hexadecimal storage | |
| `MqttApi` | `Messaging.Client` and `Messaging.Message`: the checks of arguments and the packets the calls make | `MqttWire` |
| `StompFrame` | marshalling and unmarshalling of STOMP frames, and the frames of all calls | |
| `WireFormats` | calls, packets, reloads and frames against the two protocols' specifications | `MqttApi`, instance of `StompFrame` |
| `StompClient` | `Client` of `stomp.js`: methods, events, heart-beat timers as operators on the client | `StompFrame` |
| `PushPage` | the page: `Sock`, `StompPush`, `MqttPush`, `App`, both client libraries, the server and the broker | `StompClient`, instance of `MqttClientImpl` |
| `MCProcessing`, `MCRouting`, `MCLedServer`, `MCMqtt`, `MCWireFormats`, `MCPushPage` | instances for TLC (the others need none) | |
| `RequestStatisticsProofs`, `ProcessingProofs`, `RoutingProofs`, `ServletProofs`, `LedServerProofs`, `FileServerProofs`, `MqttDeliveryProofs`, `PushPageProofs` | theorems | |

### Controllers

`pc[r]` is the position of the handler of request `r`: "count" before
`concurrentRequests.getAndIncrement()`, "compare" and "update" inside
`updateStatistics`, "work" before the sleep, the call or the scheduling,
"return" when only the return is left, "async" when the thread has left and the
DeferredResult decides.  A request occupies a pool thread from `Arrive` until
"async" or "done"; the container's dispatch and timeout need a free thread too.

Every access to a shared variable is a step of its own; local computations are
joined to the next access.  `maxConcurrentRequests` is a `long` without
`volatile`; the model interleaves its reads and writes one at a time, which is
what the 64-bit JVMs these programs run on do.  Two handlers race when both have
compared and neither has written; whoever writes second wins.  The history
variable `raced` remembers that it happened, `peak` the highest value that
`concurrentRequests` had, and only `MaxLostOnlyToRace` and `MaxExact` use them.

`dr[r]` is the DeferredResult: "open", then "set" by `setResult`; or "timedOut"
from the moment the container sends 503 until `afterCompletion` makes it
"expired".  In that gap `isSetOrExpired` is still false, and a result stored in
it ("late") goes nowhere.  The dispatch with which `setResult` ends may throw
there (`LateDispatchThrows`): Spring asserts that the request's asynchronous
context still exists.

`task[r]` (test stub) and `call[r]` (router) are the positions of the
`TimerTask` and of the call with its callback.  The processing time matters only
by its sign, so there is no clock: tasks may run, and timeouts strike, in any
order, which includes every order real delays produce.

### Servlets of ws-two

`arrived` bytes of `body` have reached the server, `consumed` of them the
listener.  The container calls one listener method at a time; `readOwed` and
`writeOwed` say which calls it owes, because a listener was set or `isReady()`
was FALSE.  `isReady()` may be TRUE or FALSE wherever the contract leaves it
open.  No method is called after the request has ended or after `onError`, and
`onDataAvailable` not after `onAllDataRead`.  `pc` tells which loop the running
method is in; one pass of a loop is one step.

`inTime` is chosen once: does everything get through within the container's
asynchronous timeout?  If not, `Timeout` may end the request at any moment.
Properties that promise an answer are about requests that are in time; what
happens to the others is `FailedEndsByTimeout` and the abstract *abandon*.

`ByteCounters` gives the same body to both servlets: the steps of the client are
common to both, every other step belongs to one of them.  The variables of the
blocking servlet carry the prefix `b`.

### ws-one

`LedServer` has a handler per connection.  `loop` is its event loop, which takes
a frame only when it is done with the frames of its other channels; `ledOf` is
the place where its RPi keeps the LED, its own field or the shared `Pin`.
`was` is `currentLedStatus`; a request reads the LED, sets it, reads it again
("confirm"), publishes and writes.  GPIO errors are caught and become the
answer; an error of the broker is not, and takes with it the answer and the
frames that Netty decoded in the same read.

`FileServer` has one file and one browser.  `versions` are the versions ever
installed, `nodes` the version in each inode, `path` the inode that the name
leads to: a version may overwrite the file or replace it, and the open file
`fd` outlives its name.  `quiet` says that the response has not been disturbed;
only properties use it.  It starts when the file is opened, and ends (`Disturbs`)
if the name changes before `setDateAndCacheHeaders` looks at it again, or if the
open file is overwritten in place before its last chunk is read.  All other
changes, before the file is opened, or a replacement or removal while it is sent,
count as harmless, and the properties say that they are.

### The JavaScript of the page

JavaScript runs a call, an event handler or a timer to its end before anything
else happens, so one turn is one action.  Within a turn the code changes fields,
sends and calls back in a certain order, and an exception cuts the turn short.
`MqttClientImpl` and `StompClient` therefore hold no actions: each method is an
operator from the client before it to the client after it, with `out`, what it
did to its sockets, `calls`, the callbacks it made, and `threw`.  A callback that
calls the client again does so in the middle of the turn.  The modules that
compose them own the variables: `client` (MQTT) in `MqttDelivery`, `stomp` and
`mqtt` in `PushPage`.

In `MqttClientImpl` the fields have their names in the source (`queue` is
`_msg_queue`, `sent` and `received` are `_sentMessages` and `_receivedMessages`,
`stored` the records in localStorage); a timer is a Boolean, since it may fire at
any time, and a message is its type, identifier and body.  In `MqttDelivery`
`net` is the current socket with what it carries in both directions and what
earlier sockets still carry (`residual`); `session` is what the broker remembers.
The broker follows MQTT 3.1 and is external, as are the network and storage of
the browser.  `requested`, `handed`, `settled` and `results` are history.

In `StompClient` time matters, because heart-beats are about periods: a timer is
the time left until it fires, and `Tick` lets time pass for everybody.  A frame
takes at most `MaxDelay`; a `punctual` server sends its beats in time.

`PushPage` has the page as one user of the STOMP client and, in other
configurations, an application that also unsubscribes, subscribes again and
disconnects, because the page does none of these.  The text areas hold lines with
the newest first, as the page does; of the debug area only the lines that report
an event are kept.

`WireFormats` makes one call, decodes one packet or restores one message per
step.  A byte is a number, a string the sequence of its UTF-16 units.  `connect`
takes two steps, as in the code: `Connect` is the call, which checks its options
and asks for a socket; `Open` is `_on_socket_open`, which encodes CONNECT and
throws if the identifier, the will or the password has no UTF-8 form, long after
the call has returned.  The expected side (`PublishPacket`, `ConnectPacket`,
`First`, `StompText`, `Utf8`) is what the specifications of MQTT 3.1 and of STOMP
1.0 and 1.1 say.  The code departs from it in three places, which the properties
name as exceptions:

* PUBREL should have quality of service 1 in its first byte, 0x62 (`First`);
  `encode` (`mqttws31.js:249-322`) has no case for it and sends 0x60.
  `CallsEncodedAsSpecified` is about the rest of the packet only.  The broker's
  own PUBREL, which the client reads, has the right byte.
* In STOMP 1.1, which the client offers before 1.0 (`stomp.js:361`), a colon,
  line feed or backslash in a header is written with a backslash in every frame
  but CONNECT and CONNECTED (`Escaped`); `toString` and `_unmarshallSingle`
  (`stomp.js:42`, `63-64`) know nothing of it.  With a colon in a destination or
  a message identifier the two ends therefore mean different headers, if they
  speak 1.1; in 1.0 colons survive.  `FramesSurvive` is about both versions
  (`last.version`) and excepts `EscapeNeeded`.
* `content-length` counts bytes; `stomp.js:46` counts UTF-16 units, too few as
  soon as a character of a body that is sent takes more than one byte
  (`WideSent`).

Taking any of the exceptions out makes TLC refute its property.  Two more things
are not covered: STOMP's rule for a header that is given twice, and the comment
in `connect` (`mqttws31.js:1551-1553`) that a will which is no text is refused:
the property it reads does not exist, so `connect` accepts any payload, and so
does the model.

Definitions headed *Mutation* or *Mutant* are the source with a plausible bug in it.  No
specification uses them; each shows, put in place of its original, that a
property notices the bug.

## Runs

| Run | Question | Bounds |
|---|---|---|
| `processing` | Is the counter exact in every interleaving, what can lose the maximum, who can be refused, what kills the timer, is every request answered, does the stub implement the gauge? | 3 requests of either kind, 2 threads, three pairs of bounds: maximum below minimum, negative, overflowing |
| `routing` | Which answers can a client get, and from whom; when is the counter overdrawn and the maximum lost; does the router implement the gauge otherwise? | 2 requests on any routes, a third, blocking one beside a blocking one; 2 threads, every outcome |
| `byte_counters` | Is the count complete and written once in every order of the container's calls, do both servlets answer, and the same? | bodies up to 4 bytes |
| `number_writer` | Do the numbers survive every pattern of pauses? | 5 numbers, bodies up to 2 bytes |
| `led_server` | When is a request atomic, do answers follow notifications, is every frame answered? | 2 connections on the same or on different event loops, one client sending 2 frames, the other 1; stub and pin |
| `file_server` | Which copies may a browser keep, and when may a 304 be wrong? | 3 versions of up to 2 chunks, 5 clock ticks, 2 of them to the second |
| `file_server_comment` | Does 304 mean that the file has not been modified, as the class comment says?  (It does not.) | the same |
| `mqtt_delivery` | Is any message handed over twice or taken for delivered without having been, does the storage hold what memory holds, does everything arrive? | messages of quality 2 and 1 out and 2 in, 3 connections, 2 faults (lost connection, reload, refusal) |
| `mqtt_connection` | What is left behind when a connection ends, and is the application told exactly once of every attempt and of every end? | one message out, one that cannot be encoded, one that finds no room in the storage; 2 connections, 2 faults, 1 subscription; applications that call back, disconnect or have no callbacks; one address or a list of hosts |
| `mqtt_refusal` | Is the state deleted only by a successful connection, as the documentation of `cleanSession` says?  (It is not.) | as `mqtt_delivery`, 2 connections |
| `wire_formats` | Are calls encoded, packets decoded, messages restored and frames transmitted as the protocols specify, and illegal arguments refused, but for the three exceptions? | see `MCWireFormats`: characters of 1 to 4 bytes, a lone surrogate, remaining lengths around 128, each option legal and illegal |
| `push_page` | Are live servers kept and dead ones noticed, is every notification shown once and in order, is every error and every loss reported exactly once? | 6 configurations of user and server, 2 notifications per topic, 2 requests, 2 faults, intervals of 2, delays up to 1 |

Two threads and two requests are enough for a task to be queued while another
task is between its check and its `setResult`, and for a callback to overtake its
controller.  They are not enough to wait for a full pool, nor to race on the maximum:
a handler records what the counter was before it entered, the first one records
0 and never writes, so two that write are at least the second and the third.
Both runs therefore have three requests for two threads: two blocking requests
keep both threads while the third waits, and with one request under way that
needs no thread, two handlers race and the smaller value may win.  Requests are
interchangeable, so the instances start them in one order of their kinds and
arguments only (`InOrder`).  In `MCRouting` the third request is a blocking one,
and the constraint `ThirdBesideBlocking` lets it come only if another is blocking
too, which is what a full pool and a race take; arrivals are not fair, so this
leaves out no behaviour of the other two.  For larger numbers there are the
theorems about counters, maxima and gauges.  For the servlets, what can happen
at one byte or number can happen at the next; the bounds allow a first, a middle
and a last one, and the theorems cover the rest.  Two handlers are enough to
disturb each other's LED, a second frame to be dropped with the first; for more
there is the theorem.  Three versions allow one before, one during and one after
the response that fills the cache; two ticks to the second, two versions within
a second and across its end.

Two faults lose an acknowledgement, and then what was sent again because of it;
three connections let a message be sent, sent again and settled.  With two
messages out, two identifiers are in use at once and one is reused
(`MaxMessageIdentifier` = 3 makes the client skip those in use).  Two
notifications are the least that can change places, two requests of the page
the least whose answers and notifications overlap.  A heart-beat of 2 and a delay
of 1 distinguish being late from being under way; the servers' pairs are shorter,
longer, and one-sided, so that swapping any two numbers of the negotiation is
noticed.

`CHECK_DEADLOCK FALSE` everywhere: requests, frames, bytes and versions are
bounded, as are connections and faults, and when all are served nothing is left
to do.

### What the runs show that a reader of the code may not expect

* The maximum can stay too small for ever, once two handlers have raced on it;
  it never overstates, and nothing but that race makes it too small.
* A failed call is answered by nobody but the container, with 503.
* A result that arrives while the container times out can end the test stub's
  only timer thread, and with it every later non-blocking request.
* On the Raspberry Pi a client can be told "now off (was off)" in answer to
  "on"; `ImplementsRegister` therefore speaks only of handlers that cannot
  disturb each other.
* A page replaced at the wrong moment stays stale in a browser, confirmed by 304
  on every reload, until it is installed again (`file_server_comment`).
* A connection that the broker refuses deletes the messages that wait for
  delivery, in memory and in localStorage, if `cleanSession` is set
  (`mqtt_refusal`).
* PUBREL is sent with the wrong first byte, and the STOMP client offers a version
  whose escapes and lengths it does not keep (see `WireFormats` above).
* The router is the gauge but for calls whose `onCompleted` throws: each of them
  makes the counter one too low for ever (`Twice`).
* Not a run, but met on the way: `client/expectedResponse.txt` expects 5031
  bytes, `client/request.xml` has 558, so with the files as they are the load
  client logs every answer as an error.

### Fairness

Weak fairness for each request's handler, for each callback, for the container's
treatment of each request, for the timer thread and for each channel's handler:
these are threads of a JVM that nothing stops.  Arrivals, clients, networks and
whoever installs pages are not fair.  The provider is fair only in
`ProviderFairSpec`; the stub earns it with `EveryRequestAnswered`.  Without it a
blocking request keeps its thread for ever (RestTemplate has no read timeout),
and other requests behind it.  A servlet container makes the calls it owes and
times a request out that is not in time; the thread of the blocking servlet runs
while there is something to read.  An event loop comes round to all its
channels; since frames are bounded, weak fairness says as much.

`MqttDelivery.FairSpec` assumes an application that connects again whenever it
can, a network that opens, delivers and closes, and a broker that reads.  Faults
are not fair and are bounded: a message arrives once they stop.  The weak
fairness is written out with the guards of the actions in place of ENABLED,
which TLC would have to find out from a whole turn of the client.

`WireFormats` and `PushPage` need no fairness: that dead servers are noticed is
stated as safety, with the time since their last sign of life.

## What is proved

All theorems hold for every finite set of requests, every pool size and every
value of the other constants, under the named assumptions of the modules.

* `RequestStatisticsProofs`: lemmas for any controller whose steps are the four
  statistics steps or leave them alone (`StatStep`).  `Bounded` is the upper
  half of `MaxLostOnlyToRace`, with what a handler on its way to the assignment
  holds; `Recorded` and `Unraced` are the lower half: before any race, the
  highest value is in the maximum or with a handler that has yet to record it;
  `Alone` says that a pool of one has one handler, which cannot race.
* `ProcessingProofs`, `RoutingProofs`: type correctness; `Phases`, the invariant
  that ties handler, task or call, DeferredResult and answer together and is
  needed because no single property is inductive; from it that clients are
  answered only after the decrement (`ReleasedBeforeOk`); that the
  counter is the number of requests in progress (`CounterExact`), by a lemma
  that classifies every step as one that adds, removes or keeps a request; that
  only a race loses the maximum, which is exact with one thread (`MaxSound`); that
  both implement `RequestGauge`, the router with what it lost to second
  decrements added again (`Twice`).  For the stub also that non-negative minima
  are never refused while the timer lives, and that the timer is lost only to a
  result after a 503; for the router that only a request without a body is
  counted down twice (`TwiceNeverOk`).  `ProcessingProofs` begins with the drawn
  time: unless `maxMs - minMs` overflows it lies within the bounds
  (`DrawnWithinBounds`), and with a non-negative minimum it never is negative
  (`NonNegativeDrawn`).
* `ServletProofs`, for the byte counters: `IInv`, which says for every position
  of the listener what has been consumed, counted and written; from it type
  correctness, that the count is that of the whole body, and that the servlet
  implements `WholeBodyAnswer` for bodies of every size.  A step of either byte
  counter is a step of the non-blocking one's world or leaves it alone
  (`RunsAsAlone`), so `IInv` holds beside the blocking servlet too; with
  `BlockingProgress`, what the blocking thread has counted and written at each
  of its positions, the two never tell different numbers (`ServletsAgree`).
  For the number writer, an instance in the same module, `WriterIInv` adds
  whether the stream is ready; from it `ResumesWhereItPaused`,
  `NeverWritesBlocked` and the refinement.  An instance does not bring its
  module's assumption on `LIMIT` along, so each of these theorems states it.
* `LedServerProofs`: type correctness, in which every frame is pending, being
  handled, or lost, and none is more than one of these; then
  `ServerImplementsRegister`.  Its invariant says what a handler knows at each
  position (`Known`), that handlers which cannot disturb each other never use
  one LED at a time (`Exclusive`), and that until it is published an answer
  tells the status that the request read first and the one the LED has
  (`Truthful`).  `CommittedRight` says that the refinement mapping picks the one
  request that has read a LED; a step is then either `publish`, which is the
  register's request, or changes nothing that the register sees.

  `AnswersInOrder`: a client is told of a LED at most what the topic has told
  the subscribers, in the same order.  `Told` and `Heard` count the two, and the
  invariant bounds the one by the other.
* `FileServerProofs`: `IInv` says what condition the request carries while it
  matters (`Asked`), and that what an undisturbed response has read and dated is
  one version, which the open file still holds as long as there is more to read
  (`Seen`, `OfVersion`; `ChangedSeen` is the case of a change meanwhile);
  `SecondsMonotone` and `DatesGrow` say that whole
  seconds and the dates of versions do not run backwards.  From it type
  correctness, that a copy is the whole of one version with its date unless
  the response was disturbed in one of the two ways named above (`CopiesWhole`),
  and the action property
  `StaleOnlyIfHurried` (`StaleCopies`).
* `MqttDeliveryProofs`, for every set of messages, number of attempts, faults and
  requests, and every application whose callbacks the module describes.  A turn
  of the client may fold over a queue of any length and call the application
  back in the middle, which calls the client again; no property of the runs is
  inductive over such turns.  The invariant has three layers.  `Right` holds
  inside a turn as well as between turns: the timers follow the phase of the
  connection (`TimersRight`), what is queued or kept can be sent (`QueueRight`,
  `Keeping`), the network carries at most one CONNECT and one CONNACK and only
  while they are due (`NetRight`), and each attempt has had the callbacks that
  the phase says (`Answering`).  `Settled` holds when a turn ends: the queue of a
  connected client is empty, and `notify`, with which `disconnect()` waits, waits
  for something.  `Between` says that nothing of the turn is left over.  Each
  method of `MqttClientImpl` has a lemma of the form *from `Right` to `Right`*,
  relative to the callbacks and packets it has issued; the lemmas of the folds
  (`FoldExists`, `FoldWalks`) turn a fold into a walk over its sequence, and an
  invariant of one step of the walk into one of all of it.  From these: no timer
  outlives its connection (`TimersEnd`), nothing waits in a connected client
  (`QueueDrained`), and every `connect()` is answered exactly once, by `onSuccess`
  as soon as it is connected or by `onFailure` when the attempt has ended, and
  every success by one `onConnectionLost` when the connection ends; until the
  answer, the timer is set that ends the attempt (`AnsweredOnce`).  That the timer
  fires is time and fairness, and not part of the theorem.  The page must not be
  left meanwhile, which ends its callbacks with it, nor `disconnect()` be called
  while connecting: it is queued, and `_disconnected` then runs in the middle of
  the CONNACK handler, before `onSuccess`, "several times" as its comment warns.

  `AnsweredOnce` has a hypothesis, `FewMisspelt`: a message of quality 1 or 2 can
  be encoded.  It is needed.  `_requires_ack` keeps such a message before
  `_socket_send` (`mqttws31.js:1255`) finds that it cannot be encoded; from then
  on each CONNACK schedules it again, encoding throws again, and the handler ends
  before it calls `onSuccess`.  With quality 1 for the message that cannot be
  encoded TLC finds a `connect()` that is never answered; the run
  `mqtt_connection` gives it quality 0.
  `StoredIsKept` is about what the storage holds (`StorageMirrorsMemory`).  The
  acknowledgement of a subscription removes whatever memory has under its
  identifier, and leaves the storage alone; so the invariant, `Sound`, follows
  each identifier.  `Memory`: a message is kept under its own identifier, and
  the storage has the publications among them.  `Traffic`: what the client sent
  under an identifier (`Ours`) or the broker's answer to it (`Theirs`) is under
  way at most once in both directions together, the client keeps an entry of
  that kind under it (`Exchanges`), and none is under way before the CONNACK
  (`NoExchange`).  One lemma per method of the client shows that it preserves
  `Sound`, another that the broker answers each packet in kind (`Reacts`).

  The theorem has two hypotheses, which describe where the code fails.
  `Oversized = {}`: the storage has room for every message; otherwise `store`
  throws after memory has been changed.  `[]IdentifiersFit`: no identifier in use
  exceeds two bytes.  Identifiers are meant to start over, but the test for it
  reads a property that does not exist (`maxMessagIdentifier`), so they grow;
  one that does not fit comes back as another's, and an acknowledgement may then
  remove a publication from memory only.  Both hold in all states of
  `MqttDelivery`'s instance, where TLC checks the property.
* `PushPageProofs`, for every browser, server, agreement on heart-beats and delay.
  The invariant has three parts.  `IInv` is about the STOMP client.  `Phases` says
  what the two directions of the connection hold in each phase of the handshake;
  `PongerRight` and `PingerRight` relate the timers to the time since anything
  came or went; `InTime` follows the signs of life of a punctual server through
  the network; `Reports` counts the errors the application was told of.  From
  these: no connection outlives three silent intervals, and the server is pinged
  in time (`SilenceIsNoticed`); a server that keeps the agreed interval, over a
  network faster than the timer's grace, is never given up
  (`PunctualServerKept`); an application's error callback has been called once for
  each ERROR frame that came out of the socket, and once for the end of the
  connection, if it has ended without the application's `disconnect`, neither
  sooner nor more often (`LossIsReported`).  The page gives no error callback and
  hears of neither.

  `Notified` follows every subscription from the call on.  Its SUBSCRIBE frame is
  still under way (`Pending`, and then nothing has been published for it), or the
  broker has taken it: then what was published since is in one row, told up to a
  number `last` and under way after it (`Taken`, `UpTo`).  For this the frames
  under way must be known: a SUBSCRIBE frame is the only one of its name, and an
  UNSUBSCRIBE frame never ends a subscription that exists (`Asked`), which is so
  because names are not given twice (`Names`).  `Shown` counts the text area of
  the page along with the callbacks.  A name that is given up leaves messages
  under way that nobody is told of, which is why `last` is a bound on what a topic
  was told and not the last element of it.  `PageRight` is about the other two
  connections: what the web socket carries continues what is shown (`SockRight`),
  and the MQTT client goes through `MqttConnecting`, `MqttAsking`, `MqttServing`
  and `MqttGone`, in each of which its queue, the broker's link and the lines that
  the page has written agree (`MqttRight`).  From these: a callback is told of
  each notification since the broker took its subscription, once and in order
  (`EachIsTold`); the text areas show what came over their connections, without a
  gap (`AreasShowAll`); and the page says once that its web socket or its MQTT
  connection is gone (`LossIsShown`).

  The assumptions on constants are the modules': `PageAssumption` says what a
  configuration is, `NumeralAssumption` that different numbers have different
  numerals, of which the names of subscriptions are made (`ToString` is the TLC
  module's, of which the provers know nothing), and `DelayAssumption` that the
  network is not slower than the grace which the client gives a server, for those
  configurations only in which the server is said to be punctual.

Folds and recursion.  The library's induction theorems take an operator as a
parameter, which the provers cannot instantiate, but its well-foundedness
theorems take sets.  `FoldLeft` over sequences of known length is unfolded step by
step (`EmitOne`, `ReceiveOne`, `ShownOne`, `PassedOne`, `LoggedOne`, `DrainedOne`
and `BodiesOne` in `PushPageProofs`); over sequences of any length `FoldExists`
shows that the values of the fold after each element form
a function, by `Induction` up to the length of the sequence, which is `WFMin` for
the natural numbers: the least step after which a walk has gone wrong cannot
exist.  A definition with
overlapping CASE arms means an arbitrary one of them, which TLC never shows, for
it takes the first; proving showed several and their arms now exclude each other.
`CHOOSE` of a sorted sequence had to be replaced by a definition whose
n-th element is determined (`Ascending`).

Model-checked only: liveness everywhere; the refinement of `ReliableDelivery` by
`MqttDelivery`, which needs, beyond `Sound`, to know of every message how far its
exchange has come on either side; and `WireFormats`, whose encodings recurse over
bytes.

## Plan

1. (done) Router and test stub, their statistics, the abstract gauge.
2. (done) The servlets of `ws-two`, under a slow client.
3. (done) LED requests and notifications; the file server's cache validation.
4. (done) The MQTT client library: delivery, connections, wire format, calls.
5. (done) The STOMP client library and the page on both of them.
6. (done) The router's gauge, both byte counters and the LED server as theorems.
7. (done) Theorems about the file server, the order of LED notifications and the
   STOMP client's heart-beats and reports.
8. (done) Theorems about the MQTT client's timers, queue and callbacks.
9. (done) Theorems about the page: its notifications, text areas and losses.
10. (done) The theorem about the MQTT client's storage.
11. (done) Exact statements about callbacks, errors, the maximum and copies; the
    wire formats' departures from the protocols as named exceptions.
12. Left: the refinement of `ReliableDelivery` as a theorem; a composition of
    router and stub, in which the provider's calls are the stub's requests; the
    web socket client's handshake promise.

## Not modelled

* Server start-up (one thread, before anything interacts), the unused
  `Subscriber`, the Spring Boot set-up beyond the pool and the timeout.
* The load client: its threads share plain counters that are only logged when
  the load has ended; what it asks of the servlet is the client of
  `ByteCounters`.
* The web socket client's handshake, whose promise is never failed by
  `channelInactive`: the code shows only that, the rest is the library's.
* Directory listings, redirects and refusals of the file server: computed from
  one request without other state.
* Of the MQTT library: the trace log, the wording of errors, the address and
  subprotocol of the socket; of the STOMP library: debug output, receipts
  (nothing asks for one) and login data; of the page: time stamps and alerts.
* The Android date calculator (one synchronous computation), build files, load
  scripts and their generated reports with the chart libraries in them.
