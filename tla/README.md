# A TLA+ development of air3

air3 serves private S3 objects through a public gateway. The **edge gateway**
(`cmd/edge-gateway`) accepts public HTTP requests; **private connectors**
(`cmd/private-connector`) next to the object store open no port. For each
request the edge registers a *pending request* under a random id, publishes a
*ticket* over NATS and holds the client's connection. One connector takes the
ticket, calls S3, and pushes the response into the edge's private *ingest*
listener, which copies it into the client's connection. An upload goes the other
way: the connector asks the edge's *upload-source* endpoint for the body of the
public request and gives it to S3.

This directory models that machinery in TLA+, checks it with TLC on small
instances, and proves the safety of its central parts with TLAPS.

## Inventory

| part | state | operations | what is hard |
|---|---|---|---|
| pending registry, `internal/pending/registry.go` | map from id to entry (token, claim flag, deadline, target, stream) | `Register`, `StartIngest`, stream `Write`/`CloseWithError`, `Cancel`, `Expire` | one lock for the map, none for the notifications that follow; clock read before the lock; removal by id |
| response sink, `cmd/edge-gateway/response_sink.go` | started, completed, result | `Start`, `Write`, `Finish`, `Cancel`, `Wait` | `Write` checks under a lock and writes outside it; four parties race for one result |
| public handlers, `cmd/edge-gateway/main.go` | the stack of `ServeHTTP` / `serveS3API` | register, publish, wait, cancel, answer | what was committed when the wait ends; publish errors after delivery |
| ingest handler, `internal/ingest/handler.go` | one call | claim, copy, close, acknowledge | the acknowledgement must agree with what the client got |
| upload sources, `internal/uploadsource` | map, claim flags, `sync.Once` per body | `Register`, `Claim`, `Cancel`, the watcher, the call's guard goroutine | four kinds of goroutines end one body |
| worker pool, `cmd/private-connector/main.go:108-205` | queue, closed flag, two wait groups | `Handle`, `work`, `CloseAndWait` | a channel closed while senders may be at work |
| ticket handling, `cmd/private-connector/main.go:295-620` | one call per ticket | validate, fetch, send | failures of S3 and of the sender, deadlines |
| persistent senders, `internal/ingestsmux`, `internal/ingestquic` | slots with a shared session, closed flag | `Send`, `openStream`, reset, `Close` | resets and closes of a session that others use |
| ingest transports, `internal/ingeststream`, `ingesttcp`, `ingestsmux`, `ingestquic`, both sides | one stream a call, in a connection or a shared session | header, body, acknowledgement | bodies of unknown length, closes that look like an end, a receive buffer that streams share |
| NATS client, `internal/natsclient` | connection | publish and flush, subscribe, drain | a flush that times out after delivery |
| tickets, public paths, S3 classification, `internal/tickets`, `publicpath`, `s3api/operation.go` | none | which operation and object a request is; which tickets are valid | the same rules stated in four places; escapes, empty segments, default buckets |
| S3 fetcher, `internal/s3fetch` | none | validate, call S3, map errors | lost replies and retries of the SDK |
| URL signing and SigV4, `internal/signing`, `s3api/sigv4.go` | none (a clock) | sign, verify | what a signature covers, when it holds, escaping |
| configuration, `internal/config` | none | `LoadEdge`, `LoadConnector` | two programs that read the same settings, each in its own way |
| aws-chunked, `s3api/awschunked.go` | a reader | read | the declared length |
| mTLS, SDKs, deployment | none of their own | calls of libraries | — |

How they interact: the public handler calls the pending registry, which calls
back the sink (the entry's target) and closes its stream; ingest handlers call
the registry and through the stream the sink; both end in the one
`ResponseWriter` of the client. The upload registry holds the body of the same
public request. Over NATS and HTTP the edge and the connectors share nothing but
the id, the token and the deadline in the ticket.

What makes each part correct:

- *registry*: one stream per request; a canceled request cannot be claimed; what
  is closed, canceled or returned is out of the map.
- *sink*: one result, never changed; the connector and the handler learn the same.
- *handlers*: one answer per client, never none; failed only for its own
  deadline; the wait ends.
- *uploads*: a body is read by one connector and closed once, at last; nothing is
  left running or registered.
- *resolving a request*: S3 is called for the object the path names and for nothing
  that one of the allowlists, switches or signatures forbids; routed and direct
  servers take the same requests; what the client is told was done or not done was.
- *worker pool*: no send on the closed queue; what is accepted is handled, once,
  before a clean close is reported.
- *persistent senders*: an open session is always one of a slot's, none outlives
  `Close`, a dead one is replaced, no object's stream is cut because of another,
  and nobody waits for a lock or for credit for ever.
- *transports*: a send that succeeds has delivered everything; the edge ends a
  response as complete only when it is; both sides learn of the other's failure.
- *signatures*: what is served was signed, as it is and recently enough; what was
  signed is served in time.
- *configuration*: an environment that edge and connector both accept makes a pair
  that meets and that allows its own defaults.

The hazards this leads to are listed, each with its line and its properties, under
`hazards` in PROJECT.json.

## Modules

| module | extends | models |
|---|---|---|
| `ResponseSink` | | the sink's operations as actions on a request |
| `PendingRegistry` | `ResponseSink` | the registry, the streams, and the sink they write to |
| `PendingRegistry_proofs` | `PendingRegistry` | its invariants, proved |
| `EdgeRequest` | `PendingRegistry` | handlers of both public APIs, NATS publish, ingest calls, deadlines, leaving clients |
| `EdgeRequest_proofs` | `EdgeRequest`, `PendingRegistry_proofs` | its invariants and the safety of its refinement, proved |
| `HeldResponse` | | the abstract promise made to a public client |
| `UploadSource` | | upload registry, its handler, watcher and guard, and the public handler's part |
| `UploadSource_proofs` | `UploadSource` | its invariants, proved |
| `WorkerPool` | | the ticket worker pool and how `run` uses it |
| `WorkerPool_proofs` | `WorkerPool` | its invariants, proved |
| `SessionPool` | | the persistent smux and QUIC senders: slots, sessions, retries, `Close` |
| `SessionPool_proofs` | `SessionPool` | its invariants, proved |
| `Tickets` | | the ticket and which tickets are valid |
| `S3Requests` | `Tickets` | what the edge makes of a request: operation, object, refusal, ticket or direct call; the S3 client's validation |
| `Config` | `S3Requests` | what edge and connector make of their environments |
| `TicketPath` | `Config` | one request of either API through edge, connector and S3, as configured |
| `TicketPath_proofs` | `TicketPath` | its invariants, proved |
| `IngestTransport` | | sends of the connector and their handlers at the edge, over all transports |
| `IngestTransport_proofs` | `IngestTransport` | its invariants, proved |
| `UrlSigning` | `S3Requests` | making and verifying signed URLs |
| `SigV4` | | verifying SigV4 in header and query |
| `PublicAccess` | `UrlSigning`, `SigV4` | signers, time, changes on the way, and the edge's verdict |
| `PublicAccess_proofs` | `PublicAccess` | its two invariants, proved |
| `MC*` | each of the above | the instances for TLC, with their symmetry sets |

Conventions. An action is one atomic section of the code: what happens under a
lock, between two blocking calls, or in an unlocked access that another thread
may race with. A program counter per actor (`pc`, `hpc`, `cpc`, ...) says where
it is. Errors are a small set of names (`Results`), one for each error the code
tells apart. Each module gives the operators of the code, then `Next`, the
fairness, the type invariant, and the properties. Definitions whose names begin
with `Slip` are plausible mistakes in the code, one for each property: when the
definition after it is replaced by it, the property is violated, which shows that
the property depends on that piece of the code. They are not part of the
specification.

### PendingRegistry and ResponseSink

`Reqs` are public requests (and their sinks, entries and tokens, one of each per
request), `IDs` request ids, `Calls` calls of `StartIngest` with the stream they
may be given. `entries` is the registry's map. `Register` is `Registry.Register`.
`StartIngest` takes two steps, as in the code: `ReadClock` (the call of `now`
before the lock, remembering which deadlines had passed then) and one of the
locked outcomes (`ClaimMissing`, `ClaimExpired`, `ClaimRejected`, `ClaimFails`,
`ClaimAccepted`). `Cancel` and `Expire` detach an entry under the lock
(`Detach`), and `NotifyStream` and `NotifyTarget` are the calls that follow
without it. `Write` is check, begin, write and end: the write to the client lies
between two critical sections. `CloseWithError` closes the stream, finishes the
sink (which keeps a result that came first), and removes the id from the map.

Bytes are counted in chunks; a HEAD request (`HeadReqs`) writes nothing.
`lateWrites` counts writes to the client that happen after the result is known.

### EdgeRequest and HeldResponse

Adds the handlers. `Arrive` registers under a fresh id (`randomToken`); `Publish`
gives the ticket to NATS, and `FlushFails` may come after that; `WaitEnds` and
`WaitTimesOut` are the two cases of `sink.Wait`; then come the cancel, the look at
the sink (`Decide`), the answer (`Answer`), the return, and the deferred cancel
(`ReturnCancels`, `Unwind`). `s3` says which of the two APIs a request came through, where they differ.
An ingest call (`Dial`) may use any ticket that was published, with the good token
or another, any number of calls per ticket: NATS may lose a ticket, and
redelivery or a second connector are both covered. `framed` says whether the body
carries its length or an end mark; an unframed one that breaks looks like one that
has ended.

`HeldResponse` is the abstract promise: each request goes from held to streaming
to served or broken, or from held to refused or dropped, and never stays held.
`View` maps `EdgeRequest` to it and `KeepsItsPromise` is the refinement. It
promises nothing (`void`) for requests whose publish failed, because of the
finding below.

### UploadSource

A source is the body of one public upload. Threads are the public handler, the
watcher of its context, the handler of a connector's call, and the guard of that
call. All of them end the source through `terminate`, a `sync.Once` that is
modelled as such (`EnterOnce`, `PassOnce`: later callers wait for the first).
`http1` tells the two kinds of body net/http has apart, and is either from the
start: with HTTP/1, `Close` waits for a `Read` under way, with HTTP/2 it does not.
The handler's wait for its result is abstracted to "at any time while holding":
`EdgeRequest` says when that is. `Registry.Expire` has no caller in the program
and is not an action.

### WorkerPool

Every ticket has one call of `Handle`; the three cases of its `select` are
`Enqueue` (which panics on a closed channel, as in Go) and the two of `GiveUp`.
The closing goroutine of `CloseAndWait` is `CloseJobs` and `WorkersDone`. `run`
may fail to subscribe, may be stopped at any time, and waits with a timeout that
may strike at any time. `sub.Drain` is modelled as returning with calls of
`Handle` still to come.

### SessionPool

The slots of `ingestsmux.Sender` and `ingestquic.Sender`, each with its session
and its lock (`holder`), the `Send` calls with their contexts, the retry of
`openStream` with its reset, `Close`, and sessions that die. `quic` says which of
the two senders it is, and is either from the start. They differ in three ways,
each in a definition of its own: which errors are followed by a reset and a retry
(`SmuxRetries`, `QuicRetries`), where they look whether they are closed
(`SmuxEnterFails`, `SmuxDialled`, `QuicBeginFails`), and that `OpenStreamSync`
waits for credit with the slot locked (`HasCredit`) where smux's `OpenStream`
does not wait. The credit of a QUIC stream is back only when the edge has read the
stream to its end (`StreamCompletes`): it does so where the length of the body is
unknown or the body ends early, and does not for a whole body of known length
(`internal/ingestquic/server.go:169` stops at the length, and the sender ends its
stream after the acknowledgement) or a call it refuses. Which it is is left open, so
that a stream may keep its credit as long as the connection lasts. The dial and the look at `closed` that follows it in the smux
sender are steps of their own, because `Close` sets the flag without the lock.
An `OpenStream` of smux that fails by its time-out counts as a failure of the
session. The rest of `Send` is one step, `StreamEnds`.

### IngestTransport

Each call of `Send` has a job: a body of some blocks, whose length its metadata
gives or does not. `client` is where the sender is (`sending`, `awaiting` the
acknowledgement, `ok`, `failed`), `server` where the edge's handler of the call
is, `up` and `down` what each side sees of the other's direction, `edge` the
public request. `transport` is any of the four, the same on both sides, and they
differ in definitions of their own: `HasRoom` (who holds up whom), `AfterGivingUp`
(what the edge sees of a sender that gave up: an abort over http, a clean end over
the framed ones), `Together` (which streams share a connection's fate) and
`SendFails` (where a refusal is noticed while the body is still being written).
`IsWhole` is the test of `copyBody`: a body of known length by its length, another
by the end of the stream. `SessionReset` is what `SessionPool` calls `Reset`, seen
from the streams. The registry is one step here (`StartIngest`), and its request
may end at any time (`EdgeEnds`).

### Config

`LoadEdge` and `LoadConnector` as functions from an environment (which settings
are set, to what) to a configuration, or `Nil` where the loader returns an error;
`EdgeOf` and `ConnectorOf` add what `run` asks before it serves. Settings keep
their names; texts are sequences of words as below. Values that only tune (sizes,
times, workers) are in range or not. `TicketPath` starts from environments
(`Deployments`), so that allowlists, switches, servers, subjects and transports
that meet in it are those the loaders make, never records put together by hand.
A connector takes tickets of the subject it listens on, and its answer arrives
only if the edge listens for its transport (`Send`, `OpensUploads`).

### UrlSigning, SigV4 and PublicAccess

`UrlSigning` has both sides of a signed URL: `SignURL`, by `cmd/signurl` (which is
`internal/signing`) and by the Go package with its short paths, and `ValidateURL`
with what `validatePublicRequest` adds on ranges. The canonical string is really a
text of words, the lines `Line` of its fields one after the other, since whether two
claims can come to one text is a question here. How a number is written is the
constant `Digits`. A character that a path must escape is a word, and
so is its escape, and that one's. `SigV4` has `VerifySigV4` for both forms, with
each query parameter the set of values it is given. In `PublicAccess` somebody
with a secret, the edge's or another, signs once; what arrives is that, or it
with up to two fields changed; the clock goes on, and the edge serves or refuses.
HMAC and SHA-256 are taken to be injective.

### Tickets, S3Requests and TicketPath

These follow *what* is asked, where `EdgeRequest` and `UploadSource` follow *when*.
The first two are operators only: `ValidTicket` is `Ticket.Validate`, `S3Refusal`
and `S3Job` are the two outcomes of `resolveS3Request`, `PublicRefusal` and
`PublicJob` those of `validatePublicRequest`, `TicketOf`, `FetchRequest` and
`DirectRequest` the structures the handlers fill in, `FetchValid` is
`s3fetch.validateRequest`. `TicketPath` puts one request through them. Its steps
are the edge's decision (`Refuse`, `HeadBucket`, `ServeDirect`, `NotAllowed`,
`InvalidTicket`, `Publish`), the connector's (`Take`, with the three ways it may
go, and `OpenUpload`), the S3 client's (`Call`), what S3 makes of it (`S3Does`,
`S3Declines`), the answer (`Send`) and, at any time, `Deadline`.

Texts (paths, keys, buckets, names) are sequences of words (`Text`) in which `/`, an
escaped slash `%2F` and `ctl`, a control character, are words of their own, and so
are a space, its escape and the escape of that (`Marks`): the rules on names tell
nothing else apart. Which texts are bucket names or server
aliases is a constant. Lengths count words. The body of an upload is three
numbers: its `Content-Length`, the decoded length it declares, and how much is
really sent; `Delivered` is what the decoder lets through. A list of parts
is read to its closing tag, so that one whose body is not of its declared length may
be found whole or not (`PartsRead`). A SigV4 signature
either verifies or not here (`auth`); a signed URL is what was signed (`signature`);
`PublicAccess` looks into both.

Left out because they cannot differ: the version, ids, tokens and URLs of a
ticket, which the edge always makes well formed, and the comparison of lengths
at `cmd/private-connector/main.go:321`, since the edge sets both lengths from one
field. A client that asks for the names an answer shows makes a path of them by
`AsPath`, which is a client's and not the code's. S3 is outside the code: it may do or decline any call it gets, and lose
any reply.

## Runs

| run | instance | question |
|---|---|---|
| `registry` | 2 requests sharing 1 id, one of them HEAD, 2 calls, 2 chunks | Is the registry and sink safe under every interleaving? |
| `edge` | 1 request of either API, 2 calls, 2 chunks | Is a client answered once, fully and truthfully, whatever connectors do? |
| `edge_live` | 1 request, 2 calls, 1 chunk | Is each request done with by its deadline; is `HeldResponse` refined; is each ingest call answered? |
| `uploads` | 1 upload, 2 calls, 1 chunk, a body of either kind | Is a body sent whole and closed once, and do uploads, goroutines and bodies end? |
| `workers` | 5 tickets, 2 workers | Is the pool safe, does everything accepted get handled, and does closing end? |
| `sessions` | 3 sends, 1 slot, 3 dials, 1 fault, 1 stream of credit, either sender | Is a session ever lost, or open after `Close`; is a dead one replaced; does everybody come to an end? |
| `transport` | 2 sends at once, over each transport; 2 blocks of known length beside 1 of either kind; window 1, 1 fault | Do sender and edge agree on what was delivered, and does every send end? |
| `ticket_path` | 1264 requests on 5 edges with 5 connectors; 10 requests on each of 232 environments read by both (62 of which the edge accepts, 39 the two together) | Is S3 called for what is allowed and named, do routed and direct servers agree, are answers true, does one environment make a pair that fits? |
| `public_access` | 4 edges, 2 signers, 48 claims, 120 S3 requests, 4 hours, up to 2 changes | Is what is served signed, and what is signed served? |
| `listing` | as `ticket_path` | Do the keys a listing shows name what they are shown for? No: a finding. |
| `signed_url` | as `public_access` | Is every URL that was signed served? No: a finding. |
| `uploads_http3` | as `ticket_path` | Can a connector open uploads whatever the transport? No: a finding. |

The runs say `CHECK_DEADLOCK FALSE` because each of these systems may stop: every
request is served and every call is over.

### Bounds and why they are enough

- *Two calls* are the fewest that race for a claim; a third meets the same two
  outcomes as the second (the claim flag is set, the entry is gone).
- *Two requests under one id* are the fewest for confusion between them; with
  fresh ids two requests do not interact except through the map.
- *Two chunks* give a write before, at and after a cancel or a breakage; one,
  which is sent or not, is enough where the question is who ends.
- *Two workers and five tickets* keep both workers busy and the queue (of two)
  full while one caller waits for room.
- *Three sends and one slot*: one has the credit, or has used it up, one waits for it with the lock,
  and one waits for the lock (as does `Close`). Slots share nothing but `closed`
  and `next`, so that one is enough to meet on; the proofs are for any number. Three dials (`MaxDials`) are one for
  each send, and when they are used up a dial can only fail; one fault
  (`MaxFaults`) is all that `StaleIsRetried` allows the network.
- *Two sends* share a session, one with a body that does not fit the window of one
  block, so that one is held up by the other; a failure of a connection and a reset
  are the same fault at different ends, and one of them ends every stream there is.
- *Environments*: around one that both programs accept, each setting that either
  loader looks at takes values that are absent, empty, good and bad, and those that
  depend on each other (allowlists and default bucket, the two names of a flag, server
  name and template, transport and files) all combinations.
- *`public_access`*: the clock goes to `MaxTime = 3` hours, beyond every expiry and on to
  the next day (`DayLength = 2`), with a skew of 1 and at most 2 for presigned
  requests, each with requests below, at and above. Two changes are the
  fewest with which text can move from one signed field to the next.
- *The requests of `ticket_path`* are every operation (and every malformed one) on
  paths of one to five words with an escaped slash, space or percent sign, an empty, a
  dot or a control segment; bodies that are whole, short, too long or badly declared, in every
  payload mode; ranges and listings good and bad; signed URLs for this or another
  object, method or range. The edges are one server and several, with and without
  default buckets, signing, mutations and a direct server; the connectors differ in
  server, allowlists and switches. `MaxKeyLength = 4`, `MaxListKeys = 2`,
  `MaxPartNumber = 2` and `MaxCompleteBody = 2` stand for 1024, 1000, 10000 and
  1 MiB, with requests below, at and above each.
- `lateWrites` and `closes` count up without a bound of their own; the bodies are
  bounded and so are they.
- `CancelErrors` in the edge runs are empty or all errors: `EdgeRequest` does not use the
  open `Cancel` of the registry's environment, its handlers cancel.

### Fairness

- Handlers, goroutines and removers that have begun go on (weak fairness of each
  one's next step): the Go scheduler is fair and none of them waits for anything
  but what the model shows.
- Deadlines pass. Publishing is bounded by the flush timeout.
- Nothing is assumed of connectors for `KeepsItsPromise`:
  they may never come and may stop in the middle. `EveryCallIsAnswered` states its
  own assumption, `IngestFairness`: an accepted call goes on, because its
  body is sent or its connection breaks; the connector's own context has the
  ticket's deadline.
- In `uploads` a read of the public body returns: the client sends or leaves.
  With an HTTP/1 body a client that does neither holds up `terminate`, and with it
  the handler's deferred `Cancel`, beyond the deadline; the property says nothing
  of such a client.
- In `workers` the handling of a ticket ends (its context has a deadline); nobody
  has to stop the connector.
- In `transport` what a sender that failed or a handler at the edge can do it does, and the
  context of a job ends (its ticket has a deadline). That S3 delivers, that blocks
  arrive or that the edge's deadline strikes is not assumed.
- In `sessions` a send that has begun goes on: its dial and its stream end by the
  deadline of its context at the latest. The context of a send that waits to open its
  stream ends (`handleTicket` gives it the ticket's deadline); that credit comes back
  is not assumed, and without this deadline `SendsAndCloseReturn` fails. A `Close` that
  has begun goes on. Nobody has to call either.

Every actor of these models is used once (a request, a call, a ticket, a send), so
what must eventually happen is stated as what must hold from some point on
(`<>[]`).

## Findings

1. **Listed keys have lost a slash** (`listing`, `ListedKeysResolve`). With several
   servers and no default bucket, the prefix `demo/` of the shown keys is trimmed to
   `demo` at `cmd/edge-gateway/main.go:675` and then put before each key as it is:
   `demo` and `cat.jpg` come out as `democat.jpg`. The tests of `internal/s3api`
   (`operation_test.go:230`, `xml_test.go:175`) have the slash in the prefix.
2. **Signed URLs are escaped twice** (`signed_url`, `SignedURLIsServed`).
   `appendObjectPath` escapes each segment and `SignURLForModeWithOptions` puts the
   result into `u.Path` (`internal/signing/hmac.go:119`), which `u.String()` escapes
   again: the key `a b` gets the path `a%2520b`, the edge reads the key `a%20b` and
   answers 403. Keys with nothing to escape are served (`SignedIsServed`). Only the Go
   package's short paths with a server are escaped once.
3. **No uploads over HTTP/3** (`uploads_http3`, `UploadsOpen`). The connector fetches
   upload bodies by HTTP over TCP (`cmd/private-connector/main.go:235`); with
   `AIR3_INGEST_TRANSPORT=http3` the edge's only private HTTP server speaks HTTP/3
   (`cmd/edge-gateway/main.go:1100-1103`). Reads work, routed writes of bodies end in 503.

Five more disagreements are stated as properties of the modules and have no run of
their own; naming one of them as `INVARIANT` (the temporal ones as `PROPERTY`) in
the cfg of the run given here shows its counterexample.

- `SingleAnswer` (run `edge`): a flush may time out after NATS has the ticket;
  `ServeHTTP` writes its 503 with the entry still claimable, and `serveS3API` does not
  ask whether the sink has started. `docs/architecture.md:155` promises a clean error.
  Without a publish error the property holds (`SingleAnswerOncePublished`).
- `StartedIsNotCutOff` (run `edge`): `docs/configuration.md:202` describes
  `AIR3_PENDING_TTL` as the time for a connector *to start*; the code bounds the whole
  response by it (`cmd/edge-gateway/main.go:254`).
- `StreamsUndisturbed` (run `sessions`): the smux sender resets the slot's session after
  any error of the first attempt, its own context's included
  (`internal/ingestsmux/client.go:148`), and closes a healthy session with the streams
  of other objects on it, which `docs/architecture.md:153` calls persistent. The QUIC
  sender is not affected (`QuicUndisturbed`).
- `IdleIsReusable` (run `sessions`): the edge never reads a whole body of known length to
  the end of its stream (`internal/ingestquic/server.go:169`), nor a call it refuses
  (`:135`), so QUIC never gives back the credit of these streams, 100 by default. From
  then on every send on the connection waits in `OpenStreamSync` with the slot locked
  until its own deadline (`SendsAndCloseReturn` says that it ends then); the error is its
  context's, which does not reset the connection, and only the end of the connection, by
  its idle timeout or a failure, helps. `docs/configuration.md:220` calls the pool's
  connections reusable.
- `MismatchNeverSucceeds` (run `ticket_path`): an aws-chunked body that is too long is
  stored cut off and the client told of success, because what lies behind the declared
  length is only read when the connector has its whole body. A list of parts whose body
  is too short, but only behind its closing tag, completes its upload as well
  (`internal/s3api/xml.go:164` reads no further). The S3 compatibility
  design (`docs/superpowers/specs/2026-07-06-s3-compatibility-design.md:74-76`) says
  that the PUT aborts.

`docs/configuration.md:5` says that most lists drop empty entries; the loaders refuse a
list that has one (`internal/config/config.go:901`, `:936`), and so does `Config`.

Things a reader of the configuration should know, none of them contradicted by a doc: an
edge without `AIR3_ALLOWED_BUCKETS` takes a default bucket which the allowlist it then
has, `demo`, refuses; `S3_{server}_BUCKET` in lower case is a default bucket that is not
compared with the server's allowlist; `config.validateBucket` takes names that
`tickets.ValidateBucket` refuses; a named connector and an edge for one server that read
one file never meet on a subject; a connector without a name listens on `air3.tickets`,
which is also the subject of a server called `tickets`. `OneFileFits` is stated so that
these remain outside of it, each by a condition of its own.

## Proofs

`PendingRegistry_proofs` proves for any sets of requests, ids and calls and any
`MaxChunks` (assumption `RegistryAssumption` and `SinkAssumption`: the sets do not contain `None`
and `MaxChunks` is a natural number) that `IndInv` is inductive. The properties
alone are not: that a closed stream's request is out of the map needs that the
map holds a request under its own id and that a call has the id of its target
(`MapInv`, `CallInv`); that a cancel lets at most one write through needs that
there is one stream per request, and that a write that has begun has seen no late
write before it (`WriteInv`); that there is one stream needs that a target is
marked claimed (`CallInv`). From `IndInv` follow `TypeOK`,
`OneStreamPerRequest`, `ClosedIsForgotten`, `SuccessIsAgreed`,
`CancelStopsWrites` as invariants, and `ResultIsFinal` and `CanceledIsUnavailable`
as action properties. The proof has one lemma per action or per group of actions
that change the same variables, and `NextInd` combines them.

`WorkerPool_proofs` does the same for any tickets and any finite non-empty set
of workers. `PoolInv` there relates the queue to the tickets that are in it
(`QueueInv`), says that a ticket is in one place at a time (`PlaceInv`), and
follows the closing: the queue is closed only when no caller is left, and the pool
has drained only when every worker has left an empty queue (`CloseInv`). From it
follow `TypeOK`, `NoSendOnClosed`, `HandledOnce` and `DrainedIsQuiet`.

`SessionPool_proofs` is for either sender and any number of sends, slots, dials,
faults and credits. The argument is about the locks: who is at work on a slot holds
its lock (`LockInv`), so that the session which a dial replaces is still the one
that was found dead (`DialInv`), so that no open session is dropped from its slot
(`NoOrphans`). `Close` leaves slot after slot empty, and as `closed` was set before,
no send takes a lock of such a slot again (`CloseInv`); hence `ClosedForGood`.

For the retries `SendInv` comes on top of it: a session is in one slot, so that the
session a reset closes is not another slot's; and each attempt that meets a dead
session is paid for by a fault of the network, as long as no context, dial or `Close`
is to blame (`RetryInv`). Hence `StaleIsRetried`. `QuicInv` follows a QUIC send from
the look at its connection to the end of its stream with the lock held: without a
fault it never has a reason to reset, hence `QuicUndisturbed`.

`IngestTransport_proofs` (`TransportAssumption`: jobs have a size in `Nat`, the window
is positive) proves `TransportInv` for any calls, jobs and faults, over each transport.
`AckedIsWhole` and `FinishedIsWhole` are about two sides that see each other only by
`up` and `down`; the invariant says what these mean: a stream ended before the whole
body was written only where it is framed and its sender failed or was cut off
(`UpInv`), and an acknowledgement is on its way only from a finished response to a
connector that is not cut off (`AckInv`).

`UploadSource_proofs` (`UploadAssumption`: `None` is no source, the bodies' bound is a
natural number) proves `UploadInv`. Who has asked for the end of a source has taken it
out of the map or is its one claimant, or that one's guard (`TermInv`, `ClaimInv`): so
what is in the map and unclaimed is not being terminated, which gives
`DoomedIsUnavailable` as an action property. One thread at most is at work in a
source's `sync.Once` and nothing is closed before it is done (`OnceInv`), which gives
`BodyClosedOnce`. Only the claimant reads, so that what it has sent and what is unread
add up to the body until an error (`CopyInv`), which gives `CopiedIsWhole`; and what is
in the map is held by its handler (`SourceInv`), which gives `ReturnedIsUnlinked`.

`EdgeRequest_proofs` stands on the registry's proof: each step of the gateway is a step
of `PendingRegistry` or leaves its variables alone, so `IndInv` holds here too, from
the same assumptions. `EdgeInv` adds four things. The place of a handler says what it
has learned: an error is there exactly from where it is handled on (`Place`). A request
is out of the map before its handler looks whether the response has started, so that
nothing starts it after that look (`Out`); this is what makes
`SingleAnswerOncePublished` and `NothingLeftBehind` true. Every error that handler,
registry or sink were told is evidence of what caused it (`Evidence`), for
`OnlyTheDeadlineFails` and `NeverSilent`. And what the client's writer has taken and
what its one call still has add up to the body until the copy sees an error
(`Bytes`), for `AckIsTrue` and `SuccessIsWhole`.

The same module proves `EdgeImplementsHeld`: `EdgeSpec` implements `Held!Safety`, the
promise of `HeldResponse` without its fairness. The initial states map to the initial
state; for each kind of step (before the wait, from the wait on, a result of the sink, a
claim, what nobody sees) there is a lemma that `View` of its request does not change or
goes one step of `HeldResponse`, and that `View` of every other stays as it is. The
steps that could map to no abstract one (a stream that starts for a request already
refused, a handler that returns with nothing sent) are the ones that `EdgeInv` excludes.

`TicketPath_proofs` has no bound on deployments, requests, texts or limits.
`PathInv` says that the job is the edge's own reading of
a request it does not refuse (`Resolved`, `JobInv`), that what is fetched is made from
that job or from its ticket, which the connector has accepted, and that what is called
is what was fetched (`Fetched`, `CallInv`); hence `OnlyWhatIsAllowed`. `PathsAgree` is a
matter of the rules alone: the lemmas state what `Ticket.Validate` (`ReadTickets` to
`AbortTickets`) and `validateRequest` (`FetchOf`) ask for each of the nine operations, and
which fields an accepted job can have (`JobShape`), and `JobsAgree` and `TicketFetched`
compare them operation by operation. For `AnswersAreTrue` (the declared length is claimed of what is stored, that is of
`PutObject` and `UploadPart`: the body of a completion is parsed and not stored) both the
status S3's side has and the one the client has got are true of what was done (`AnswerInv`); it needs that an
answer given before the end is one of 503 and 504. `TypeOK`, which no run checks, is
proved too (`TypeCorrect`).

`CallsAreNamed` and `NamesResolve` are about texts of any length. `NamedInv` says that a
call names what the job does; what is left is about the edge's own operators. Wherever an
induction would be the way, the proofs take the least counterexample instead
(`LeastNumber`): the first slash of a text, the first piece at which two texts differ.

- *Paths.* A text cut at its first slash and put together again is itself (`CutTogether`),
  and unescaping goes word by word, so that it makes no difference whether a path is
  unescaped in pieces or whole (`UnescapedJoin`, `PlaceTogether`).
- *Parts.* That distinct part numbers have an order, and that it keeps every part, rests
  on the rank of a part, the number of parts with a smaller or the same number: ranks are
  distinct, so that they are all the places of the list (`Ranks`, `RanksAreAll`).
- *Names shown.* An unescaped text, escaped again by the client (`AsPath`, for spaces and
  percent signs), unescapes to itself (`AskedAgain`); a bucket or alias has nothing to
  escape (`NamesStay`), so that the cut comes where it was (`PathOfName`).

For `OneFileFits` the edge serves with what `LoadEdge` has made of its environment
(`ConfigInv`). Loaders that look at the same settings agree on switches, transport and
allowlists (`EdgeLoaded`, `ConnectorLoaded`). A template with `{server}` in it renders two
servers apart (`RenderInjective`): the pieces of one rendering are each no longer than
those of the other, so that equal sums have equal parts (`Halves`, `GrowsSame`); what
`FlattenSeq`, a recursive function of the community modules, comes to is shown in
`Growth` and `Flattened`. For a default bucket it matters that a suffix is the suffix of
the alias it spells (`DefaultsFit`).

The assumptions, each checked by the runs on their instances:

| assumption | says | because |
|---|---|---|
| `NamesAssumption` | bucket names and aliases are texts, not empty, with nothing to escape | `ValidateBucket`, `ValidateAlias` |
| `SuffixAssumption` | an upper-case alias is its own suffix | `EnvSuffix` |
| `LimitsAssumption` | part numbers have a natural number as limit | a constant of the code |
| `RequestsAssumption` | paths and ETags are texts, lengths integers; a plain body ends at its `Content-Length` | HTTP |
| `DeploymentsAssumption` | the template of the subjects is a text | it is a setting |
| `NilAssumption`, `JobsAssumption` | `Nil` is no operation, job or record of something done | it stands for absence |

`PublicAccess_proofs` is for any edges, claims, unsigned requests, changes and clock.
`AccessInv` says that what was issued was signed by somebody for one of the claims or
requests, that what is requested is that, as it was or altered on its way, and that the
verdict is the edge's on it. For URLs the heart of `ServedWasSigned` is that two claims
with one signed text are for the same object, method, range and time (`SameClaims`): the
fields up to the range are printable, so that a line ends where it seems to (`Lines`);
and where only one claim has a server, each field would be read as the one before it and
the range of one would be the time of the other, which is not written as a range is
(`ShiftedObject`). For SigV4 what the verifier
hashes of a request is compared with what the signer did (`SameHeaderCanonical`,
`SameQueryCanonical`). `SignedIsServed` is the same the other way round: nothing on the
way of what is unchanged is refused, and the path that was made of server, bucket and
key is split into these again (`PlaceOfPlain`).

| assumption | says | because |
|---|---|---|
| `NamesAssumption` | as above | |
| `RangesAssumption` | byte ranges are printable texts, not empty | `ParseByteRange` |
| `ClaimsAssumption` | URLs are signed for texts, keys with nothing in them that looks escaped and has no escape of its own here, printable ranges; times are written apart, and not as a range is | the words of the model; decimal digits against `bytes=` |
| `UnsignedAssumption` | a request has its fields, and none of a signature, before it is signed | |
| `ChangesAssumption` | a change may put in any path, range or text and any signature but one with the secret of an edge | HMAC cannot be guessed |
| `SignedAssumption`, `AbsentAssumption` | a signature is not absent; what stands for absence is no number or bucket | |
| `SigV4Assumption` | skew, expiry and length of a day are natural numbers | constants of the code |

Only model-checked: everything under fairness, which is out of the prover's reach, that
is the liveness half of `KeepsItsPromise`, `EveryCallIsAnswered`, `UploadsEnd`,
`AcceptedIsHandled`, `HandleAndCloseReturn`, `SendsAndCloseReturn`, `FailureIsNoticed`
and `SendsReturn`. Every invariant and every action property of the passing runs is
proved.

## Plan

Done: registry and sink, edge requests with the abstract promise, uploads, worker
pool, the persistent senders and the transports, tickets and the path of a request
to S3 from the configuration on, signed URLs and SigV4; proofs of every invariant and
action property of these, and of the safety of the edge's refinement.

What could follow:

1. The aws-chunked reader call by call, implementing `Delivered`, `BodyIsShort` and `PartsRead`.
2. The worker pool composed with the edge: a ticket that is accepted is answered.
3. Listeners and shutdown of the edge, with requests in flight.

## Not modelled

- Everything without a state of its own that calls a library: the making of TLS
  configurations and HTTP clients, the TypeScript and Python packages (they repeat
  `internal/signing`), the headers of S3's results and the pages of its listings.
- How a direct response is streamed: `serveDirect` and `serveS3Direct` are in
  `TicketPath` up to the status they send.
- The bytes of the framed header (MessagePack) and the syntax of the Authorization
  header, of lists, durations and URLs in settings; the wording and layout of errors,
  XML, headers and logs; HMAC and SHA-256 themselves.
- The aws-chunked reader and the XML decoder call by call: `Delivered`, `BodyIsShort`
  and `PartsRead` say what they come to.
- The listeners' start and shutdown in the edge; reconnection of NATS.
- Deployment scripts, benchmarks and container files.
