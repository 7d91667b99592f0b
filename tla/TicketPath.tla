----------------------------- MODULE TicketPath -----------------------------
(* One client request on its way through air3: the edge resolves it and    *)
(* refuses it, calls the S3 of one of its direct servers, or publishes a   *)
(* ticket; a connector takes the ticket, validates it again, fetches the   *)
(* upload body from the edge if there is one, calls its S3 and sends the   *)
(* answer; meanwhile the deadline may pass.  How the handler, the pending  *)
(* registry and the streams do their part of this step by step is in       *)
(* EdgeRequest and UploadSource: here their results are atomic, and the    *)
(* subject is what is done to which object, on whose authority, and what   *)
(* the client is told.                                                     *)
EXTENDS Config

CONSTANTS
  Deployments,  \* environments of the edge and of a set of connectors
  Requests(_)   \* the requests made of a deployment

(* HTTP itself cuts a plain body off at its Content-Length.                *)
ASSUME RequestsAssumption ==
  \A d \in Deployments : \A r \in Requests(d) :
    /\ r.path \in Text /\ (r.parts # Nil => r.parts \in Seq([number : Int, etag : Text]))
    /\ r.sent \in Nat /\ r.length \in Int /\ r.decoded \in Int \cup {Nil}
    /\ r.hash # "trailer" /\ r.length >= 0 => r.sent <= r.length

(* The template of the subjects is a text, that of the deployment or the   *)
(* loader's own.                                                           *)
ASSUME DeploymentsAssumption == \A d \in Deployments : Template(d.edge.main) \in Text

(* What is absent is neither an operation nor something done at S3.        *)
ASSUME NilAssumption == Nil \notin Operations /\ Nil \notin [op : MutationOps, bytes : Nat]

(* Nor is it a job.                                                        *)
ASSUME JobsAssumption ==
  \A d \in Deployments : \A r \in Requests(d) :
    EdgeOf(d.edge) # Nil /\ Refusal(EdgeOf(d.edge), r) = 0 => JobOf(EdgeOf(d.edge), r) # Nil

VARIABLES
  env,     \* the environments
  edge,    \* the configuration of the edge
  connectors, \* those of the connectors that have started
  req,     \* the client's request
  job,     \* what the edge made of it
  place,   \* how far it is
  conn,    \* the connector that took the ticket; Nil: none, or a direct server
  fetch,   \* the request for the S3 client
  call,    \* the call the S3 client makes
  effect,  \* what a mutating call has done
  reply,   \* the status the S3 side has for the client
  answer   \* the status the client has got

config == <<env, edge, connectors>>
vars == <<config, req, job, place, conn, fetch, call, effect, reply, answer>>

(* Tickets are valid before time 1.  The clock of the edge shows 0 while   *)
(* it makes one; the connector's own may show more.                        *)
TicketDeadline == 1
ConnectorClock == 0..1

Init ==
  /\ env \in Deployments
  /\ edge = EdgeOf(env.edge) /\ edge # Nil
  /\ connectors = {ConnectorOf(e) : e \in env.connectors} \ {Nil}
  /\ req \in Requests(env)
  /\ place = "new"
  /\ job = Nil /\ conn = Nil /\ fetch = Nil /\ call = Nil
  /\ effect = Nil /\ reply = Nil /\ answer = Nil
-----------------------------------------------------------------------------
(* The edge.                                                               *)
ForHeadBucket == UsesS3API(edge, req) /\ S3Operation(req) = "HeadBucket"
DirectServer(server) == edge.multi /\ server \in DOMAIN edge.direct

Answered(status) == place' = "done" /\ answer' = status /\ UNCHANGED <<config, req, conn, fetch, call, effect, reply>>

Refuse ==
  /\ place = "new" /\ Refusal(edge, req) # 0
  /\ Answered(Refusal(edge, req)) /\ UNCHANGED job

HeadBucket ==
  LET server == IF edge.multi THEN Before(req.path) ELSE Empty
      allowed == IF DirectServer(server) THEN edge.direct[server] ELSE edge.allowed
  IN /\ place = "new" /\ Refusal(edge, req) = 0 /\ ForHeadBucket
     /\ Answered(IF HeadBucketBackend(edge, req) \in allowed THEN 200 ELSE 403)
     /\ UNCHANGED job

Resolves ==
  /\ place = "new" /\ Refusal(edge, req) = 0 /\ ~ForHeadBucket
  /\ job' = JobOf(edge, req)

ServeDirect ==
  /\ Resolves /\ DirectServer(job'.server)
  /\ IF job'.bucket \notin edge.direct[job'.server] THEN Answered(403)
     ELSE /\ fetch' = DirectRequest(job') /\ place' = "fetching"
          /\ UNCHANGED <<config, req, conn, call, effect, reply, answer>>

NotAllowed ==
  /\ Resolves /\ ~DirectServer(job'.server) /\ job'.bucket \notin edge.allowed
  /\ Answered(403)

(* The S3 API handler marshals, so validates, a ticket before it publishes *)
(* it; the public handler leaves that to the publisher, whose errors are   *)
(* all the same to it.                                                     *)
InvalidTicket ==
  /\ Resolves /\ ~DirectServer(job'.server) /\ job'.bucket \in edge.allowed
  /\ ~ValidTicket(TicketOf(job', TicketDeadline), 0)
  /\ Answered(IF UsesS3API(edge, req) THEN 400 ELSE 503)

(* Publishing fails before or after the ticket has left.                   *)
Publish ==
  /\ Resolves /\ ~DirectServer(job'.server) /\ job'.bucket \in edge.allowed
  /\ ValidTicket(TicketOf(job', TicketDeadline), 0)
  /\ \/ place' = "published" /\ answer' \in {Nil, 503}
     \/ place' = "done" /\ answer' = 503
  /\ UNCHANGED <<config, req, conn, fetch, call, effect, reply>>

(* The deadline of a request that has a ticket, at the edge.               *)
Deadline ==
  /\ place # "new" /\ answer = Nil /\ ~DirectServer(job.server)
  /\ answer' = 504
  /\ UNCHANGED <<config, req, job, place, conn, fetch, call, effect, reply>>
-----------------------------------------------------------------------------
(* The connector.  Those with the subject of the ticket's server share the *)
(* tickets; one that does not accept its ticket drops it.                  *)
TicketSubject ==
  IF edge.multi THEN DeriveNATSSubject(edge.nats.template, job.server) ELSE edge.nats.subject

SlipAccepts(c, t, now) == ValidTicket(t, now) /\ t.bucket \in c.allowed

Accepts(c, t, now) ==
  /\ ValidTicket(t, now)
  /\ c.server # Empty => t.server = c.server
  /\ t.bucket \in c.allowed /\ t.bucket \in c.s3allowed

Replies(status) == reply' = status /\ place' = "sending"

Drop(c, t, now) ==
  ~Accepts(c, t, now) /\ place' = "done" /\ UNCHANGED <<conn, fetch, reply>>

TakeRefused(c, t, now) ==
  /\ Accepts(c, t, now)
  /\ ResolveOperation(t.method, t.operation) \in MutationOps /\ ~c.mutations
  /\ conn' = c /\ Replies(405) /\ UNCHANGED fetch

TakeAccepted(c, t, now) ==
  /\ Accepts(c, t, now)
  /\ ResolveOperation(t.method, t.operation) \in MutationOps => c.mutations
  /\ conn' = c /\ fetch' = FetchRequest(t)
  /\ place' = IF fetch'.body THEN "opening" ELSE "fetching"
  /\ UNCHANGED reply

Take ==
  /\ place = "published"
  /\ \E c \in connectors, now \in ConnectorClock :
       LET t == TicketOf(job, TicketDeadline)
       IN /\ c.nats.subject = TicketSubject
          /\ Drop(c, t, now) \/ TakeRefused(c, t, now) \/ TakeAccepted(c, t, now)
  /\ UNCHANGED <<config, req, job, call, effect, answer>>

(* The connector asks the edge for the body with a client of its own that  *)
(* never speaks HTTP/3, whatever carries its answers.                      *)
OpensUploads == Http \in Listens(edge)

(* The upload source at the edge sends what the body decodes to, up to the *)
(* declared length.  A body that fails before its first byte is answered   *)
(* with an error; one that fails later is a short body, or, where only     *)
(* what lies behind the declared length is wrong, looks like a good one.   *)
Delivered == IF req.sent < job.length THEN req.sent ELSE job.length

OpenUpload ==
  /\ place = "opening"
  /\ \/ Replies(503)
     \/ OpensUploads /\ (req.sent = job.length \/ Delivered > 0) /\ place' = "fetching" /\ UNCHANGED reply
  /\ UNCHANGED <<config, req, job, conn, fetch, call, effect, answer>>
-----------------------------------------------------------------------------
(* The S3 client, at the connector or at the edge.                         *)
SlipStatusForFetchError(err) ==
  CASE err = "notFound" -> 404 [] err = "invalid" -> 400 [] OTHER -> 404

StatusForFetchError(err) ==
  CASE err = "notFound" -> 404 [] err = "invalid" -> 400 [] OTHER -> 503

StatusOf(c) ==
  CASE c.op \in {"DeleteObject", "AbortMultipartUpload"} -> 204
    [] c.op \in {"GetObject", "HeadObject"} /\ c.range # Nil -> 206
    [] OTHER -> 200

(* The body of an upload goes to S3 as it comes.  That of a completion is  *)
(* parsed here, to the end of the list of parts and no further: one that   *)
(* is too short, or goes on behind its declared length, may or may not     *)
(* have the whole list in what is delivered.                               *)
StoredOps == {"PutObject", "UploadPart"}

Parts == IF WellFormedParts(req.parts) THEN SortedParts(req.parts) ELSE Nil
PartsRead ==
  CASE Delivered = 0 -> {Nil}
    [] Delivered > 0 /\ req.sent = job.length -> {Parts}
    [] OTHER -> {Parts, Nil}

Called(op, parts) ==
  [op |-> op, bucket |-> fetch.bucket, key |-> fetch.key, range |-> fetch.range,
   list |-> fetch.list, parts |-> parts,
   uploadID |-> IF op \in MultipartOps THEN fetch.multipart.uploadID ELSE Empty,
   part |-> IF op \in MultipartOps THEN fetch.multipart.partNumber ELSE 0]

Call ==
  LET op == ResolveOperation(fetch.method, fetch.operation)
  IN /\ place = "fetching"
     /\ \E parts \in (IF op = "CompleteMultipartUpload" THEN PartsRead ELSE {Nil}) :
          IF ~FetchValid(fetch) \/ (op = "CompleteMultipartUpload" /\ parts = Nil)
          THEN Replies(StatusForFetchError("invalid")) /\ UNCHANGED call
          ELSE call' = Called(op, parts) /\ place' = "called" /\ UNCHANGED reply
     /\ UNCHANGED <<config, req, job, conn, fetch, effect, answer>>

(* S3 declines a call, or is not reached.                                  *)
S3Declines ==
  /\ place = "called"
  /\ \E err \in {"notFound", "other"} \cup (IF call.op = "CompleteMultipartUpload" THEN {"invalid"} ELSE {}) :
       Replies(StatusForFetchError(err))
  /\ UNCHANGED <<config, req, job, conn, fetch, call, effect, answer>>

(* S3 does what it was called for.  A body that it stores must have come   *)
(* whole; on the edge itself the client finds what is wrong behind its end *)
(* and fails a call S3 may have done.  The reply may be lost, and the S3   *)
(* client calls again: an upload ended by the first call is not there.     *)
BodyIsShort == call.op \in StoredOps /\ req.sent < job.length
Lost == {"other"} \cup (IF call.op \in {"CompleteMultipartUpload", "AbortMultipartUpload"} THEN {"notFound"} ELSE {})

S3Does ==
  /\ place = "called"
  /\ ~BodyIsShort
  /\ effect' = IF call.op \in MutationOps
               THEN [op |-> call.op, bytes |-> IF call.op \in StoredOps THEN Delivered ELSE 0] ELSE Nil
  /\ \/ /\ ~(conn = Nil /\ call.op \in StoredOps /\ req.sent > job.length)
        /\ Replies(StatusOf(call))
     \/ \E err \in Lost : Replies(StatusForFetchError(err))
  /\ UNCHANGED <<config, req, job, conn, fetch, call, answer>>

(* The answer starts unless the edge is through with the request; sending  *)
(* it from a connector may fail, and does if the edge does not listen for  *)
(* the connector's transport.                                              *)
Send ==
  /\ place = "sending"
  /\ place' = "done"
  /\ \/ answer = Nil /\ (conn # Nil => Carrier(conn) \in Listens(edge)) /\ answer' = reply
     \/ conn # Nil /\ UNCHANGED answer
  /\ UNCHANGED <<config, req, job, conn, fetch, call, effect, reply>>

Next ==
  \/ Refuse \/ HeadBucket \/ ServeDirect \/ NotAllowed \/ InvalidTicket \/ Publish \/ Deadline
  \/ Take \/ OpenUpload \/ Call \/ S3Declines \/ S3Does \/ Send

Spec == Init /\ [][Next]_vars
-----------------------------------------------------------------------------
Operation == ResolveOperation(job.method, job.operation)

(* A job is of one of the operations, and names a part S3 can have; the    *)
(* edge calls S3 itself only for its direct servers.                       *)
TypeOK ==
  /\ place \in {"new", "published", "opening", "fetching", "called", "sending", "done"}
  /\ job # Nil =>
       /\ Operation \in Operations
       /\ job.multipart # Nil => job.multipart.partNumber \in 0..MaxPartNumber
  /\ conn \in connectors \cup {Nil}
  /\ fetch # Nil => job # Nil /\ (conn # Nil \/ DirectServer(job.server))
  /\ call # Nil => call.op = Operation
  /\ effect # Nil => effect.op \in MutationOps /\ effect.bytes \in Nat
  /\ reply \in Nat \cup {Nil} /\ answer \in Nat \cup {Nil}

(* S3 is called only for what every party on the way allows: the bucket is *)
(* on the allowlists of the edge, of the connector and of the connector's  *)
(* S3 (a direct server: on its own), the connector is the one of that      *)
(* server, mutations are enabled on both sides and come with a SigV4       *)
(* signature, and a public request has a signed URL where that is asked    *)
(* for.  The allowlists are checked in four places.                        *)
OnlyWhatIsAllowed ==
  call # Nil =>
    /\ IF conn = Nil THEN call.bucket \in edge.direct[job.server]
       ELSE /\ call.bucket \in edge.allowed \cap conn.allowed \cap conn.s3allowed
            /\ conn.server \in {Empty, job.server}
    /\ call.op \in MutationOps => edge.mutations /\ (conn # Nil => conn.mutations)
    /\ IF UsesS3API(edge, req) THEN req.auth
       ELSE call.op \in {"GetObject", "HeadObject"} /\ (edge.signing => Authorized(edge, req))

(* The object S3 is called for is the one the client's path names: the     *)
(* path, decoded, is the server, the bucket and the key put together again *)
(* (without the bucket where it is a default one), on the public path and  *)
(* on the S3 API, routed or direct; a multipart call has the upload and    *)
(* the part of the query, and completing passes on the client's parts,     *)
(* each once and in order.                                                 *)
Slash == <<"/">>
CallsAreNamed ==
  LET default == DefaultBucketForServer(edge, job.server)
      plain == UsesS3API(edge, req) /\ ~edge.multi
      place0 == IF default # Nil /\ ~plain THEN call.key ELSE call.bucket \o Slash \o call.key
      named == IF edge.multi THEN job.server \o Slash \o place0 ELSE place0
  IN call # Nil =>
       /\ call.op # "ListObjectsV2" => named = Unescape(req.path)
       /\ default # Nil /\ ~plain => call.bucket = default
       /\ call.op \in MultipartOps \ {"CreateMultipartUpload"} => call.uploadID = req.uploadID
       /\ call.op = "UploadPart" => call.part = req.part
       /\ call.op = "CompleteMultipartUpload" =>
            /\ {call.parts[i] : i \in DOMAIN call.parts} = {req.parts[i] : i \in DOMAIN req.parts}
            /\ \A i \in 1..(Len(call.parts) - 1) : call.parts[i].number < call.parts[i + 1].number

(* Whatever the edge accepts for one server it would accept for any other, *)
(* direct or behind a connector: the S3 client takes the direct request of *)
(* a job exactly when the ticket of the job is valid, and it never refuses *)
(* the request a connector makes of a valid ticket.                        *)
PathsAgree ==
  /\ job # Nil => (ValidTicket(TicketOf(job, TicketDeadline), 0) <=> FetchValid(DirectRequest(job)))
  /\ conn # Nil /\ fetch # Nil => FetchValid(fetch)

(* A client that is told of success has had its mutation done, and what    *)
(* was to be stored has the length it declared; a client that is told its  *)
(* request is wrong (or, but for an upload that its first try ended, its   *)
(* object not there) has had nothing done.  Any other answer leaves it     *)
(* open.                                                                   *)
AnswersAreTrue ==
  /\ job # Nil /\ Operation \in MutationOps /\ answer # Nil /\ answer \in 200..299 =>
       effect # Nil /\ (Operation \in StoredOps => effect.bytes = job.length)
  /\ effect # Nil /\ answer # Nil /\ answer \in 400..499 =>
       answer = 404 /\ effect.op \in {"CompleteMultipartUpload", "AbortMultipartUpload"}

(* The bucket and the key an answer to a multipart request shows name,     *)
(* when a client makes a path of the S3 API of them again, the object the  *)
(* upload is for.                                                          *)
InPath(word) == CASE word = " " -> "%20" [] word = "%20" -> "%2520" [] OTHER -> word
AsPath(name) == [i \in DOMAIN name |-> InPath(name[i])]

NamesResolve ==
  job # Nil /\ job.multipart # Nil =>
    Place(edge, AsPath(job.multipart.rewrite.bucket \o Slash \o job.multipart.rewrite.key))
      = [server |-> job.server, bucket |-> job.bucket, key |-> job.key]

(* An edge and a connector that read the same environment fit: mutations   *)
(* are on at both or at neither, the edge listens for the connector's      *)
(* transport, and unless the subject is set by hand a routed server's      *)
(* tickets, and no other's, go where its connector listens (with one       *)
(* server and no name: all go there).  A default bucket the loaders take   *)
(* is one that everybody on the way allows: the one server's where the     *)
(* allowlist is set, and that of a server the edge calls itself where it   *)
(* is set under the suffix of its other settings.                          *)
OneFileFits ==
  LET s == env.edge.main IN
  /\ env.edge \in env.connectors /\ ConnectorOf(env.edge) # Nil =>
       LET c == ConnectorOf(env.edge) IN
       /\ edge.mutations = c.mutations
       /\ Carrier(c) \in Listens(edge)
       /\ ~Has(s, "AIR3_NATS_SUBJECT") =>
            /\ edge.multi /\ c.server # Empty =>
                 \A a \in Aliases : DeriveNATSSubject(edge.nats.template, a) = c.nats.subject <=> a = c.server
            /\ ~edge.multi /\ c.server = Empty => edge.nats.subject = c.nats.subject
       /\ edge.default # Nil /\ Has(s, "AIR3_ALLOWED_BUCKETS") =>
            edge.default \in edge.allowed \cap c.allowed \cap c.s3allowed
  /\ \A a \in DOMAIN edge.direct :
       Has(Group(env.edge.servers, EnvSuffix[a]), "BUCKET") =>
         DefaultBucketForServer(edge, a) \in edge.direct[a]

(* A client whose aws-chunked body does not decode to the length it        *)
(* declared is not told of success (docs/superpowers/specs/                *)
(* 2026-07-06-s3-compatibility-design.md:74-76).                           *)
MismatchNeverSucceeds ==
  job # Nil /\ Operation \in UploadOps /\ answer # Nil /\ answer \in 200..299 => req.sent = job.length

(* The key a listing shows for the object it lists can be asked for: it    *)
(* names that object again.  (internal/s3api/operation_test.go:230 has the *)
(* slash in the prefix "photos/" of such keys, and xml_test.go:175 has it  *)
(* in the key "public/a.jpg" shown for a.jpg.)                             *)
ListedAs(list, key) == list.rewrite.keyPrefix \o key
ListedKeysResolve ==
  job # Nil /\ job.list # Nil =>
    LET key == job.list.prefix \o <<"k">>
    IN Place(edge, job.list.rewrite.bucket \o Slash \o ListedAs(job.list, key))
         = [server |-> job.server, bucket |-> job.bucket, key |-> key]

(* A connector that reads the edge's environment can fetch the body of an  *)
(* upload from the edge.  (docs/configuration.md:206 has the setting of    *)
(* the transport "only tune streaming/transport/concurrency behavior".)    *)
UploadsOpen ==
  place = "opening" /\ conn = ConnectorOf(env.edge) => OpensUploads
-----------------------------------------------------------------------------
(* The invariant of the proofs, in parts.  A job is the edge's own reading *)
(* of a request it does not refuse; nothing is fetched, called or done     *)
(* before a ticket is taken or the edge turns to a direct server.          *)
Ticket == TicketOf(job, TicketDeadline)
Resolved == job = JobOf(edge, req) /\ Refusal(edge, req) = 0 /\ ~ForHeadBucket

Ticketed ==
  /\ Resolved /\ ~DirectServer(job.server)
  /\ job.bucket \in edge.allowed /\ ValidTicket(Ticket, 0)

JobInv ==
  /\ env \in Deployments /\ req \in Requests(env) /\ Nil \notin connectors
  /\ job # Nil => Resolved
  /\ place = "new" => job = Nil /\ answer = Nil
  /\ place = "published" => Ticketed
  /\ place \in {"new", "published"} => conn = Nil /\ fetch = Nil /\ call = Nil
  /\ place \notin {"sending", "done"} => effect = Nil /\ reply = Nil

(* What is fetched is the job of a direct server, or the ticket a          *)
(* connector has accepted; what is called is what was fetched.             *)
Fetched ==
  IF conn = Nil
  THEN /\ Resolved /\ DirectServer(job.server) /\ job.bucket \in edge.direct[job.server]
       /\ fetch = DirectRequest(job)
  ELSE /\ Ticketed /\ \E now \in ConnectorClock : Accepts(conn, Ticket, now)
       /\ Operation \in MutationOps => conn.mutations
       /\ fetch = FetchRequest(Ticket)

CallInv ==
  /\ place \in {"opening", "fetching", "called"} \/ fetch # Nil \/ call # Nil => Fetched
  /\ place = "called" \/ call # Nil =>
       FetchValid(fetch) /\ call.op = Operation /\ call.bucket = fetch.bucket

(* A status is true of what has been done.  An answer that comes before    *)
(* the end is the edge's own, and blames nobody.                           *)
Truthful(status) ==
  status # Nil =>
    /\ job # Nil /\ Operation \in MutationOps /\ status \in 200..299 =>
         effect # Nil /\ (Operation \in StoredOps => effect.bytes = job.length)
    /\ effect # Nil /\ status \in 400..499 =>
         status = 404 /\ effect.op \in {"CompleteMultipartUpload", "AbortMultipartUpload"}

AnswerInv ==
  /\ Truthful(reply) /\ Truthful(answer)
  /\ place # "done" => answer \in {Nil, 503, 504}

PathInv == JobInv /\ CallInv /\ AnswerInv

(* The edge serves with what it has made of its environment.               *)
ConfigInv == env \in Deployments /\ edge = EdgeOf(env.edge) /\ edge # Nil

(* What is called names what the job does.                                 *)
NamedInv ==
  call # Nil =>
    /\ call.op = Operation /\ call.bucket = job.bucket /\ call.key = job.key
    /\ call.op \in MultipartOps =>
         call.uploadID = job.multipart.uploadID /\ call.part = job.multipart.partNumber
    /\ call.op = "CompleteMultipartUpload" => WellFormedParts(req.parts) /\ call.parts = SortedParts(req.parts)
=============================================================================
