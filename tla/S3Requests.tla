----------------------------- MODULE S3Requests -----------------------------
(* What the edge makes of a client's request: which object it names, which *)
(* operation it asks for, whether it is refused and with which status, and *)
(* the ticket or the direct S3 request it becomes.  internal/s3api/        *)
(* operation.go, internal/publicpath and the resolving half of             *)
(* cmd/edge-gateway/main.go.                                               *)
(*                                                                         *)
(* A request is a record:                                                  *)
(*   api        it carries SigV4 marks: the S3 API serves it               *)
(*   auth       its SigV4 signature verifies                               *)
(*   method, path   the path without its leading slash, still escaped:     *)
(*              "%2F" and "%20" are words                                  *)
(*   uploads, uploadID, part, flags   query parameters (Nil: not there)    *)
(*   list       Nil, or the parameters of a list-type=2 query              *)
(*   range, queryRange   the Range header, the range of a signed URL       *)
(*   signature  what a signed URL was signed for, or Nil                   *)
(*   hash, length, decoded, markers, contentType   headers of the body:    *)
(*              payload hash mode, Content-Length (-1: none), decoded      *)
(*              length, other aws-chunked or chunked-transfer marks        *)
(*   sent       bytes of (decoded) body the client really sends            *)
(*   parts      what the body of a CompleteMultipartUpload lists, or Nil   *)
(*              when it does not parse                                     *)
(* and an edge a record of its configuration: multi, mutations, allowed,   *)
(* default (Nil: none), defaults (by the suffix of the server's settings), *)
(* direct (allowed buckets by server), signing, s3api.                     *)
EXTENDS Tickets, FiniteSets

CONSTANT EnvSuffix  \* the suffix of an alias's settings: its upper case

(* ValidateBucket and ValidateAlias allow no character that separates or   *)
(* that a path must escape.                                                *)
ASSUME NamesAssumption ==
  \A t \in Buckets \cup Aliases : t \in Text /\ t # Empty /\ \A i \in DOMAIN t : t[i] \notin Marks

(* A suffix is in upper case, so it is the suffix of the alias it is too.  *)
ASSUME SuffixAssumption ==
  \A a \in Aliases : EnvSuffix[a] \in Aliases => EnvSuffix[EnvSuffix[a]] = EnvSuffix[a]

Supported == {"GET", "HEAD", "PUT", "POST", "DELETE"}
MutationOps == Operations \ ReadOps
-----------------------------------------------------------------------------
(* A text cut at its first slash.                                          *)
Slashes(t) == {i \in DOMAIN t : t[i] = "/"}
HasCut(t) == Slashes(t) # {}
FirstCut(t) == CHOOSE i \in Slashes(t) : \A j \in Slashes(t) : i <= j
Before(t) == IF HasCut(t) THEN SubSeq(t, 1, FirstCut(t) - 1) ELSE t
After(t) == IF HasCut(t) THEN SubSeq(t, FirstCut(t) + 1, Len(t)) ELSE Empty

(* Segments are split before they are unescaped, so an escaped slash never *)
(* separates two of them.  Unescaping is done once.                        *)
Decoded(word) ==
  CASE word = "%2F" -> "/" [] word = "%20" -> " " [] word = "%2520" -> "%20" [] OTHER -> word
Unescape(t) == [i \in DOMAIN t |-> Decoded(t[i])]

DefaultBucketForServer(edge, server) ==
  IF server = Empty /\ ~edge.multi THEN edge.default
  ELSE IF server \in Aliases /\ EnvSuffix[server] \in DOMAIN edge.defaults THEN edge.defaults[EnvSuffix[server]]
  ELSE Nil

(* The object a path names: bucket/key with one server, server/bucket/key  *)
(* with several, server/key where the server has a default bucket.  What   *)
(* a path leaves out is Empty.                                             *)
Place(edge, path) ==
  LET head == Unescape(Before(path))
      rest == After(path)
      bucket == DefaultBucketForServer(edge, head)
  IN CASE ~edge.multi -> [server |-> Empty, bucket |-> head, key |-> Unescape(rest)]
       [] edge.multi /\ bucket # Nil -> [server |-> head, bucket |-> bucket, key |-> Unescape(rest)]
       [] edge.multi /\ bucket = Nil ->
            [server |-> head, bucket |-> Unescape(Before(rest)), key |-> Unescape(After(rest))]

ValidHead(edge, path) ==
  LET head == Unescape(Before(path)) IN IF edge.multi THEN head \in Aliases ELSE ValidBucket(head)
-----------------------------------------------------------------------------
(* The operation of an S3 API request, from its method and its query.      *)
UploadPart(req) == req.uploadID \notin {Nil, Empty} /\ req.part \in 1..MaxPartNumber

ObjectOperation(req) ==
  CASE req.method = "POST" /\ req.uploads ->
         IF req.uploadID = Nil /\ req.part = Nil THEN "CreateMultipartUpload" ELSE "malformed"
    [] req.method = "POST" /\ ~req.uploads /\ req.uploadID # Nil ->
         IF req.uploadID # Empty THEN "CompleteMultipartUpload" ELSE "malformed"
    [] req.method = "POST" /\ ~req.uploads /\ req.uploadID = Nil -> "unsupported"
    [] req.method = "PUT" /\ req.part # Nil -> IF UploadPart(req) THEN "UploadPart" ELSE "malformed"
    [] req.method = "PUT" /\ req.part = Nil -> "PutObject"
    [] req.method = "DELETE" /\ req.uploadID # Nil ->
         IF req.uploadID # Empty THEN "AbortMultipartUpload" ELSE "malformed"
    [] req.method = "DELETE" /\ req.uploadID = Nil -> "DeleteObject"
    [] req.method = "GET" -> "GetObject"
    [] req.method = "HEAD" -> "HeadObject"
    [] OTHER -> "unsupported"

S3Operation(req) ==
  CASE req.method = "HEAD" /\ ~HasCut(req.path) -> "HeadBucket"
    [] req.method = "GET" /\ req.list # Nil -> "ListObjectsV2"
    [] OTHER -> ObjectOperation(req)

QueryAllowed(op, req) ==
  CASE op = "PutObject" -> req.flags \cap {"acl", "tagging"} = {} /\ ~req.uploads /\ req.uploadID = Nil
    [] op = "DeleteObject" -> "versionId" \notin req.flags
    [] op = "CreateMultipartUpload" -> req.flags \cap {"acl", "tagging"} = {}
    [] OTHER -> TRUE

(* The bucket a listing or a HeadBucket is of.  With several servers and   *)
(* no default bucket, the first segment of a listing's prefix names it,    *)
(* and HeadBucket falls back to the server's own name.                     *)
ListBucket(edge, req) ==
  LET head == Unescape(Before(req.path)) IN
  IF ~edge.multi THEN head
  ELSE IF DefaultBucketForServer(edge, head) # Nil THEN DefaultBucketForServer(edge, head)
  ELSE Before(req.list.prefix)

HeadBucketBackend(edge, req) ==
  LET head == Unescape(Before(req.path)) IN
  IF edge.multi /\ DefaultBucketForServer(edge, head) # Nil THEN DefaultBucketForServer(edge, head) ELSE head

Unsupported(edge, req) ==
  \/ req.method \notin Supported
  \/ req.path # Empty /\ ValidHead(edge, req.path) /\ S3Operation(req) = "unsupported"

Classified(edge, req) ==
  LET op == S3Operation(req)
  IN /\ req.path # Empty
     /\ ValidHead(edge, req.path)
     /\ CASE op = "HeadBucket" -> TRUE
          [] op = "ListObjectsV2" -> ~HasCut(req.path) /\ ValidBucket(ListBucket(edge, req))
          [] op \in Operations \ {"ListObjectsV2"} ->
               /\ QueryAllowed(op, req)
               /\ ValidBucket(Place(edge, req.path).bucket)
               /\ Place(edge, req.path).key # Empty
          [] OTHER -> FALSE
-----------------------------------------------------------------------------
(* A listing asks the backend for what follows the bucket in the prefix,   *)
(* and the bucket becomes the prefix of the keys in the answer, without    *)
(* the slash that Classify put behind it.                                  *)
ListRequest(edge, req) ==
  LET head == Unescape(Before(req.path))
      standard == edge.multi /\ DefaultBucketForServer(edge, head) = Nil
  IN [prefix |-> IF standard THEN After(req.list.prefix) ELSE req.list.prefix,
      delimiter |-> req.list.delimiter, startAfter |-> req.list.startAfter, maxKeys |-> req.list.maxKeys,
      rewrite |-> [bucket |-> head, prefix |-> req.list.prefix,
                   keyPrefix |-> IF standard THEN Before(req.list.prefix) ELSE Empty]]

(* The names an answer to a multipart request shows are those of the       *)
(* request's own path.                                                     *)
SlipShown(edge, req) ==
  [bucket |-> Unescape(Before(req.path)), key |-> Place(edge, req.path).key]

Shown(edge, req) == [bucket |-> Unescape(Before(req.path)), key |-> Unescape(After(req.path))]

MultipartFromMapping(edge, req) ==
  LET op == S3Operation(req)
  IN [uploadID |-> IF op = "CreateMultipartUpload" THEN Empty ELSE req.uploadID,
      partNumber |-> IF op = "UploadPart" THEN req.part ELSE 0,
      rewrite |-> Shown(edge, req)]

(* The length of the body proper: what an aws-chunked upload declares it   *)
(* decodes to, the Content-Length of any other.                            *)
UploadLength(req) == IF req.hash = "trailer" THEN req.decoded ELSE req.length

(* The job an accepted S3 API request is: every field the ticket and the   *)
(* direct request are made from.                                           *)
S3Job(edge, req) ==
  LET op == S3Operation(req)
      at == Place(edge, req.path)
      listing == op = "ListObjectsV2"
  IN [method |-> req.method, operation |-> op,
      server |-> IF edge.multi THEN Unescape(Before(req.path)) ELSE Empty,
      bucket |-> IF listing THEN ListBucket(edge, req) ELSE at.bucket,
      key |-> IF listing THEN Empty ELSE at.key,
      range |-> IF op \in {"GetObject", "HeadObject"} THEN req.range ELSE Nil,
      list |-> IF listing THEN ListRequest(edge, req) ELSE Nil,
      multipart |-> IF op \in MultipartOps THEN MultipartFromMapping(edge, req) ELSE Nil,
      length |-> IF op \in UploadOps THEN UploadLength(req) ELSE Nil,
      contentType |-> IF op \in {"PutObject", "CreateMultipartUpload"} THEN req.contentType ELSE Empty]

ValidS3Job(job) ==
  IF job.operation = "ListObjectsV2" THEN ValidListRequest(job.list)
  ELSE ValidKey(job.key) /\ ValidByteRange(job.range)

(* A mutation has no Range and a payload hash and a body its operation     *)
(* allows.                                                                 *)
ChunkedMarks(req) == req.markers \/ req.decoded # Nil

ValidMutation(op, req) ==
  /\ req.range = Nil
  /\ IF op \in UploadOps
     THEN \/ req.hash = "trailer" /\ req.decoded # Nil /\ req.decoded >= 0
          \/ req.hash \in {"unsigned", "empty", "signed"} /\ ~ChunkedMarks(req) /\ req.length >= 0
     ELSE req.hash \in {"unsigned", "empty"} /\ req.length = 0 /\ ~ChunkedMarks(req)
  /\ op = "CompleteMultipartUpload" => UploadLength(req) <= MaxCompleteBody

(* The status an S3 API request is refused with, 0 when it is not; the     *)
(* checks are in the order of resolveS3Request.                            *)
S3Refusal(edge, req) ==
  LET op == S3Operation(req)
  IN IF ~req.auth THEN 403
     ELSE IF Unsupported(edge, req) THEN 405
     ELSE IF ~Classified(edge, req) THEN 400
     ELSE IF op = "HeadBucket" THEN (IF ValidBucket(HeadBucketBackend(edge, req)) THEN 0 ELSE 400)
     ELSE IF ~ValidS3Job(S3Job(edge, req)) THEN 400
     ELSE IF op \in MutationOps /\ ~edge.mutations THEN 405
     ELSE IF op \in MutationOps /\ ~ValidMutation(op, req) THEN 400
     ELSE 0
-----------------------------------------------------------------------------
(* The public path reads objects only, by a signed URL unless signing is   *)
(* off.  With one server a default bucket leaves the whole path to the key. *)
PublicPlace(edge, path) ==
  IF ~edge.multi /\ edge.default # Nil
  THEN [server |-> Empty, bucket |-> edge.default, key |-> Unescape(path)]
  ELSE Place(edge, path)

Authorized(edge, req) ==
  /\ req.signature = [method |-> req.method, object |-> PublicPlace(edge, req.path), range |-> req.queryRange]
  /\ req.range # Nil => req.queryRange # Nil

PublicRange(edge, req) == IF edge.signing /\ req.queryRange # Nil THEN req.queryRange ELSE req.range

PublicRefusal(edge, req) ==
  LET at == PublicPlace(edge, req.path)
  IN IF req.method \notin {"GET", "HEAD"} THEN 405
     ELSE IF ~ValidBucket(at.bucket) \/ ~ValidKey(at.key) \/ (edge.multi /\ at.server \notin Aliases) THEN 400
     ELSE IF edge.signing /\ ~Authorized(edge, req) THEN 403
     ELSE IF edge.signing /\ req.queryRange # Nil /\ req.range \notin {Nil, req.queryRange} THEN 400
     ELSE IF ~ValidByteRange(PublicRange(edge, req)) THEN 400
     ELSE 0

PublicJob(edge, req) ==
  LET at == PublicPlace(edge, req.path)
  IN [method |-> req.method, operation |-> Nil, server |-> at.server, bucket |-> at.bucket, key |-> at.key,
      range |-> PublicRange(edge, req), list |-> Nil, multipart |-> Nil, length |-> Nil, contentType |-> Empty]

UsesS3API(edge, req) == edge.s3api /\ req.api
Refusal(edge, req) == IF UsesS3API(edge, req) THEN S3Refusal(edge, req) ELSE PublicRefusal(edge, req)
JobOf(edge, req) == IF UsesS3API(edge, req) THEN S3Job(edge, req) ELSE PublicJob(edge, req)
-----------------------------------------------------------------------------
(* The ticket of a job, for the connector of its server.                   *)
TicketOf(job, deadline) ==
  LET upload == job.operation \in UploadOps
  IN [method |-> job.method, operation |-> job.operation, server |-> job.server, deadline |-> deadline,
      bucket |-> job.bucket, key |-> job.key, range |-> job.range, list |-> job.list, multipart |-> job.multipart,
      upload |-> upload, contentLength |-> IF upload THEN job.length ELSE Nil,
      contentType |-> IF upload \/ job.operation = "CreateMultipartUpload" THEN job.contentType ELSE Empty]

(* The request the connector makes of a ticket for its S3 client, and the  *)
(* one the edge makes of a job where it has the server's S3 itself.        *)
FetchRequest(t) ==
  LET op == ResolveOperation(t.method, t.operation)
      upload == op \in UploadOps
  IN [method |-> t.method, operation |-> op, bucket |-> t.bucket, key |-> t.key, range |-> t.range,
      list |-> t.list, multipart |-> t.multipart,
      body |-> upload, contentLength |-> IF upload THEN t.contentLength ELSE Nil,
      contentType |-> IF upload \/ op = "CreateMultipartUpload" THEN t.contentType ELSE Empty]

SlipDirectRequest(job) ==
  LET upload == job.operation \in UploadOps
  IN [method |-> job.method, operation |-> job.operation, bucket |-> job.bucket, key |-> job.key,
      range |-> job.range, list |-> job.list, multipart |-> Nil,
      body |-> upload, contentLength |-> IF upload THEN job.length ELSE Nil, contentType |-> job.contentType]

DirectRequest(job) ==
  LET upload == job.operation \in UploadOps
  IN [method |-> job.method, operation |-> job.operation, bucket |-> job.bucket, key |-> job.key,
      range |-> job.range, list |-> job.list, multipart |-> job.multipart,
      body |-> upload, contentLength |-> IF upload THEN job.length ELSE Nil,
      contentType |-> IF job.operation \in {"PutObject", "CreateMultipartUpload"} THEN job.contentType ELSE Empty]

(* The S3 client's own validation of a request (s3fetch.validateRequest).  *)
FetchValid(f) ==
  LET op == ResolveOperation(f.method, f.operation)
      object == op # "ListObjectsV2"
  IN /\ op # Nil /\ ValidBucket(f.bucket)
     /\ IF object THEN ValidKey(f.key) /\ f.list = Nil ELSE f.key = Empty /\ ValidListRequest(f.list)
     /\ IF op \in {"GetObject", "HeadObject"} THEN ValidByteRange(f.range) ELSE f.range = Nil
     /\ IF op \in MultipartOps THEN ValidMultipartRequest(op, f.multipart) ELSE f.multipart = Nil
     /\ IF op \in UploadOps THEN f.body /\ f.contentLength # Nil /\ f.contentLength >= 0
        ELSE ~f.body /\ f.contentLength = Nil
     /\ IF op \in {"PutObject", "CreateMultipartUpload"} THEN Printable(f.contentType) ELSE f.contentType = Empty
     /\ op = "CompleteMultipartUpload" => f.contentLength <= MaxCompleteBody

(* The parts a CompleteMultipartUpload lists, or Nil when its body does    *)
(* not parse; otherwise in the order of their numbers, each once.          *)
WellFormedParts(parts) ==
  /\ parts # Nil /\ parts # Empty
  /\ \A i \in DOMAIN parts : parts[i].number \in 1..MaxPartNumber /\ parts[i].etag # Empty
  /\ \A i, j \in DOMAIN parts : parts[i].number = parts[j].number => i = j

SlipSortedParts(parts) == parts

SortedParts(parts) ==
  CHOOSE s \in [DOMAIN parts -> {parts[i] : i \in DOMAIN parts}] :
    \A i, j \in DOMAIN parts : i < j => s[i].number < s[j].number
=============================================================================
