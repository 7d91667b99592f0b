------------------------- MODULE TicketPath_proofs --------------------------
(* Proofs for TicketPath, for every set of deployments and requests: that  *)
(* S3 is called only for what every party allows, that a server behind a   *)
(* connector and a direct one are asked for the same, that the status a    *)
(* client gets is true, that a call is for the object the client's path    *)
(* names and an answer shows names that lead back to it, and that an edge  *)
(* and a connector with one environment fit.                               *)
EXTENDS TicketPath, WellFoundedInduction, FiniteSetTheorems, SequenceTheorems, TLAPS

(* The table of the operations.                                            *)
LEMMA Methods ==
  /\ Operations = {"GetObject", "HeadObject", "ListObjectsV2", "PutObject", "DeleteObject", "UploadPart",
                   "CreateMultipartUpload", "AbortMultipartUpload", "CompleteMultipartUpload"}
  /\ MethodOf["GetObject"] = "GET" /\ MethodOf["HeadObject"] = "HEAD" /\ MethodOf["ListObjectsV2"] = "GET"
  /\ MethodOf["PutObject"] = "PUT" /\ MethodOf["UploadPart"] = "PUT"
  /\ MethodOf["DeleteObject"] = "DELETE" /\ MethodOf["AbortMultipartUpload"] = "DELETE"
  /\ MethodOf["CreateMultipartUpload"] = "POST" /\ MethodOf["CompleteMultipartUpload"] = "POST"
  BY DEF Operations, MethodOf

(* The method and the operation of a ticket determine each other.          *)
LEMMA OperationsResolve ==
  ASSUME NEW m, NEW o, ResolveOperation(m, o) # Nil
  PROVE  /\ ResolveOperation(m, o) \in Operations
         /\ MethodOf[ResolveOperation(m, o)] = m
         /\ ResolveOperation(m, ResolveOperation(m, o)) = ResolveOperation(m, o)
         /\ o # Nil => ResolveOperation(m, o) = o
         /\ o = Nil => ResolveOperation(m, o) \in {"GetObject", "HeadObject"}
<1>1. CASE o = Nil /\ m = "GET"
  BY <1>1, NilAssumption DEF ResolveOperation, Operations, MethodOf
<1>2. CASE o = Nil /\ m = "HEAD"
  BY <1>2, NilAssumption DEF ResolveOperation, Operations, MethodOf
<1>3. CASE o \in Operations /\ MethodOf[o] = m
  <2>1. o # Nil
    BY <1>3, NilAssumption
  <2>2. ResolveOperation(m, o) = o
    BY <1>3, <2>1 DEF ResolveOperation
  <2> QED BY <1>3, <2>1, <2>2
<1> QED BY <1>1, <1>2, <1>3 DEF ResolveOperation

(* The same the other way round.                                           *)
LEMMA Resolves1 ==
  ASSUME NEW o \in Operations
  PROVE  o # Nil /\ ResolveOperation(MethodOf[o], o) = o
  BY NilAssumption DEF ResolveOperation

(* What the S3 API lets through is signed, is of one of the operations, by *)
(* its method, and mutates only where that is enabled.                     *)
LEMMA S3Accepted ==
  ASSUME NEW e, NEW r, S3Refusal(e, r) = 0, S3Operation(r) # "HeadBucket"
  PROVE  /\ r.auth
         /\ Classified(e, r)
         /\ ValidS3Job(S3Job(e, r))
         /\ S3Operation(r) \in MutationOps => e.mutations /\ ValidMutation(S3Operation(r), r)
  BY DEF S3Refusal

LEMMA S3OperationsAre ==
  ASSUME NEW e, NEW r, Classified(e, r), S3Operation(r) # "HeadBucket"
  PROVE  /\ S3Operation(r) \in Operations
         /\ MethodOf[S3Operation(r)] = r.method
         /\ S3Operation(r) = "UploadPart" => UploadPart(r)
         /\ S3Operation(r) \in {"CompleteMultipartUpload", "AbortMultipartUpload"} => r.uploadID \notin {Nil, Empty}
<1>1. S3Operation(r) \in Operations
  BY DEF Classified, Operations, MethodOf
<1>2. CASE r.method = "GET" /\ r.list # Nil
  BY <1>1, <1>2, Methods DEF S3Operation
<1>3. CASE ~(r.method = "GET" /\ r.list # Nil)
  <2>1. S3Operation(r) = ObjectOperation(r)
    BY <1>3 DEF S3Operation
  <2>2. ObjectOperation(r) \in Operations
    BY <1>1, <2>1
  <2>3. ObjectOperation(r) \notin {"malformed", "unsupported"}
    BY <2>2 DEF Operations, MethodOf
  <2>4. CASE r.method = "POST"
    <3>1. CASE r.uploads
      BY <2>1, <2>3, <2>4, <3>1, Methods DEF ObjectOperation
    <3>2. CASE ~r.uploads /\ r.uploadID # Nil
      BY <2>1, <2>3, <2>4, <3>2, Methods DEF ObjectOperation
    <3>3. CASE ~r.uploads /\ r.uploadID = Nil
      BY <2>1, <2>3, <2>4, <3>3 DEF ObjectOperation
    <3> QED BY <3>1, <3>2, <3>3
  <2>5. CASE r.method = "PUT"
    <3>1. CASE r.part # Nil
      BY <2>1, <2>3, <2>5, <3>1, Methods DEF ObjectOperation
    <3>2. CASE r.part = Nil
      BY <2>1, <2>3, <2>5, <3>2, Methods DEF ObjectOperation
    <3> QED BY <3>1, <3>2
  <2>6. CASE r.method = "DELETE"
    <3>1. CASE r.uploadID # Nil
      BY <2>1, <2>3, <2>6, <3>1, Methods DEF ObjectOperation
    <3>2. CASE r.uploadID = Nil
      BY <2>1, <2>3, <2>6, <3>2, Methods DEF ObjectOperation
    <3> QED BY <3>1, <3>2
  <2>7. CASE r.method \in {"GET", "HEAD"}
    BY <2>1, <2>3, <2>7, Methods DEF ObjectOperation
  <2>8. CASE r.method \notin {"POST", "PUT", "DELETE", "GET", "HEAD"}
    BY <2>1, <2>3, <2>8 DEF ObjectOperation
  <2> QED BY <2>4, <2>5, <2>6, <2>7, <2>8
<1> QED BY <1>1, <1>2, <1>3
-----------------------------------------------------------------------------
(* A ticket omits some fields: each of them is what an absent one is.      *)
LEMMA OmitsFields ==
  ASSUME NEW t, NEW S \in SUBSET {"list", "multipart", "range", "key", "upload", "contentLength", "contentType"}
  PROVE  Omits(t, S) <=>
           /\ "list" \in S => t.list = Nil
           /\ "multipart" \in S => t.multipart = Nil
           /\ "range" \in S => t.range = Nil
           /\ "key" \in S => t.key = Empty
           /\ "upload" \in S => t.upload = FALSE
           /\ "contentLength" \in S => t.contentLength = Nil
           /\ "contentType" \in S => t.contentType = Empty
<1>1. /\ Absent["list"] = Nil /\ Absent["multipart"] = Nil /\ Absent["range"] = Nil
      /\ Absent["key"] = Empty /\ Absent["upload"] = FALSE /\ Absent["contentLength"] = Nil
      /\ Absent["contentType"] = Empty
  BY DEF Absent
<1> QED BY <1>1 DEF Omits

(* What ValidForOperation asks, for each operation.                        *)
LEMMA ReadTickets ==
  ASSUME NEW t, NEW op \in {"GetObject", "HeadObject"}
  PROVE  ValidForOperation(op, t) <=>
           /\ t.list = Nil /\ t.multipart = Nil
           /\ t.upload = FALSE /\ t.contentLength = Nil /\ t.contentType = Empty
           /\ ValidKey(t.key) /\ ValidByteRange(t.range)
<1>1. ValidForOperation(op, t) <=>
        Omits(t, {"list", "multipart"} \cup UploadEnvelope) /\ ValidKey(t.key) /\ ValidByteRange(t.range)
  BY DEF ValidForOperation
<1> QED BY <1>1, OmitsFields DEF UploadEnvelope

LEMMA ListTickets ==
  ASSUME NEW t
  PROVE  ValidForOperation("ListObjectsV2", t) <=>
           /\ t.multipart = Nil /\ t.range = Nil /\ t.key = Empty /\ t.upload = FALSE /\ t.contentLength = Nil /\ t.contentType = Empty
           /\ ValidListRequest(t.list)
<1>1. ValidForOperation("ListObjectsV2", t) <=>
        /\ Omits(t, {"key", "range", "multipart"} \cup UploadEnvelope)
        /\ ValidListRequest(t.list)
  BY DEF ValidForOperation
<1> QED BY <1>1, OmitsFields DEF UploadEnvelope, HasUploadEnvelope

LEMMA PutTickets ==
  ASSUME NEW t
  PROVE  ValidForOperation("PutObject", t) <=>
           /\ t.list = Nil /\ t.multipart = Nil /\ t.range = Nil
           /\ ValidKey(t.key) /\ t.upload /\ t.contentLength # Nil /\ t.contentLength >= 0 /\ Printable(t.contentType)
<1>1. ValidForOperation("PutObject", t) <=>
        /\ Omits(t, {"list", "range", "multipart"})
        /\ ValidKey(t.key) /\ HasUploadEnvelope(t) /\ Printable(t.contentType)
  BY DEF ValidForOperation
<1> QED BY <1>1, OmitsFields DEF UploadEnvelope, HasUploadEnvelope

LEMMA DeleteTickets ==
  ASSUME NEW t
  PROVE  ValidForOperation("DeleteObject", t) <=>
           /\ t.list = Nil /\ t.multipart = Nil /\ t.range = Nil /\ t.upload = FALSE /\ t.contentLength = Nil /\ t.contentType = Empty
           /\ ValidKey(t.key)
<1>1. ValidForOperation("DeleteObject", t) <=>
        /\ Omits(t, {"list", "range", "multipart"} \cup UploadEnvelope)
        /\ ValidKey(t.key)
  BY DEF ValidForOperation
<1> QED BY <1>1, OmitsFields DEF UploadEnvelope, HasUploadEnvelope

LEMMA CreateTickets ==
  ASSUME NEW t
  PROVE  ValidForOperation("CreateMultipartUpload", t) <=>
           /\ t.list = Nil /\ t.range = Nil /\ t.upload = FALSE /\ t.contentLength = Nil
           /\ ValidKey(t.key) /\ Printable(t.contentType) /\ ValidMultipartRequest("CreateMultipartUpload", t.multipart)
<1>1. ValidForOperation("CreateMultipartUpload", t) <=>
        /\ Omits(t, {"list", "range", "upload", "contentLength"})
        /\ ValidKey(t.key) /\ Printable(t.contentType) /\ ValidMultipartRequest("CreateMultipartUpload", t.multipart)
  BY DEF ValidForOperation
<1> QED BY <1>1, OmitsFields DEF UploadEnvelope, HasUploadEnvelope

LEMMA PartTickets ==
  ASSUME NEW t
  PROVE  ValidForOperation("UploadPart", t) <=>
           /\ t.list = Nil /\ t.range = Nil /\ t.contentType = Empty
           /\ ValidKey(t.key) /\ t.upload /\ t.contentLength # Nil /\ t.contentLength >= 0 /\ ValidMultipartRequest("UploadPart", t.multipart)
<1>1. ValidForOperation("UploadPart", t) <=>
        /\ Omits(t, {"list", "range", "contentType"})
        /\ ValidKey(t.key) /\ HasUploadEnvelope(t) /\ ValidMultipartRequest("UploadPart", t.multipart)
  BY DEF ValidForOperation
<1> QED BY <1>1, OmitsFields DEF UploadEnvelope, HasUploadEnvelope

LEMMA CompleteTickets ==
  ASSUME NEW t
  PROVE  ValidForOperation("CompleteMultipartUpload", t) <=>
           /\ t.list = Nil /\ t.range = Nil /\ t.contentType = Empty
           /\ ValidKey(t.key) /\ t.upload /\ t.contentLength # Nil /\ t.contentLength >= 0 /\ t.contentLength <= MaxCompleteBody /\ ValidMultipartRequest("CompleteMultipartUpload", t.multipart)
<1>1. ValidForOperation("CompleteMultipartUpload", t) <=>
        /\ Omits(t, {"list", "range", "contentType"})
        /\ ValidKey(t.key) /\ HasUploadEnvelope(t) /\ t.contentLength <= MaxCompleteBody /\ ValidMultipartRequest("CompleteMultipartUpload", t.multipart)
  BY DEF ValidForOperation
<1> QED BY <1>1, OmitsFields DEF UploadEnvelope, HasUploadEnvelope

LEMMA AbortTickets ==
  ASSUME NEW t
  PROVE  ValidForOperation("AbortMultipartUpload", t) <=>
           /\ t.list = Nil /\ t.range = Nil /\ t.upload = FALSE /\ t.contentLength = Nil /\ t.contentType = Empty
           /\ ValidKey(t.key) /\ ValidMultipartRequest("AbortMultipartUpload", t.multipart)
<1>1. ValidForOperation("AbortMultipartUpload", t) <=>
        /\ Omits(t, {"list", "range"} \cup UploadEnvelope)
        /\ ValidKey(t.key) /\ ValidMultipartRequest("AbortMultipartUpload", t.multipart)
  BY DEF ValidForOperation
<1> QED BY <1>1, OmitsFields DEF UploadEnvelope, HasUploadEnvelope
-----------------------------------------------------------------------------
(* The S3 client's validation, with the operation resolved: it asks of a   *)
(* request what ValidForOperation asks of a ticket.                        *)
LEMMA FetchOf ==
  ASSUME NEW f, NEW op, ResolveOperation(f.method, f.operation) = op, op # Nil
  PROVE  FetchValid(f) <=>
           /\ ValidBucket(f.bucket)
           /\ IF op # "ListObjectsV2" THEN ValidKey(f.key) /\ f.list = Nil
              ELSE f.key = Empty /\ ValidListRequest(f.list)
           /\ IF op \in {"GetObject", "HeadObject"} THEN ValidByteRange(f.range) ELSE f.range = Nil
           /\ IF op \in MultipartOps THEN ValidMultipartRequest(op, f.multipart) ELSE f.multipart = Nil
           /\ IF op \in UploadOps THEN f.body /\ f.contentLength # Nil /\ f.contentLength >= 0
              ELSE ~f.body /\ f.contentLength = Nil
           /\ IF op \in {"PutObject", "CreateMultipartUpload"} THEN Printable(f.contentType)
              ELSE f.contentType = Empty
           /\ op = "CompleteMultipartUpload" => f.contentLength <= MaxCompleteBody
  BY DEF FetchValid

(* The request a connector makes of a valid ticket is for the ticket's     *)
(* object and operation, and the S3 client takes it.                       *)
LEMMA TicketFetched ==
  ASSUME NEW j, NEW d, NEW now, ValidTicket(TicketOf(j, d), now),
         NEW op, op = ResolveOperation(j.method, j.operation)
  PROVE  LET f == FetchRequest(TicketOf(j, d))
         IN /\ op \in Operations
            /\ ResolveOperation(f.method, f.operation) = op
            /\ f.bucket = j.bucket
            /\ f.body = (op \in UploadOps)
            /\ FetchValid(f)
<1> DEFINE t == TicketOf(j, d)
<1> DEFINE f == FetchRequest(t)
<1>1. /\ t.method = j.method /\ t.operation = j.operation /\ t.bucket = j.bucket
  BY DEF TicketOf
<1>2. op # Nil /\ ValidBucket(t.bucket) /\ ValidForOperation(op, t)
  BY <1>1 DEF ValidTicket
<1>3. op \in Operations /\ ResolveOperation(j.method, op) = op
  BY <1>2, OperationsResolve
<1>4. /\ f.method = t.method /\ f.operation = op /\ f.bucket = t.bucket /\ f.key = t.key
      /\ f.range = t.range /\ f.list = t.list /\ f.multipart = t.multipart
      /\ f.body = (op \in UploadOps)
      /\ f.contentLength = IF op \in UploadOps THEN t.contentLength ELSE Nil
      /\ f.contentType = IF op \in UploadOps \/ op = "CreateMultipartUpload" THEN t.contentType ELSE Empty
  BY <1>1 DEF FetchRequest
<1>5. ResolveOperation(f.method, f.operation) = op
  BY <1>1, <1>3, <1>4
<1> HIDE DEF t, f
<1>6. FetchValid(f)
  <2>1. CASE op = "GetObject"
    BY <1>2, <1>4, <1>5, <2>1, ReadTickets, FetchOf DEF UploadOps, MultipartOps
  <2>2. CASE op = "HeadObject"
    BY <1>2, <1>4, <1>5, <2>2, ReadTickets, FetchOf DEF UploadOps, MultipartOps
  <2>3. CASE op = "ListObjectsV2"
    BY <1>2, <1>4, <1>5, <2>3, ListTickets, FetchOf DEF UploadOps, MultipartOps
  <2>4. CASE op = "PutObject"
    BY <1>2, <1>4, <1>5, <2>4, PutTickets, FetchOf DEF UploadOps, MultipartOps
  <2>5. CASE op = "DeleteObject"
    BY <1>2, <1>4, <1>5, <2>5, DeleteTickets, FetchOf DEF UploadOps, MultipartOps
  <2>6. CASE op = "CreateMultipartUpload"
    BY <1>2, <1>4, <1>5, <2>6, CreateTickets, FetchOf DEF UploadOps, MultipartOps
  <2>7. CASE op = "UploadPart"
    BY <1>2, <1>4, <1>5, <2>7, PartTickets, FetchOf DEF UploadOps, MultipartOps
  <2>8. CASE op = "CompleteMultipartUpload"
    BY <1>2, <1>4, <1>5, <2>8, CompleteTickets, FetchOf DEF UploadOps, MultipartOps
  <2>9. CASE op = "AbortMultipartUpload"
    BY <1>2, <1>4, <1>5, <2>9, AbortTickets, FetchOf DEF UploadOps, MultipartOps
  <2> QED
    BY <1>3, Methods, <2>1, <2>2, <2>3, <2>4, <2>5, <2>6, <2>7, <2>8, <2>9
<1> QED
  BY <1>1, <1>3, <1>4, <1>5, <1>6 DEF f, t
-----------------------------------------------------------------------------
(* The jobs of requests that are not refused: on the S3 API the operation  *)
(* is the one asked for, on the public path it is an object read; a job    *)
(* has a server that may be one, and no field its operation does not have. *)
LEMMA S3Jobs ==
  ASSUME NEW e, NEW r, S3Refusal(e, r) = 0, S3Operation(r) # "HeadBucket"
  PROVE  LET j == S3Job(e, r)
         IN j.operation \in Operations /\ ResolveOperation(j.method, j.operation) = j.operation
<1>1. S3Operation(r) \in Operations /\ MethodOf[S3Operation(r)] = r.method
  BY S3Accepted, S3OperationsAre
<1>2. S3Job(e, r).operation = S3Operation(r) /\ S3Job(e, r).method = r.method
  BY DEF S3Job
<1> QED BY <1>1, <1>2, Resolves1

LEMMA PublicJobs ==
  ASSUME NEW e, NEW r, PublicRefusal(e, r) = 0
  PROVE  LET j == PublicJob(e, r)
         IN /\ j.operation = Nil
            /\ ResolveOperation(j.method, j.operation) \in {"GetObject", "HeadObject"}
            /\ e.signing => Authorized(e, r)
<1>1. r.method \in {"GET", "HEAD"} /\ (e.signing => Authorized(e, r))
  BY DEF PublicRefusal
<1>2. PublicJob(e, r).operation = Nil /\ PublicJob(e, r).method = r.method
  BY DEF PublicJob
<1>3. ResolveOperation(r.method, Nil) \in {"GetObject", "HeadObject"}
  <2>1. CASE r.method = "GET"
    BY <2>1, NilAssumption DEF ResolveOperation
  <2>2. CASE r.method = "HEAD"
    BY <2>2, NilAssumption DEF ResolveOperation
  <2> QED BY <1>1, <2>1, <2>2
<1> QED BY <1>1, <1>2, <1>3

LEMMA JobServers ==
  ASSUME NEW e, NEW r, Refusal(e, r) = 0, ~(UsesS3API(e, r) /\ S3Operation(r) = "HeadBucket")
  PROVE  JobOf(e, r).server = Empty \/ JobOf(e, r).server \in Aliases
<1>1. CASE UsesS3API(e, r)
  <2>1. ValidHead(e, r.path)
    BY <1>1, S3Accepted DEF Refusal, Classified
  <2> QED BY <1>1, <2>1 DEF JobOf, S3Job, ValidHead
<1>2. CASE ~UsesS3API(e, r)
  <2>1. PublicRefusal(e, r) = 0 /\ JobOf(e, r).server = PublicPlace(e, r.path).server
    BY <1>2 DEF Refusal, JobOf, PublicJob
  <2>2. CASE e.multi
    BY <2>1, <2>2 DEF PublicRefusal
  <2>3. CASE ~e.multi
    BY <2>1, <2>3 DEF PublicPlace, Place
  <2> QED BY <2>2, <2>3
<1> QED BY <1>1, <1>2

LEMMA JobShape ==
  ASSUME NEW e, NEW r, Refusal(e, r) = 0, ~(UsesS3API(e, r) /\ S3Operation(r) = "HeadBucket"),
         NEW j, j = JobOf(e, r), NEW op, op = ResolveOperation(j.method, j.operation)
  PROVE  /\ op \in Operations
         /\ j.operation = op \/ (j.operation = Nil /\ op \in {"GetObject", "HeadObject"})
         /\ op # "ListObjectsV2" => j.list = Nil
         /\ op = "ListObjectsV2" => j.key = Empty
         /\ op \notin {"GetObject", "HeadObject"} => j.range = Nil
         /\ op \notin MultipartOps => j.multipart = Nil
         /\ op \notin {"PutObject", "CreateMultipartUpload"} => j.contentType = Empty
<1>1. CASE UsesS3API(e, r)
  <2>1. j = S3Job(e, r) /\ S3Refusal(e, r) = 0 /\ S3Operation(r) # "HeadBucket"
    BY <1>1 DEF JobOf, Refusal
  <2>2. op = j.operation /\ op \in Operations /\ op = S3Operation(r)
    BY <2>1, S3Jobs DEF S3Job
  <2> QED BY <2>1, <2>2 DEF S3Job
<1>2. CASE ~UsesS3API(e, r)
  <2>1. j = PublicJob(e, r) /\ PublicRefusal(e, r) = 0
    BY <1>2 DEF JobOf, Refusal
  <2>2. j.operation = Nil /\ op \in {"GetObject", "HeadObject"}
    BY <2>1, PublicJobs
  <2> QED BY <2>1, <2>2, Methods DEF PublicJob, MultipartOps
<1> QED BY <1>1, <1>2

(* The two ways to a server's S3 accept the same jobs.                     *)
LEMMA JobsAgree ==
  ASSUME NEW e, NEW r, Refusal(e, r) = 0, ~(UsesS3API(e, r) /\ S3Operation(r) = "HeadBucket"),
         NEW j, j = JobOf(e, r)
  PROVE  ValidTicket(TicketOf(j, TicketDeadline), 0) <=> FetchValid(DirectRequest(j))
<1> DEFINE op == ResolveOperation(j.method, j.operation)
<1> DEFINE t == TicketOf(j, TicketDeadline)
<1> DEFINE f == DirectRequest(j)
<1>1. j.server = Empty \/ j.server \in Aliases
  BY JobServers
<1>2. /\ op \in Operations
      /\ j.operation = op \/ (j.operation = Nil /\ op \in {"GetObject", "HeadObject"})
      /\ op # "ListObjectsV2" => j.list = Nil
      /\ op = "ListObjectsV2" => j.key = Empty
      /\ op \notin {"GetObject", "HeadObject"} => j.range = Nil
      /\ op \notin MultipartOps => j.multipart = Nil
      /\ op \notin {"PutObject", "CreateMultipartUpload"} => j.contentType = Empty
  BY JobShape
<1>3. /\ (j.operation \in UploadOps) = (op \in UploadOps)
      /\ (j.operation = "CreateMultipartUpload") = (op = "CreateMultipartUpload")
      /\ (j.operation \in {"PutObject", "CreateMultipartUpload"}) = (op \in {"PutObject", "CreateMultipartUpload"})
  BY <1>2, Methods, NilAssumption DEF UploadOps
<1>4. /\ t.method = j.method /\ t.operation = j.operation /\ t.server = j.server /\ t.deadline = 1
      /\ t.bucket = j.bucket /\ t.key = j.key /\ t.range = j.range /\ t.list = j.list
      /\ t.multipart = j.multipart /\ t.upload = (j.operation \in UploadOps)
      /\ t.contentLength = IF op \in UploadOps THEN j.length ELSE Nil
      /\ t.contentType = IF op \in UploadOps \/ op = "CreateMultipartUpload" THEN j.contentType ELSE Empty
  BY <1>3 DEF TicketOf, TicketDeadline
<1>5. /\ f.method = j.method /\ f.operation = j.operation /\ f.bucket = j.bucket /\ f.key = j.key
      /\ f.range = j.range /\ f.list = j.list /\ f.multipart = j.multipart
      /\ f.body = (op \in UploadOps)
      /\ f.contentLength = IF op \in UploadOps THEN j.length ELSE Nil
      /\ f.contentType = IF op \in {"PutObject", "CreateMultipartUpload"} THEN j.contentType ELSE Empty
  BY <1>3 DEF DirectRequest
<1>body. (op \in UploadOps => t.upload = TRUE) /\ (op \notin UploadOps => t.upload = FALSE)
  <2> HIDE DEF op
  <2>1. t.upload = (j.operation \in UploadOps)
    BY DEF TicketOf
  <2> HIDE DEF t
  <2>2. CASE op \in UploadOps
    <3>1. (j.operation \in UploadOps) = TRUE
      BY <1>3, <2>2
    <3> QED BY <2>1, <2>2, <3>1
  <2>3. CASE op \notin UploadOps
    <3>1. (j.operation \in UploadOps) = FALSE
      BY <1>3, <2>3
    <3> QED BY <2>1, <2>3, <3>1
  <2> QED BY <2>2, <2>3
<1>6. op # Nil
  BY <1>2, NilAssumption
<1> HIDE DEF t, f, op
<1>7. ResolveOperation(t.method, t.operation) = op /\ ResolveOperation(f.method, f.operation) = op
  BY <1>4, <1>5 DEF op
<1>8. ValidTicket(t, 0) <=> ValidBucket(j.bucket) /\ ValidForOperation(op, t)
  BY <1>1, <1>4, <1>6, <1>7 DEF ValidTicket
<1>9. ValidBucket(j.bucket) /\ ValidForOperation(op, t) <=> FetchValid(f)
  <2>1. CASE op = "GetObject"
    <3>1. ValidForOperation(op, t) <=> ValidKey(j.key) /\ ValidByteRange(j.range)
      BY <1>2, <1>4, <1>body, <2>1, ReadTickets DEF UploadOps, MultipartOps
    <3>2. FetchValid(f) <=> ValidBucket(j.bucket) /\ ValidKey(j.key) /\ ValidByteRange(j.range)
      BY <1>2, <1>5, <1>6, <1>7, <2>1, FetchOf DEF UploadOps, MultipartOps
    <3> QED BY <3>1, <3>2
  <2>2. CASE op = "HeadObject"
    <3>1. ValidForOperation(op, t) <=> ValidKey(j.key) /\ ValidByteRange(j.range)
      BY <1>2, <1>4, <1>body, <2>2, ReadTickets DEF UploadOps, MultipartOps
    <3>2. FetchValid(f) <=> ValidBucket(j.bucket) /\ ValidKey(j.key) /\ ValidByteRange(j.range)
      BY <1>2, <1>5, <1>6, <1>7, <2>2, FetchOf DEF UploadOps, MultipartOps
    <3> QED BY <3>1, <3>2
  <2>3. CASE op = "ListObjectsV2"
    <3>1. ValidForOperation(op, t) <=> ValidListRequest(j.list)
      BY <1>2, <1>4, <1>body, <2>3, ListTickets DEF UploadOps, MultipartOps
    <3>2. FetchValid(f) <=> ValidBucket(j.bucket) /\ ValidListRequest(j.list)
      BY <1>2, <1>5, <1>6, <1>7, <2>3, FetchOf DEF UploadOps, MultipartOps
    <3> QED BY <3>1, <3>2
  <2>4. CASE op = "PutObject"
    <3>1. ValidForOperation(op, t) <=> ValidKey(j.key) /\ j.length # Nil /\ j.length >= 0 /\ Printable(j.contentType)
      BY <1>2, <1>4, <1>body, <2>4, PutTickets DEF UploadOps, MultipartOps
    <3>2. FetchValid(f) <=> ValidBucket(j.bucket) /\ ValidKey(j.key) /\ j.length # Nil /\ j.length >= 0 /\ Printable(j.contentType)
      BY <1>2, <1>5, <1>6, <1>7, <2>4, FetchOf DEF UploadOps, MultipartOps
    <3> QED BY <3>1, <3>2
  <2>5. CASE op = "DeleteObject"
    <3>1. ValidForOperation(op, t) <=> ValidKey(j.key)
      BY <1>2, <1>4, <1>body, <2>5, DeleteTickets DEF UploadOps, MultipartOps
    <3>2. FetchValid(f) <=> ValidBucket(j.bucket) /\ ValidKey(j.key)
      BY <1>2, <1>5, <1>6, <1>7, <2>5, FetchOf DEF UploadOps, MultipartOps
    <3> QED BY <3>1, <3>2
  <2>6. CASE op = "CreateMultipartUpload"
    <3>1. ValidForOperation(op, t) <=> ValidKey(j.key) /\ Printable(j.contentType) /\ ValidMultipartRequest(op, j.multipart)
      BY <1>2, <1>4, <1>body, <2>6, CreateTickets DEF UploadOps, MultipartOps
    <3>2. FetchValid(f) <=> ValidBucket(j.bucket) /\ ValidKey(j.key) /\ Printable(j.contentType) /\ ValidMultipartRequest(op, j.multipart)
      BY <1>2, <1>5, <1>6, <1>7, <2>6, FetchOf DEF UploadOps, MultipartOps
    <3> QED BY <3>1, <3>2
  <2>7. CASE op = "UploadPart"
    <3>1. ValidForOperation(op, t) <=> ValidKey(j.key) /\ j.length # Nil /\ j.length >= 0 /\ ValidMultipartRequest(op, j.multipart)
      BY <1>2, <1>4, <1>body, <2>7, PartTickets DEF UploadOps, MultipartOps
    <3>2. FetchValid(f) <=> ValidBucket(j.bucket) /\ ValidKey(j.key) /\ j.length # Nil /\ j.length >= 0 /\ ValidMultipartRequest(op, j.multipart)
      BY <1>2, <1>5, <1>6, <1>7, <2>7, FetchOf DEF UploadOps, MultipartOps
    <3> QED BY <3>1, <3>2
  <2>8. CASE op = "CompleteMultipartUpload"
    <3>1. ValidForOperation(op, t) <=> ValidKey(j.key) /\ j.length # Nil /\ j.length >= 0 /\ j.length <= MaxCompleteBody /\ ValidMultipartRequest(op, j.multipart)
      BY <1>2, <1>4, <1>body, <2>8, CompleteTickets DEF UploadOps, MultipartOps
    <3>2. FetchValid(f) <=> ValidBucket(j.bucket) /\ ValidKey(j.key) /\ j.length # Nil /\ j.length >= 0 /\ j.length <= MaxCompleteBody /\ ValidMultipartRequest(op, j.multipart)
      BY <1>2, <1>5, <1>6, <1>7, <2>8, FetchOf DEF UploadOps, MultipartOps
    <3> QED BY <3>1, <3>2
  <2>9. CASE op = "AbortMultipartUpload"
    <3>1. ValidForOperation(op, t) <=> ValidKey(j.key) /\ ValidMultipartRequest(op, j.multipart)
      BY <1>2, <1>4, <1>body, <2>9, AbortTickets DEF UploadOps, MultipartOps
    <3>2. FetchValid(f) <=> ValidBucket(j.bucket) /\ ValidKey(j.key) /\ ValidMultipartRequest(op, j.multipart)
      BY <1>2, <1>5, <1>6, <1>7, <2>9, FetchOf DEF UploadOps, MultipartOps
    <3> QED BY <3>1, <3>2
  <2> QED
    BY <1>2, Methods, <2>1, <2>2, <2>3, <2>4, <2>5, <2>6, <2>7, <2>8, <2>9
<1> QED
  BY <1>8, <1>9 DEF f, t
-----------------------------------------------------------------------------
LEMMA PathInit == Init => PathInv
<1> SUFFICES ASSUME Init PROVE PathInv
  OBVIOUS
<1>1. JobInv
  BY DEF Init, JobInv
<1>2. CallInv
  BY DEF Init, CallInv
<1>3. AnswerInv
  BY DEF Init, AnswerInv, Truthful
<1> QED BY <1>1, <1>2, <1>3 DEF PathInv

(* Configuration, request and job stay what they are, and with them what   *)
(* was accepted.                                                           *)
LEMMA Kept ==
  ASSUME UNCHANGED <<config, req, job>>
  PROVE  /\ Resolved' = Resolved /\ Ticketed' = Ticketed /\ Operation' = Operation /\ Ticket' = Ticket
         /\ DirectServer(job.server)' = DirectServer(job.server)
<1>1. UNCHANGED <<env, edge, connectors, req, job>>
  BY DEF config
<1> QED BY <1>1 DEF Resolved, ForHeadBucket, Ticketed, Operation, Ticket, DirectServer

LEMMA FetchedKept ==
  ASSUME Fetched, UNCHANGED <<config, req, job, conn, fetch>>
  PROVE  Fetched'
  BY Kept DEF config, Fetched

(* The edge answers on its own before anything was published or fetched.   *)
LEMMA AnsweredStep ==
  ASSUME PathInv, place = "new", NEW status, Answered(status),
         job' = job \/ Resolved',
         job' = job \/ ~(status \in 200..299)
  PROVE  PathInv'
<1> USE DEF PathInv, Answered
<1>1. UNCHANGED <<env, edge, connectors, req>>
  BY DEF config
<1>2. JobInv'
  BY <1>1 DEF JobInv
<1>3. CallInv'
  BY DEF JobInv, CallInv
<1>4. AnswerInv'
  BY DEF JobInv, AnswerInv, Truthful
<1> QED BY <1>2, <1>3, <1>4

(* What the edge resolves is the job of the request.                       *)
LEMMA ResolvesIsResolved ==
  ASSUME Resolves, UNCHANGED <<config, req>>
  PROVE  Resolved' /\ DirectServer(job.server)' = DirectServer(job'.server)
<1>1. UNCHANGED <<env, edge, connectors, req>>
  BY DEF config
<1> QED BY <1>1 DEF Resolves, Resolved, ForHeadBucket, DirectServer

LEMMA RefuseStep == ASSUME PathInv, Refuse PROVE PathInv'
  BY AnsweredStep DEF Refuse

LEMMA HeadBucketStep == ASSUME PathInv, HeadBucket PROVE PathInv'
<1>1. PICK status : place = "new" /\ Answered(status) /\ UNCHANGED job
  BY DEF HeadBucket
<1> QED BY <1>1, AnsweredStep

LEMMA NotAllowedStep == ASSUME PathInv, NotAllowed PROVE PathInv'
<1>1. place = "new" /\ Answered(403) /\ Resolves
  BY DEF NotAllowed, Resolves
<1>2. Resolved'
  BY <1>1, ResolvesIsResolved DEF Answered
<1> QED BY <1>1, <1>2, AnsweredStep

LEMMA InvalidTicketStep == ASSUME PathInv, InvalidTicket PROVE PathInv'
<1>1. PICK status \in {400, 503} : place = "new" /\ Answered(status) /\ Resolves
  BY DEF InvalidTicket, Resolves
<1>2. Resolved'
  BY <1>1, ResolvesIsResolved DEF Answered
<1> QED BY <1>1, <1>2, AnsweredStep

LEMMA ServeDirectStep == ASSUME PathInv, ServeDirect PROVE PathInv'
<1>1. place = "new" /\ Resolves /\ DirectServer(job'.server)
  BY DEF ServeDirect, Resolves
<1>2. CASE job'.bucket \notin edge.direct[job'.server]
  <2>1. Answered(403)
    BY <1>2 DEF ServeDirect
  <2>2. Resolved'
    BY <1>1, <2>1, ResolvesIsResolved DEF Answered
  <2> QED BY <1>1, <2>1, <2>2, AnsweredStep
<1>3. CASE job'.bucket \in edge.direct[job'.server]
  <2>1. /\ fetch' = DirectRequest(job') /\ place' = "fetching"
        /\ UNCHANGED <<config, req, conn, call, effect, reply, answer>>
    BY <1>3 DEF ServeDirect
  <2>2. UNCHANGED <<env, edge, connectors, req>>
    BY <2>1 DEF config
  <2>3. Resolved' /\ DirectServer(job.server)'
    BY <1>1, <2>1, ResolvesIsResolved
  <2>4. JobInv'
    BY <1>1, <2>1, <2>2, <2>3 DEF PathInv, JobInv
  <2>5. CallInv'
    <3>1. conn' = Nil /\ call' = Nil
      BY <1>1, <2>1 DEF PathInv, JobInv
    <3>2. Fetched'
      BY <1>3, <2>1, <2>2, <2>3, <3>1 DEF Fetched
    <3> QED BY <2>1, <3>1, <3>2 DEF CallInv
  <2>6. AnswerInv'
    BY <1>1, <2>1 DEF PathInv, JobInv, AnswerInv, Truthful
  <2> QED BY <2>4, <2>5, <2>6 DEF PathInv
<1> QED BY <1>2, <1>3

LEMMA PublishStep == ASSUME PathInv, Publish PROVE PathInv'
<1>1. /\ place = "new" /\ Resolves /\ ~DirectServer(job'.server) /\ job'.bucket \in edge.allowed
      /\ ValidTicket(TicketOf(job', TicketDeadline), 0)
      /\ place' \in {"published", "done"}
      /\ place' = "published" => answer' \in {Nil, 503}
      /\ place' = "done" => answer' = 503
      /\ UNCHANGED <<config, req, conn, fetch, call, effect, reply>>
  BY DEF Publish, Resolves
<1>2. UNCHANGED <<env, edge, connectors, req>>
  BY <1>1 DEF config
<1>3. Resolved' /\ ~DirectServer(job.server)'
  BY <1>1, ResolvesIsResolved
<1>4. Ticketed'
  BY <1>1, <1>2, <1>3 DEF Ticketed, Ticket
<1>5. JobInv'
  BY <1>1, <1>2, <1>3, <1>4 DEF PathInv, JobInv
<1>6. CallInv'
  BY <1>1 DEF PathInv, JobInv, CallInv
<1>7. AnswerInv'
  BY <1>1 DEF PathInv, JobInv, AnswerInv, Truthful
<1> QED BY <1>5, <1>6, <1>7 DEF PathInv
-----------------------------------------------------------------------------
LEMMA DeadlineStep == ASSUME PathInv, Deadline PROVE PathInv'
<1> USE DEF PathInv, Deadline
<1>1. UNCHANGED <<env, edge, connectors, req>>
  BY DEF config
<1>2. JobInv'
  BY <1>1, Kept DEF JobInv
<1>3. CallInv'
  BY Kept, FetchedKept DEF CallInv
<1>4. AnswerInv'
  BY Kept DEF AnswerInv, Truthful
<1> QED BY <1>2, <1>3, <1>4

(* A connector that drops its ticket, refuses it, or goes on to fetch.     *)
LEMMA TakeStep == ASSUME PathInv, Take PROVE PathInv'
<1>1. PICK c \in connectors, now \in ConnectorClock :
        Drop(c, Ticket, now) \/ TakeRefused(c, Ticket, now) \/ TakeAccepted(c, Ticket, now)
  BY DEF Take, Ticket
<1>2. place = "published" /\ UNCHANGED <<config, req, job, call, effect, answer>>
  BY DEF Take
<1>3. UNCHANGED <<env, edge, connectors, req>>
  BY <1>2 DEF config
<1>4. /\ Ticketed /\ conn = Nil /\ fetch = Nil /\ call = Nil /\ effect = Nil /\ reply = Nil /\ c # Nil
      /\ answer \in {Nil, 503, 504}
  BY <1>2 DEF PathInv, JobInv, AnswerInv
<1>5. Ticketed' /\ Operation' = Operation /\ Ticket' = Ticket /\ (job' # Nil => Resolved')
  BY <1>2, <1>4, Kept DEF PathInv, JobInv
<1>6. CASE Drop(c, Ticket, now)
  <2>1. JobInv'
    BY <1>2, <1>3, <1>4, <1>5, <1>6 DEF Drop, PathInv, JobInv
  <2>2. CallInv'
    BY <1>2, <1>4, <1>6 DEF Drop, CallInv
  <2>3. AnswerInv'
    BY <1>2, <1>4, <1>6 DEF Drop, AnswerInv, Truthful
  <2> QED BY <2>1, <2>2, <2>3 DEF PathInv
<1>7. CASE TakeRefused(c, Ticket, now)
  <2> USE DEF TakeRefused, Replies
  <2>1. JobInv'
    BY <1>2, <1>3, <1>4, <1>5, <1>7 DEF PathInv, JobInv
  <2>2. CallInv'
    BY <1>2, <1>4, <1>7 DEF CallInv
  <2>3. AnswerInv'
    BY <1>2, <1>4, <1>7 DEF AnswerInv, Truthful
  <2> QED BY <2>1, <2>2, <2>3 DEF PathInv
<1>8. CASE TakeAccepted(c, Ticket, now)
  <2>1. /\ conn' = c /\ fetch' = FetchRequest(Ticket) /\ place' \in {"opening", "fetching"} /\ UNCHANGED reply
        /\ Accepts(c, Ticket, now) /\ (Operation \in MutationOps => c.mutations)
    <3>1. Ticket.method = job.method /\ Ticket.operation = job.operation
      BY DEF Ticket, TicketOf
    <3> QED BY <1>8, <3>1 DEF TakeAccepted, Operation
  <2>2. JobInv'
    BY <1>2, <1>3, <1>4, <1>5, <2>1 DEF PathInv, JobInv
  <2>3. Fetched'
    BY <1>4, <1>5, <2>1 DEF Fetched, Accepts
  <2>4. CallInv'
    BY <1>2, <1>4, <2>1, <2>3 DEF CallInv
  <2>5. AnswerInv'
    BY <1>2, <1>4, <2>1 DEF AnswerInv, Truthful
  <2> QED BY <2>2, <2>4, <2>5 DEF PathInv
<1> QED BY <1>1, <1>6, <1>7, <1>8

LEMMA OpenUploadStep == ASSUME PathInv, OpenUpload PROVE PathInv'
<1>1. /\ place = "opening" /\ UNCHANGED <<config, req, job, conn, fetch, call, effect, answer>>
      /\ \/ reply' = 503 /\ place' = "sending"
         \/ place' = "fetching" /\ UNCHANGED reply
  BY DEF OpenUpload, Replies
<1>2. UNCHANGED <<env, edge, connectors, req>>
  BY <1>1 DEF config
<1>3. JobInv'
  BY <1>1, <1>2, Kept DEF PathInv, JobInv
<1>4. CallInv'
  BY <1>1, Kept, FetchedKept DEF PathInv, CallInv
<1>5. AnswerInv'
  BY <1>1, Kept DEF PathInv, JobInv, AnswerInv, Truthful
<1> QED BY <1>3, <1>4, <1>5 DEF PathInv

(* Whatever is fetched is for the bucket and the operation of the job.     *)
LEMMA FetchedIs ==
  ASSUME Fetched, FetchValid(fetch)
  PROVE  /\ ResolveOperation(fetch.method, fetch.operation) = Operation
         /\ fetch.bucket = job.bucket
         /\ fetch.body = (Operation \in UploadOps)
<1>1. CASE conn = Nil
  <2>1. /\ fetch.method = job.method /\ fetch.operation = job.operation /\ fetch.bucket = job.bucket
        /\ fetch.body = (job.operation \in UploadOps)
    BY <1>1 DEF Fetched, DirectRequest
  <2>2. ResolveOperation(job.method, job.operation) = Operation
    BY DEF Operation
  <2>3. Operation # Nil
    BY <2>1, <2>2 DEF FetchValid
  <2>4. (job.operation \in UploadOps) = (Operation \in UploadOps)
    <3>1. CASE job.operation = Nil
      BY <2>2, <2>3, <3>1, OperationsResolve, NilAssumption, Methods DEF UploadOps
    <3>2. CASE job.operation # Nil
      BY <2>2, <2>3, <3>2, OperationsResolve
    <3> QED BY <3>1, <3>2
  <2> QED BY <2>1, <2>2, <2>4
<1>2. CASE conn # Nil
  <2>1. ValidTicket(TicketOf(job, TicketDeadline), 0) /\ fetch = FetchRequest(TicketOf(job, TicketDeadline))
    BY <1>2 DEF Fetched, Ticketed, Ticket
  <2> QED BY <2>1, TicketFetched DEF Operation
<1> QED BY <1>1, <1>2

LEMMA CallStep == ASSUME PathInv, Call PROVE PathInv'
<1> DEFINE op == ResolveOperation(fetch.method, fetch.operation)
<1>1. /\ place = "fetching" /\ UNCHANGED <<config, req, job, conn, fetch, effect, answer>>
      /\ \/ reply' = 400 /\ place' = "sending" /\ UNCHANGED call
         \/ /\ FetchValid(fetch) /\ place' = "called" /\ UNCHANGED reply
            /\ call'.op = op /\ call'.bucket = fetch.bucket
  BY DEF Call, Called, Replies, StatusForFetchError
<1>2. UNCHANGED <<env, edge, connectors, req>>
  BY <1>1 DEF config
<1>3. JobInv'
  BY <1>1, <1>2, Kept DEF PathInv, JobInv
<1>4. CallInv'
  <2>1. Fetched /\ Fetched'
    BY <1>1, FetchedKept DEF PathInv, CallInv
  <2>2. FetchValid(fetch) => op = Operation
    BY <2>1, FetchedIs
  <2> QED BY <1>1, <2>1, <2>2, Kept DEF PathInv, CallInv
<1>5. AnswerInv'
  BY <1>1, Kept DEF PathInv, JobInv, AnswerInv, Truthful
<1> QED BY <1>3, <1>4, <1>5 DEF PathInv
-----------------------------------------------------------------------------
LEMMA S3DeclinesStep == ASSUME PathInv, S3Declines PROVE PathInv'
<1>1. /\ place = "called" /\ place' = "sending"
      /\ UNCHANGED <<config, req, job, conn, fetch, call, effect, answer>>
      /\ reply' \in {400, 404, 503}
  BY DEF S3Declines, Replies, StatusForFetchError
<1>2. UNCHANGED <<env, edge, connectors, req>>
  BY <1>1 DEF config
<1>3. JobInv'
  BY <1>1, <1>2, Kept DEF PathInv, JobInv
<1>4. CallInv'
  BY <1>1, Kept, FetchedKept DEF PathInv, CallInv
<1>5. AnswerInv'
  BY <1>1, Kept DEF PathInv, JobInv, AnswerInv, Truthful
<1> QED BY <1>3, <1>4, <1>5 DEF PathInv

(* An upload is of a length that is a number.                              *)
LEMMA UploadLengths ==
  ASSUME JobInv, Resolved, Operation \in UploadOps
  PROVE  job.length \in Nat /\ req.sent \in Nat
<1>1. job = JobOf(edge, req) /\ Refusal(edge, req) = 0 /\ ~ForHeadBucket
  BY DEF Resolved
<1>2. UsesS3API(edge, req)
  <2>1. SUFFICES ASSUME ~UsesS3API(edge, req) PROVE FALSE
    OBVIOUS
  <2>2. job = PublicJob(edge, req) /\ PublicRefusal(edge, req) = 0
    BY <1>1, <2>1 DEF JobOf, Refusal
  <2>3. Operation \in {"GetObject", "HeadObject"}
    BY <2>2, PublicJobs DEF Operation
  <2> QED BY <2>3 DEF UploadOps
<1>3. job = S3Job(edge, req) /\ S3Refusal(edge, req) = 0 /\ S3Operation(req) # "HeadBucket"
  BY <1>1, <1>2 DEF JobOf, Refusal, ForHeadBucket
<1>4. Operation = S3Operation(req)
  BY <1>3, S3Jobs DEF Operation, S3Job
<1>5. ValidMutation(S3Operation(req), req)
  BY <1>3, <1>4, S3Accepted, Methods DEF UploadOps, MutationOps, ReadOps
<1>6. job.length = UploadLength(req)
  BY <1>3, <1>4 DEF S3Job
<1>7. req.sent \in Nat /\ req.length \in Int /\ req.decoded \in Int \cup {Nil}
  BY RequestsAssumption DEF JobInv
<1> QED BY <1>4, <1>5, <1>6, <1>7 DEF ValidMutation, UploadLength

LEMMA S3DoesStep == ASSUME PathInv, S3Does PROVE PathInv'
<1>1. /\ place = "called" /\ place' = "sending" /\ ~BodyIsShort
      /\ UNCHANGED <<config, req, job, conn, fetch, call, answer>>
      /\ effect' = IF call.op \in MutationOps
                   THEN [op |-> call.op, bytes |-> IF call.op \in StoredOps THEN Delivered ELSE 0] ELSE Nil
      /\ \/ reply' \in {200, 204, 206} \/ reply' = 503
         \/ reply' = 404 /\ call.op \in {"CompleteMultipartUpload", "AbortMultipartUpload"}
  BY DEF S3Does, Replies, StatusOf, Lost, StatusForFetchError
<1>2. UNCHANGED <<env, edge, connectors, req>>
  BY <1>1 DEF config
<1>3. Fetched /\ Resolved /\ FetchValid(fetch) /\ call.op = Operation
  BY <1>1 DEF PathInv, CallInv, Fetched, Ticketed
<1>4. JobInv'
  BY <1>1, <1>2, Kept DEF PathInv, JobInv
<1>5. CallInv'
  BY <1>1, Kept, FetchedKept DEF PathInv, CallInv
<1>6. AnswerInv'
  <2>1. answer' \in {Nil, 503, 504}
    BY <1>1 DEF PathInv, AnswerInv
  <2>2. Operation \in StoredOps => Operation \in UploadOps
    BY DEF StoredOps, UploadOps
  <2>3. ASSUME Operation \in StoredOps
        PROVE  Delivered = job.length /\ Delivered \in Nat
    BY <1>1, <1>3, <2>2, <2>3, UploadLengths DEF PathInv, BodyIsShort, Delivered
  <2>4. ASSUME Operation \in MutationOps
        PROVE  effect' # Nil /\ effect'.op = Operation /\ (Operation \in StoredOps => effect'.bytes = job.length)
    <3> DEFINE bytes == IF Operation \in StoredOps THEN Delivered ELSE 0
    <3>1. bytes \in Nat /\ (Operation \in StoredOps => bytes = job.length)
      BY <2>3
    <3>2. effect' = [op |-> Operation, bytes |-> bytes]
      BY <1>1, <1>3, <2>4
    <3> HIDE DEF bytes
    <3> QED BY <2>4, <3>1, <3>2, NilAssumption
  <2>5. effect' # Nil => effect'.op = Operation
    BY <1>1, <1>3, <2>4
  <2> QED BY <1>1, <1>3, <2>1, <2>4, <2>5, Kept DEF AnswerInv, Truthful
<1> QED BY <1>4, <1>5, <1>6 DEF PathInv

LEMMA SendStep == ASSUME PathInv, Send PROVE PathInv'
<1>1. /\ place = "sending" /\ place' = "done" /\ (answer' = reply \/ answer' = answer)
      /\ UNCHANGED <<config, req, job, conn, fetch, call, effect, reply>>
  BY DEF Send
<1>2. UNCHANGED <<env, edge, connectors, req>>
  BY <1>1 DEF config
<1>3. JobInv'
  BY <1>1, <1>2, Kept DEF PathInv, JobInv
<1>4. CallInv'
  BY <1>1, Kept, FetchedKept DEF PathInv, CallInv
<1>5. AnswerInv'
  BY <1>1, Kept DEF PathInv, JobInv, AnswerInv, Truthful
<1> QED BY <1>3, <1>4, <1>5 DEF PathInv
-----------------------------------------------------------------------------
LEMMA PathNext == ASSUME PathInv, [Next]_vars PROVE PathInv'
<1>1. CASE UNCHANGED vars
  <2>1. UNCHANGED <<config, req, job, place, conn, fetch, call, effect, reply, answer>>
    BY <1>1 DEF vars
  <2>2. UNCHANGED <<env, edge, connectors, req>>
    BY <2>1 DEF config
  <2>3. JobInv'
    BY <2>1, <2>2, Kept DEF PathInv, JobInv
  <2>4. CallInv'
    BY <2>1, Kept, FetchedKept DEF PathInv, CallInv
  <2>5. AnswerInv'
    BY <2>1, Kept DEF PathInv, AnswerInv, Truthful
  <2> QED BY <2>3, <2>4, <2>5 DEF PathInv
<1>2. CASE Next
  BY <1>2, RefuseStep, HeadBucketStep, ServeDirectStep, NotAllowedStep, InvalidTicketStep, PublishStep,
     DeadlineStep, TakeStep, OpenUploadStep, CallStep, S3DeclinesStep, S3DoesStep, SendStep DEF Next
<1> QED BY <1>1, <1>2

(* PathInv holds in every state of every request's way.                    *)
THEOREM PathInductive == Spec => []PathInv
<1>1. Init => PathInv
  BY PathInit
<1>2. PathInv /\ [Next]_vars => PathInv'
  BY PathNext
<1> QED BY <1>1, <1>2, PTL DEF Spec

(* No call of S3 passes an allowlist, a switch or a signature by, whatever *)
(* the configurations: the checks of resolveS3Request,                     *)
(* validatePublicRequest and serveDirect, and of handleTicket.             *)
THEOREM CallsAreAllowed == Spec => []OnlyWhatIsAllowed
<1>1. ASSUME PathInv PROVE OnlyWhatIsAllowed
  <2>1. SUFFICES ASSUME call # Nil PROVE OnlyWhatIsAllowed
    BY DEF OnlyWhatIsAllowed
  <2>2. Fetched /\ FetchValid(fetch) /\ call.op = Operation /\ call.bucket = fetch.bucket
    BY <1>1, <2>1 DEF PathInv, CallInv
  <2>3. Resolved /\ call.bucket = job.bucket
    BY <2>2, FetchedIs DEF Fetched, Ticketed
  <2>4. IF conn = Nil THEN call.bucket \in edge.direct[job.server]
        ELSE /\ call.bucket \in edge.allowed \cap conn.allowed \cap conn.s3allowed
             /\ conn.server \in {Empty, job.server}
    <3>1. Ticket.bucket = job.bucket /\ Ticket.server = job.server
      BY DEF Ticket, TicketOf
    <3> QED BY <2>2, <2>3, <3>1 DEF Fetched, Ticketed, Accepts
  <2>5. Operation \in MutationOps /\ conn # Nil => conn.mutations
    BY <2>2 DEF Fetched
  <2>6. CASE UsesS3API(edge, req)
    <3>1. job = S3Job(edge, req) /\ S3Refusal(edge, req) = 0 /\ S3Operation(req) # "HeadBucket"
      BY <2>3, <2>6 DEF Resolved, JobOf, Refusal, ForHeadBucket
    <3>2. Operation = S3Operation(req)
      BY <3>1, S3Jobs DEF Operation, S3Job
    <3> QED BY <2>2, <2>4, <2>5, <2>6, <3>1, <3>2, S3Accepted DEF OnlyWhatIsAllowed
  <2>7. CASE ~UsesS3API(edge, req)
    <3>1. job = PublicJob(edge, req) /\ PublicRefusal(edge, req) = 0
      BY <2>3, <2>7 DEF Resolved, JobOf, Refusal
    <3>2. Operation \in {"GetObject", "HeadObject"} /\ (edge.signing => Authorized(edge, req))
      BY <3>1, PublicJobs DEF Operation
    <3>3. Operation \notin MutationOps
      BY <3>2 DEF MutationOps, ReadOps
    <3> QED BY <2>2, <2>4, <2>7, <3>2, <3>3 DEF OnlyWhatIsAllowed
  <2> QED BY <2>6, <2>7
<1> QED BY <1>1, PathInductive, PTL

(* A server behind a connector takes the jobs a direct server takes, and   *)
(* the connector's S3 client never refuses what ticket validation let by:  *)
(* Ticket.Validate and validateRequest of s3fetch say the same.            *)
THEOREM BothWaysAgree == Spec => []PathsAgree
<1>1. ASSUME PathInv PROVE PathsAgree
  <2>1. job # Nil => (ValidTicket(TicketOf(job, TicketDeadline), 0) <=> FetchValid(DirectRequest(job)))
    BY <1>1, JobsAgree DEF PathInv, JobInv, Resolved, ForHeadBucket
  <2>2. conn # Nil /\ fetch # Nil => FetchValid(fetch)
    <3>1. SUFFICES ASSUME conn # Nil, fetch # Nil PROVE FetchValid(fetch)
      OBVIOUS
    <3>2. fetch = FetchRequest(TicketOf(job, TicketDeadline)) /\ ValidTicket(TicketOf(job, TicketDeadline), 0)
      BY <1>1, <3>1 DEF PathInv, CallInv, Fetched, Ticketed, Ticket
    <3> QED BY <3>2, TicketFetched
  <2> QED BY <2>1, <2>2 DEF PathsAgree
<1> QED BY <1>1, PathInductive, PTL

(* Success is reported only for a mutation that was done, what it stores   *)
(* being of the declared length, and a client error only for one that was  *)
(* not (but for an upload that the first of two tries ended): the statuses *)
(* of handleTicket, of serveDirect and of the edge's own refusals and      *)
(* deadline.                                                               *)
THEOREM StatusIsTrue == Spec => []AnswersAreTrue
<1>1. PathInv => AnswersAreTrue
  BY DEF PathInv, AnswerInv, Truthful, AnswersAreTrue
<1> QED BY <1>1, PathInductive, PTL
-----------------------------------------------------------------------------
(* What is called names what the job does: the S3 client takes the bucket, *)
(* the key and the upload of the job over, by way of a ticket or not.      *)
LEMMA FetchedNames ==
  ASSUME Fetched
  PROVE  fetch.key = job.key /\ fetch.multipart = job.multipart
<1>1. CASE conn = Nil
  BY <1>1 DEF Fetched, DirectRequest
<1>2. CASE conn # Nil
  BY <1>2 DEF Fetched, Ticket, TicketOf, FetchRequest
<1> QED BY <1>1, <1>2

LEMMA NamedKept ==
  ASSUME NamedInv, UNCHANGED <<job, req, call>>
  PROVE  NamedInv'
<1>1. Operation' = Operation
  BY DEF Operation
<1> QED BY <1>1 DEF NamedInv

LEMMA CallNamed == ASSUME PathInv, NamedInv, Call PROVE NamedInv'
<1> DEFINE op == ResolveOperation(fetch.method, fetch.operation)
<1>1. place = "fetching" /\ UNCHANGED <<req, job>>
  BY DEF Call, config
<1>2. Operation' = Operation
  BY <1>1 DEF Operation
<1>3. CASE UNCHANGED call
  BY <1>1, <1>3, NamedKept
<1>4. CASE ~UNCHANGED call
  <2>0. PICK parts \in (IF op = "CompleteMultipartUpload" THEN PartsRead ELSE {Nil}) :
          /\ FetchValid(fetch) /\ ~(op = "CompleteMultipartUpload" /\ parts = Nil)
          /\ call' = Called(op, parts)
    BY <1>4 DEF Call
  <2>1. /\ FetchValid(fetch) /\ ~(op = "CompleteMultipartUpload" /\ parts = Nil)
        /\ call'.op = op /\ call'.bucket = fetch.bucket /\ call'.key = fetch.key /\ call'.parts = parts
        /\ op \in MultipartOps => call'.uploadID = fetch.multipart.uploadID /\ call'.part = fetch.multipart.partNumber
    BY <2>0 DEF Called
  <2>2. Fetched
    BY <1>1 DEF PathInv, CallInv
  <2>3. op = Operation /\ fetch.bucket = job.bucket /\ fetch.key = job.key /\ fetch.multipart = job.multipart
    BY <2>1, <2>2, FetchedIs, FetchedNames
  <2>4. op = "CompleteMultipartUpload" => WellFormedParts(req.parts) /\ parts = SortedParts(req.parts)
    <3>1. op = "CompleteMultipartUpload" => parts \in {Parts, Nil}
      BY <2>0 DEF PartsRead
    <3> QED BY <2>1, <3>1 DEF Parts
  <2> HIDE DEF op
  <2> QED BY <1>1, <1>2, <2>1, <2>3, <2>4 DEF NamedInv
<1> QED BY <1>3, <1>4

LEMMA NamedNext == ASSUME PathInv, NamedInv, [Next]_vars PROVE NamedInv'
<1>1. CASE UNCHANGED vars
  BY <1>1, NamedKept DEF vars
<1>2. CASE Refuse \/ HeadBucket \/ ServeDirect \/ NotAllowed \/ InvalidTicket \/ Publish
  <2>1. place = "new" /\ UNCHANGED call
    BY <1>2 DEF Refuse, HeadBucket, ServeDirect, NotAllowed, InvalidTicket, Publish, Resolves, Answered
  <2>2. call = Nil
    BY <2>1 DEF PathInv, JobInv
  <2> QED BY <2>1, <2>2 DEF NamedInv
<1>3. CASE Deadline \/ Take \/ OpenUpload \/ S3Declines \/ S3Does \/ Send
  BY <1>3, NamedKept DEF Deadline, Take, OpenUpload, S3Declines, S3Does, Send, config
<1>4. CASE Call
  BY <1>4, CallNamed
<1> QED BY <1>1, <1>2, <1>3, <1>4 DEF Next

(* What is called, in any state, names what the job does.                  *)
THEOREM NamesInductive == Spec => [](PathInv /\ NamedInv)
<1>1. Init => NamedInv
  BY DEF Init, NamedInv
<1>2. PathInv /\ NamedInv /\ [Next]_vars => NamedInv'
  BY NamedNext
<1> QED BY <1>1, <1>2, PathInductive, PTL DEF Spec
-----------------------------------------------------------------------------
(* Texts: numbers have a least one, so a text with a slash has a first,    *)
(* and it is what stands before that, the slash and what stands after.     *)
LEMMA LeastNumber ==
  ASSUME NEW T, T \subseteq Nat, T # {}
  PROVE  \E x \in T : \A y \in T : x <= y
<1> DEFINE R == {p \in Nat \X Nat : p[1] < p[2]}
<1>1. IsWellFoundedOn(R, Nat)
  BY NatLessThanWellFounded DEF OpToRel
<1>2. PICK x \in T : \A y \in T : <<y, x>> \notin R
  <2> HIDE DEF R
  <2> QED
    BY <1>1, WFMin
<1>3. \A y \in T : ~(y < x)
  BY <1>2
<1> QED
  BY <1>3

LEMMA FirstSlash ==
  ASSUME NEW t \in Text, HasCut(t)
  PROVE  /\ FirstCut(t) \in 1..Len(t) /\ t[FirstCut(t)] = "/"
         /\ \A j \in 1..Len(t) : t[j] = "/" => FirstCut(t) <= j
<1>1. Slashes(t) \subseteq Nat /\ Slashes(t) # {}
  BY DEF Slashes, HasCut, Text
<1>2. \E i \in Slashes(t) : \A j \in Slashes(t) : i <= j
  BY <1>1, LeastNumber
<1>3. FirstCut(t) \in Slashes(t) /\ \A j \in Slashes(t) : FirstCut(t) <= j
  BY <1>2 DEF FirstCut
<1> QED
  BY <1>3 DEF Slashes, Text

LEMMA DecodedWord ==
  ASSUME NEW w
  PROVE  /\ w = "%2F" => Decoded(w) = "/"
         /\ w = "%20" => Decoded(w) = " "
         /\ w = "%2520" => Decoded(w) = "%20"
         /\ w \notin {"%2F", "%20", "%2520"} => Decoded(w) = w
BY DEF Decoded

LEMMA TextsOfText ==
  ASSUME NEW t \in Text
  PROVE  Before(t) \in Text /\ After(t) \in Text /\ Unescape(t) \in Text
<1> USE DEF Text
<1>1. Unescape(t) \in Text
  <2>1. ASSUME NEW i \in 1..Len(t) PROVE Decoded(t[i]) \in Word
    <3>1. Decoded(t[i]) \in Marks \cup {t[i]}
      BY DecodedWord DEF Marks
    <3> QED
      BY <3>1 DEF Word
  <2>2. Unescape(t) \in [1..Len(t) -> Word] /\ Len(t) \in Nat
    BY <2>1 DEF Unescape
  <2> QED
    BY <2>2, SeqDef
<1>2. CASE ~HasCut(t)
  BY <1>1, <1>2 DEF Before, After, Empty
<1>3. CASE HasCut(t)
  <2>1. FirstCut(t) \in 1..Len(t)
    BY <1>3, FirstSlash
  <2> QED
    BY <1>1, <1>3, <2>1 DEF Before, After
<1> QED
  BY <1>2, <1>3

LEMMA JoinOfTexts ==
  ASSUME NEW a \in Text, NEW b \in Text
  PROVE  a \o <<"/">> \o b \in Text
<1>1. "/" \in Word
  BY DEF Word, Marks
<1>2. <<"/">> \in Seq(Word)
  BY <1>1
<1>3. a \o <<"/">> \in Seq(Word)
  BY <1>2, ConcatProperties DEF Text
<1> QED
  BY <1>3, ConcatProperties DEF Text

LEMMA CutOfJoined ==
  ASSUME NEW a \in Text, NEW b \in Text, \A i \in DOMAIN a : a[i] # "/"
  PROVE  Before(a \o <<"/">> \o b) = a /\ After(a \o <<"/">> \o b) = b
<1> DEFINE t == a \o <<"/">> \o b
<1>1. t \in Text
  BY JoinOfTexts
<1>2. /\ Len(t) = Len(a) + 1 + Len(b) /\ t[Len(a) + 1] = "/"
      /\ \A i \in 1..Len(a) : t[i] = a[i]
      /\ \A i \in 1..Len(b) : t[Len(a) + 1 + i] = b[i]
  BY DEF Text
<1>3. Len(a) \in Nat /\ Len(b) \in Nat /\ DOMAIN a = 1..Len(a)
  BY DEF Text
<1> HIDE DEF t
<1>4. Len(a) + 1 \in Slashes(t)
  <2>1. DOMAIN t = 1..Len(t) /\ Len(a) + 1 \in 1..Len(t)
    BY <1>1, <1>2, <1>3 DEF Text
  <2> QED
    BY <1>2, <2>1 DEF Slashes
<1>5. HasCut(t)
  BY <1>4 DEF HasCut
<1>6. FirstCut(t) = Len(a) + 1
  <2>1. /\ FirstCut(t) \in 1..Len(t) /\ t[FirstCut(t)] = "/"
        /\ \A j \in 1..Len(t) : t[j] = "/" => FirstCut(t) <= j
    BY <1>1, <1>5, FirstSlash
  <2>2. FirstCut(t) <= Len(a) + 1
    BY <1>2, <1>3, <2>1
  <2>3. ~(FirstCut(t) \in 1..Len(a))
    BY <1>2, <1>3, <2>1
  <2> QED
    BY <1>2, <1>3, <2>1, <2>2, <2>3
<1>7. Before(t) = SubSeq(t, 1, Len(a)) /\ After(t) = SubSeq(t, Len(a) + 2, Len(a) + 1 + Len(b))
  BY <1>2, <1>3, <1>5, <1>6 DEF Before, After
<1>8. SubSeq(t, 1, Len(a)) = a
  <2>1. SubSeq(t, 1, Len(a)) \in Seq(Word) /\ Len(SubSeq(t, 1, Len(a))) = Len(a)
    BY <1>1, <1>2, <1>3, SubSeqProperties DEF Text
  <2>2. \A i \in 1..Len(a) : SubSeq(t, 1, Len(a))[i] = a[i]
    BY <1>1, <1>2, <1>3, SubSeqProperties DEF Text
  <2> QED
    BY <2>1, <2>2, SeqEqual DEF Text
<1>9. SubSeq(t, Len(a) + 2, Len(a) + 1 + Len(b)) = b
  <2> DEFINE u == SubSeq(t, Len(a) + 2, Len(a) + 1 + Len(b))
  <2>1. u \in Seq(Word) /\ Len(u) = Len(b)
    BY <1>1, <1>2, <1>3, SubSeqProperties DEF Text
  <2>2. \A i \in 1..Len(b) : u[i] = b[i]
    BY <1>1, <1>2, <1>3, SubSeqProperties DEF Text
  <2> HIDE DEF u
  <2>3. u = b
    BY <2>1, <2>2, SeqEqual DEF Text
  <2> QED
    BY <2>3 DEF u
<1> QED
  BY <1>7, <1>8, <1>9 DEF t

LEMMA CutTogether ==
  ASSUME NEW t \in Text, HasCut(t)
  PROVE  t = Before(t) \o <<"/">> \o After(t)
<1> DEFINE n == FirstCut(t)
           a == Before(t)
           b == After(t)
           u == a \o <<"/">> \o b
<1>1. n \in 1..Len(t) /\ t[n] = "/" /\ Len(t) \in Nat
  BY FirstSlash DEF Text
<1>2. a = SubSeq(t, 1, n - 1) /\ b = SubSeq(t, n + 1, Len(t))
  BY DEF Before, After
<1> HIDE DEF n, a, b
<1>3. a \in Seq(Word) /\ Len(a) = n - 1 /\ \A i \in 1..(n - 1) : a[i] = t[i]
  <2>1. n - 1 \in Int /\ 1 \in 1..(Len(t) + 1) /\ n - 1 \in 0..Len(t) /\ n - 1 = (n - 1) - 1 + 1
    BY <1>1
  <2>2. t \in Seq(Word)
    BY DEF Text
  <2>3. SubSeq(t, 1, n - 1) \in Seq(Word)
    BY <2>1, <2>2, SubSeqProperties
  <2>4. Len(SubSeq(t, 1, n - 1)) = n - 1
    BY <1>1, <2>1, <2>2, SubSeqProperties
  <2>5. \A i \in 1..(n - 1) : SubSeq(t, 1, n - 1)[i] = t[i]
    BY <1>1, <2>1, <2>2, SubSeqProperties
  <2> QED BY <1>2, <2>3, <2>4, <2>5
<1>4. b \in Seq(Word) /\ Len(b) = Len(t) - n /\ \A i \in 1..(Len(t) - n) : b[i] = t[n + i]
  BY <1>1, <1>2, SubSeqProperties DEF Text
<1>5. u \in Seq(Word)
  BY <1>3, <1>4, JoinOfTexts DEF Text
<1>6. /\ Len(u) = Len(a) + 1 + Len(b) /\ u[Len(a) + 1] = "/"
      /\ \A i \in 1..Len(a) : u[i] = a[i]
      /\ \A i \in 1..Len(b) : u[Len(a) + 1 + i] = b[i]
  <2>1. a \in Seq(Word) /\ b \in Seq(Word)
    BY <1>3, <1>4
  <2> QED BY <2>1
<1> HIDE DEF u
<1>7. Len(u) = Len(t)
  BY <1>1, <1>3, <1>4, <1>6
<1>8. ASSUME NEW i \in 1..Len(t) PROVE u[i] = t[i]
  <2>1. CASE i < n
    BY <1>1, <1>3, <1>6, <2>1
  <2>2. CASE i = n
    BY <1>1, <1>3, <1>6, <2>2
  <2>3. CASE i > n
    <3>1. i - n \in 1..Len(b) /\ i = Len(a) + 1 + (i - n) /\ i = n + (i - n)
      BY <1>1, <1>3, <1>4, <2>3
    <3>2. u[i] = b[i - n]
      BY <1>6, <3>1
    <3>3. b[i - n] = t[i]
      BY <1>4, <3>1
    <3> QED BY <3>2, <3>3
  <2> QED BY <1>1, <2>1, <2>2, <2>3
<1>9. u = t
  BY <1>5, <1>7, <1>8, SeqEqual DEF Text
<1> QED BY <1>9 DEF u, a, b

(* Escaping and unescaping go word by word and leave the slash alone.      *)
WordByWord(f, t) == [i \in DOMAIN t |-> f[t[i]]]

LEMMA MappedText ==
  ASSUME NEW f \in [Word -> Word], NEW t \in Text
  PROVE  /\ WordByWord(f, t) \in Text /\ Len(WordByWord(f, t)) = Len(t) /\ Len(t) \in Nat
         /\ \A i \in 1..Len(t) : WordByWord(f, t)[i] = f[t[i]]
<1> DEFINE u == WordByWord(f, t)
<1>1. DOMAIN t = 1..Len(t) /\ Len(t) \in Nat /\ \A i \in 1..Len(t) : t[i] \in Word
  BY DEF Text
<1>2. u \in [1..Len(t) -> Word]
  BY <1>1 DEF WordByWord
<1>3. u \in Seq(Word)
  BY <1>1, <1>2, SeqDef
<1>4. Len(u) = Len(t)
  BY <1>1, <1>2, <1>3
<1> QED BY <1>1, <1>3, <1>4 DEF Text, WordByWord

LEMMA MappedJoin ==
  ASSUME NEW f \in [Word -> Word], f["/"] = "/", NEW a \in Text, NEW b \in Text
  PROVE  WordByWord(f, a \o <<"/">> \o b) = WordByWord(f, a) \o <<"/">> \o WordByWord(f, b)
<1> DEFINE t == a \o <<"/">> \o b
           u == WordByWord(f, t)
           c == WordByWord(f, a)
           d == WordByWord(f, b)
           v == c \o <<"/">> \o d
<1>1. t \in Text
  BY JoinOfTexts
<1>2. /\ Len(t) = Len(a) + 1 + Len(b) /\ t[Len(a) + 1] = "/"
      /\ \A i \in 1..Len(a) : t[i] = a[i]
      /\ \A i \in 1..Len(b) : t[Len(a) + 1 + i] = b[i]
  BY DEF Text
<1> HIDE DEF t
<1>3. u \in Text /\ Len(u) = Len(t) /\ \A i \in 1..Len(t) : u[i] = f[t[i]]
  BY <1>1, MappedText
<1>4. c \in Text /\ Len(c) = Len(a) /\ Len(a) \in Nat /\ \A i \in 1..Len(a) : c[i] = f[a[i]]
  BY MappedText
<1>5. d \in Text /\ Len(d) = Len(b) /\ Len(b) \in Nat /\ \A i \in 1..Len(b) : d[i] = f[b[i]]
  BY MappedText
<1> HIDE DEF u, c, d
<1>6. v \in Text
  BY <1>4, <1>5, JoinOfTexts
<1>7. /\ Len(v) = Len(c) + 1 + Len(d) /\ v[Len(c) + 1] = "/"
      /\ \A i \in 1..Len(c) : v[i] = c[i]
      /\ \A i \in 1..Len(d) : v[Len(c) + 1 + i] = d[i]
  <2>1. c \in Seq(Word) /\ d \in Seq(Word)
    BY <1>4, <1>5 DEF Text
  <2> QED BY <2>1
<1> HIDE DEF v
<1>8. ASSUME NEW i \in 1..Len(t) PROVE u[i] = v[i]
  <2>1. CASE i \in 1..Len(a)
    BY <1>2, <1>3, <1>4, <1>7, <2>1
  <2>2. CASE i = Len(a) + 1
    BY <1>2, <1>3, <1>4, <1>7, <2>2
  <2>3. CASE i > Len(a) + 1
    <3> DEFINE k == i - Len(a) - 1
    <3>1. k \in 1..Len(b) /\ i = Len(a) + 1 + k
      BY <1>2, <1>4, <1>5, <2>3
    <3> HIDE DEF k
    <3>2. t[i] = b[k] /\ v[i] = d[k]
      BY <1>2, <1>4, <1>5, <1>7, <3>1
    <3> QED BY <1>3, <1>5, <3>1, <3>2
  <2>4. i \in Int /\ 1 <= i /\ Len(a) \in Nat
    <3>1. Len(t) \in Int
      BY <1>2, <1>4, <1>5
    <3> QED BY <1>4, <3>1
  <2> QED BY <2>1, <2>2, <2>3, <2>4
<1>9. Len(u) = Len(v)
  BY <1>2, <1>3, <1>4, <1>5, <1>7
<1>10. u = v
  BY <1>3, <1>6, <1>8, <1>9, SeqEqual DEF Text
<1> QED BY <1>10 DEF u, v, t, c, d

LEMMA UnescapedJoin ==
  ASSUME NEW a \in Text, NEW b \in Text
  PROVE  Unescape(a \o <<"/">> \o b) = Unescape(a) \o <<"/">> \o Unescape(b)
<1> DEFINE f == [w \in Word |-> Decoded(w)]
<1>1. f \in [Word -> Word] /\ f["/"] = "/"
  <2>1. ASSUME NEW w \in Word PROVE Decoded(w) \in Word
    BY DecodedWord DEF Word, Marks
  <2>2. "/" \in Word /\ Decoded("/") = "/"
    BY DecodedWord DEF Word, Marks
  <2> QED BY <2>1, <2>2
<1>2. ASSUME NEW t \in Text PROVE Unescape(t) = WordByWord(f, t)
  BY DEF Unescape, WordByWord, Text
<1>3. a \o <<"/">> \o b \in Text
  BY JoinOfTexts
<1> HIDE DEF f
<1> QED BY <1>1, <1>2, <1>3, MappedJoin

(* Decoded, a path with something behind its first slash is its first      *)
(* segment and that, decoded each.                                         *)
LEMMA DecodedTogether ==
  ASSUME NEW t \in Text, Unescape(After(t)) # Empty
  PROVE  Unescape(t) = Unescape(Before(t)) \o Slash \o Unescape(After(t))
<1>1. HasCut(t)
  BY DEF After, Unescape, Empty
<1> QED BY <1>1, CutTogether, UnescapedJoin, TextsOfText DEF Slash

(* An object's name: its server, where there are several, the bucket,      *)
(* unless it is a default one, and the key.  The object of a path that     *)
(* names a key has the path for its name.                                  *)
Named(e, at, default, t) ==
  /\ ~e.multi => at.bucket \o Slash \o at.key = Unescape(t)
  /\ e.multi /\ default # Nil => at.bucket = default /\ at.server \o Slash \o at.key = Unescape(t)
  /\ e.multi /\ default = Nil => at.server \o Slash \o (at.bucket \o Slash \o at.key) = Unescape(t)

LEMMA PlaceTogether ==
  ASSUME NEW e, NEW t \in Text, Place(e, t).key # Empty
  PROVE  Named(e, Place(e, t), DefaultBucketForServer(e, Place(e, t).server), t)
<1> DEFINE at == Place(e, t)
<1>1. CASE ~e.multi
  <2>1. at = [server |-> Empty, bucket |-> Unescape(Before(t)), key |-> Unescape(After(t))]
    BY <1>1 DEF Place
  <2>2. Unescape(After(t)) # Empty
    BY <2>1
  <2>3. Unescape(t) = Unescape(Before(t)) \o Slash \o Unescape(After(t))
    BY <2>2, DecodedTogether
  <2> QED BY <1>1, <2>1, <2>3 DEF Named
<1>2. CASE e.multi /\ DefaultBucketForServer(e, Unescape(Before(t))) # Nil
  <2>1. at = [server |-> Unescape(Before(t)), bucket |-> DefaultBucketForServer(e, Unescape(Before(t))),
              key |-> Unescape(After(t))]
    BY <1>2 DEF Place
  <2>2. Unescape(After(t)) # Empty
    BY <2>1
  <2>3. Unescape(t) = Unescape(Before(t)) \o Slash \o Unescape(After(t))
    BY <2>2, DecodedTogether
  <2> QED BY <1>2, <2>1, <2>3 DEF Named
<1>3. CASE e.multi /\ DefaultBucketForServer(e, Unescape(Before(t))) = Nil
  <2> DEFINE rest == After(t)
  <2>1. at = [server |-> Unescape(Before(t)), bucket |-> Unescape(Before(rest)), key |-> Unescape(After(rest))]
    BY <1>3 DEF Place
  <2>2. rest \in Text
    BY TextsOfText
  <2> HIDE DEF rest
  <2>3. Unescape(rest) = at.bucket \o Slash \o at.key
    <3>1. Unescape(After(rest)) # Empty
      BY <2>1
    <3>2. Unescape(rest) = Unescape(Before(rest)) \o Slash \o Unescape(After(rest))
      BY <2>2, <3>1, DecodedTogether
    <3> QED BY <2>1, <3>2
  <2>4. Unescape(rest) # Empty
    <3>1. at.key # Empty
      OBVIOUS
    <3>2. HasCut(rest)
      BY <2>1, <3>1 DEF After, Unescape, Empty
    <3>3. FirstCut(rest) \in 1..Len(rest) /\ DOMAIN Unescape(rest) = 1..Len(rest)
      BY <2>2, <3>2, FirstSlash DEF Unescape, Text
    <3> QED BY <3>3 DEF Empty
  <2>5. Unescape(t) = Unescape(Before(t)) \o Slash \o Unescape(rest)
    BY <2>4, DecodedTogether DEF rest
  <2> QED BY <1>3, <2>1, <2>3, <2>5 DEF Named
<1> QED BY <1>1, <1>2, <1>3
-----------------------------------------------------------------------------
(* Parts: the rank of a part is how many have a number up to its own.  As  *)
(* no two have the same number, the ranks are the numbers from 1 to Len,   *)
(* and the parts in the order of their ranks are in that of their numbers. *)
Rank(parts, i) == Cardinality({j \in DOMAIN parts : parts[j].number <= parts[i].number})

Listed(parts) == parts \in Seq([number : Int, etag : Text]) /\ WellFormedParts(parts)

LEMMA PartsAre ==
  ASSUME NEW parts, Listed(parts)
  PROVE  /\ DOMAIN parts = 1..Len(parts) /\ Len(parts) \in Nat
         /\ IsFiniteSet(DOMAIN parts) /\ Cardinality(DOMAIN parts) = Len(parts)
         /\ \A i \in DOMAIN parts : parts[i].number \in Int
         /\ \A i, j \in DOMAIN parts : parts[i].number = parts[j].number => i = j
<1> DEFINE D == DOMAIN parts
<1>1. D = 1..Len(parts) /\ Len(parts) \in Nat
  BY DEF Listed
<1>2. IsFiniteSet(D) /\ Cardinality(D) = Len(parts)
  <2>1. ASSUME NEW n \in Nat PROVE IsFiniteSet(1..n) /\ Cardinality(1..n) = n
    BY FS_Interval
  <2> QED BY <1>1, <2>1
<1> QED BY <1>1, <1>2 DEF Listed, WellFormedParts

LEMMA Ranks ==
  ASSUME NEW parts, Listed(parts), NEW i \in DOMAIN parts, NEW j \in DOMAIN parts
  PROVE  /\ Rank(parts, i) \in DOMAIN parts
         /\ Rank(parts, i) <= Rank(parts, j) => parts[i].number <= parts[j].number
<1> DEFINE D == DOMAIN parts
           Upto(k) == {l \in D : parts[l].number <= parts[k].number}
<1>1. /\ D = 1..Len(parts) /\ Len(parts) \in Nat /\ IsFiniteSet(D) /\ Cardinality(D) = Len(parts)
      /\ \A k \in D : parts[k].number \in Int
  BY PartsAre
<1>2. ASSUME NEW k \in D
      PROVE  IsFiniteSet(Upto(k)) /\ Cardinality(Upto(k)) \in 1..Len(parts) /\ k \in Upto(k)
  <2>1. Upto(k) \in SUBSET D /\ k \in Upto(k)
    BY <1>1
  <2> HIDE DEF Upto
  <2>2. IsFiniteSet(Upto(k)) /\ Cardinality(Upto(k)) <= Len(parts)
    BY <1>1, <2>1, FS_Subset
  <2>3. Cardinality(Upto(k)) \in Nat
    BY <2>2, FS_CardinalityType
  <2>4. Cardinality(Upto(k)) # 0
    BY <2>1, <2>2, FS_EmptySet
  <2> QED BY <1>1, <2>1, <2>2, <2>3, <2>4
<1>3. Rank(parts, i) = Cardinality(Upto(i)) /\ Rank(parts, j) = Cardinality(Upto(j))
  BY DEF Rank
<1>4. ASSUME Rank(parts, i) <= Rank(parts, j), ~(parts[i].number <= parts[j].number)
      PROVE  FALSE
  <2>1. Upto(j) \in SUBSET Upto(i) /\ i \notin Upto(j)
    <3>1. parts[i].number \in Int /\ parts[j].number \in Int
      BY <1>1
    <3>2. ASSUME NEW l \in D, parts[l].number <= parts[j].number PROVE parts[l].number <= parts[i].number
      <4>1. parts[l].number \in Int
        BY <1>1
      <4> QED BY <1>4, <3>1, <3>2, <4>1
    <3>3. Upto(j) \subseteq Upto(i)
      BY <3>2
    <3> QED BY <1>4, <3>3
  <2>2. i \in Upto(i) /\ IsFiniteSet(Upto(i)) /\ Cardinality(Upto(i)) \in Nat /\ Cardinality(Upto(j)) \in Nat
    <3> HIDE DEF Upto
    <3>1. 1..Len(parts) \subseteq Nat
      BY <1>1
    <3> QED BY <1>2, <3>1
  <2> HIDE DEF Upto
  <2>3. Cardinality(Upto(j)) <= Cardinality(Upto(i))
    BY <2>1, <2>2, FS_Subset
  <2>4. Cardinality(Upto(i)) = Cardinality(Upto(j))
    BY <1>3, <1>4, <2>2, <2>3
  <2>5. Upto(i) = Upto(j)
    BY <2>1, <2>2, <2>4, FS_Subset
  <2> QED BY <2>1, <2>2, <2>5
<1> HIDE DEF Upto
<1>5. Rank(parts, i) \in D
  BY <1>1, <1>2, <1>3
<1> QED BY <1>4, <1>5

LEMMA RanksAreAll ==
  ASSUME NEW parts, Listed(parts)
  PROVE  \A k \in DOMAIN parts : \E i \in DOMAIN parts : Rank(parts, i) = k
<1> DEFINE D == DOMAIN parts
           f == [i \in D |-> Rank(parts, i)]
<1>1. IsFiniteSet(D) /\ D \subseteq Nat
  BY PartsAre
<1>a. ASSUME NEW i \in D PROVE Rank(parts, i) \in D
  BY Ranks
<1>2. f \in [D -> D]
  BY <1>a
<1>3. ASSUME NEW i \in D, NEW j \in D, f[i] = f[j] PROVE i = j
  <2>1. Rank(parts, i) = Rank(parts, j) /\ Rank(parts, i) \in Nat
    BY <1>1, <1>3, <1>a
  <2>2. parts[i].number <= parts[j].number /\ parts[j].number <= parts[i].number
    BY <2>1, Ranks
  <2>3. parts[i].number \in Int /\ parts[j].number \in Int
    BY PartsAre
  <2>4. parts[i].number = parts[j].number
    BY <2>2, <2>3
  <2> QED BY <2>4, PartsAre
<1>4. \A i \in D : f[i] = Rank(parts, i)
  OBVIOUS
<1> HIDE DEF f
<1>5. f \in Injection(D, D)
  BY <1>2, <1>3 DEF Injection, IsInjective
<1>6. f \in Surjection(D, D)
  BY <1>1, <1>5, FS_Injection
<1> QED BY <1>4, <1>6 DEF Surjection

(* So there is a sorted list of them, the one that is chosen.              *)
LEMMA PartsSorted ==
  ASSUME NEW parts, Listed(parts),
         NEW s, s = SortedParts(parts)
  PROVE  s \in [DOMAIN parts -> {parts[i] : i \in DOMAIN parts}] /\ \A i, j \in DOMAIN parts : i < j => s[i].number < s[j].number
<1> DEFINE D == DOMAIN parts
           T == {parts[i] : i \in D}
           at == [k \in D |-> CHOOSE i \in D : Rank(parts, i) = k]
           u == [k \in D |-> parts[at[k]]]
<1>1. ASSUME NEW k \in D PROVE at[k] \in D /\ Rank(parts, at[k]) = k
  BY RanksAreAll
<1> HIDE DEF at
<1>2. u \in [D -> T]
  BY <1>1
<1>3. ASSUME NEW i \in D, NEW j \in D, i < j PROVE u[i].number < u[j].number
  <2>1. at[i] \in D /\ at[j] \in D /\ Rank(parts, at[i]) = i /\ Rank(parts, at[j]) = j
    BY <1>1
  <2>2. parts[at[i]].number <= parts[at[j]].number
    <3>1. Rank(parts, at[i]) <= Rank(parts, at[j])
      BY <1>3, <2>1, PartsAre
    <3> QED BY <2>1, <3>1, Ranks
  <2>3. at[i] # at[j]
    BY <1>3, <2>1, PartsAre
  <2>4. parts[at[i]].number # parts[at[j]].number /\ parts[at[i]].number \in Int /\ parts[at[j]].number \in Int
    BY <2>1, <2>3, PartsAre
  <2> QED BY <2>2, <2>4
<1> HIDE DEF u
<1>4. \E v \in [D -> T] : \A i, j \in D : i < j => v[i].number < v[j].number
  BY <1>2, <1>3
<1> QED BY <1>4 DEF SortedParts

(* A sorted list of the parts has each of them, and is of their number.    *)
LEMMA PartsComplete ==
  ASSUME NEW parts, Listed(parts),
         NEW s, s = SortedParts(parts)
  PROVE  /\ {s[i] : i \in DOMAIN s} = {parts[i] : i \in DOMAIN parts}
         /\ \A i \in 1..(Len(s) - 1) : s[i].number < s[i + 1].number
<1> DEFINE D == DOMAIN parts
           T == {parts[i] : i \in D}
<1>1. s \in [D -> T] /\ \A i, j \in D : i < j => s[i].number < s[j].number
  BY PartsSorted
<1>2. D = 1..Len(parts) /\ Len(parts) \in Nat /\ IsFiniteSet(D)
  BY PartsAre
<1>3. \A i \in D : parts[i].number \in Int
  BY PartsAre
<1>4. parts \in [D -> T]
  <2>1. parts = [i \in D |-> parts[i]]
    BY DEF Listed
  <2> QED BY <2>1
<1>5. parts \in Surjection(D, T)
  BY <1>4 DEF Surjection
<1>6. parts \in Injection(D, T)
  <2>1. \A i, j \in D : parts[i] = parts[j] => i = j
    BY PartsAre
  <2> QED BY <1>4, <2>1 DEF Injection, IsInjective
<1>7. s \in Injection(D, T)
  <2>1. ASSUME NEW i \in D, NEW j \in D, s[i] = s[j] PROVE i = j
    <3>1. ~(i < j) /\ ~(j < i)
      <4>1. s[i] \in T /\ s[j] \in T
        BY <1>1
      <4>2. s[i].number \in Int /\ s[j].number \in Int
        BY <1>3, <4>1
      <4>3. ~(s[i].number < s[j].number) /\ ~(s[j].number < s[i].number)
        BY <2>1, <4>2
      <4> HIDE DEF D, T
      <4> QED BY <1>1, <4>3
    <3> QED BY <1>2, <3>1
  <2> QED BY <1>1, <2>1 DEF Injection, IsInjective
<1> HIDE DEF T, D
<1>8. IsFiniteSet(T) /\ Cardinality(T) = Cardinality(D)
  BY <1>2, <1>5, <1>6, FS_Surjection
<1>9. s \in Surjection(D, T)
  BY <1>7, <1>8, FS_Injection
<1>10. {s[i] : i \in DOMAIN s} = T
  BY <1>1, <1>9 DEF Surjection
<1>11. Len(s) = Len(parts)
  <2>1. DOMAIN s = 1..Len(parts)
    BY <1>1, <1>2
  <2>2. s \in [1..Len(parts) -> T]
    BY <1>1, <1>2
  <2>3. s \in Seq(T)
    BY <1>2, <2>2, SeqDef
  <2> QED BY <1>2, <2>1, <2>3
<1>12. ASSUME NEW i \in 1..(Len(s) - 1) PROVE s[i].number < s[i + 1].number
  <2>1. i \in D /\ i + 1 \in D /\ i < i + 1
    BY <1>2, <1>11
  <2> QED BY <1>1, <2>1
<1> QED BY <1>10, <1>12 DEF T, D
-----------------------------------------------------------------------------
(* The jobs have the names of their requests' paths.                       *)
LEMMA ObjectPlace ==
  ASSUME NEW e, NEW r, Classified(e, r), S3Operation(r) \in Operations \ {"ListObjectsV2"}
  PROVE  Place(e, r.path).key # Empty
<1> DEFINE op == S3Operation(r)
<1>1. op \notin {"HeadBucket", "ListObjectsV2"} /\ op \in Operations \ {"ListObjectsV2"}
  BY Methods
<1>2. CASE op = "HeadBucket"
  BY <1>1, <1>2
<1>3. CASE op # "HeadBucket"
  BY <1>1, <1>3 DEF Classified
<1> QED BY <1>2, <1>3

LEMMA S3Named ==
  ASSUME NEW e, NEW r, S3Refusal(e, r) = 0, S3Operation(r) # "HeadBucket", r.path \in Text,
         NEW j, j = S3Job(e, r), NEW default, default = DefaultBucketForServer(e, j.server)
  PROVE  /\ S3Operation(r) # "ListObjectsV2" => Named(e, j, default, r.path)
         /\ default # Nil /\ e.multi => j.bucket = default
         /\ S3Operation(r) \in MultipartOps \ {"CreateMultipartUpload"} => j.multipart.uploadID = r.uploadID
         /\ S3Operation(r) = "UploadPart" => j.multipart.partNumber = r.part
<1> DEFINE op == S3Operation(r)
           at == Place(e, r.path)
<1>1. Classified(e, r) /\ op \in Operations
  BY S3Accepted, S3OperationsAre
<1>2. j.server = IF e.multi THEN Unescape(Before(r.path)) ELSE Empty
  BY DEF S3Job
<1>3. CASE op = "ListObjectsV2"
  <2>1. j.bucket = ListBucket(e, r)
    BY <1>3 DEF S3Job
  <2>2. e.multi /\ default # Nil => j.bucket = default
    BY <1>2, <2>1 DEF ListBucket
  <2> QED BY <1>3, <2>2 DEF MultipartOps
<1>4. CASE op # "ListObjectsV2"
  <2>1. j.bucket = at.bucket /\ j.key = at.key
    BY <1>4 DEF S3Job
  <2>2. at.key # Empty
    BY <1>1, <1>4, ObjectPlace
  <2>3. at.server = j.server
    BY <1>2 DEF Place
  <2> HIDE DEF at
  <2>4. Named(e, at, default, r.path)
    <3>1. Named(e, at, DefaultBucketForServer(e, at.server), r.path)
      BY <2>2, PlaceTogether DEF at
    <3> QED BY <2>3, <3>1
  <2>5. Named(e, j, default, r.path)
    BY <2>1, <2>3, <2>4 DEF Named
  <2>6. op \in MultipartOps => j.multipart = MultipartFromMapping(e, r)
    BY DEF S3Job
  <2> DEFINE m == MultipartFromMapping(e, r)
  <2>7. m.uploadID = (IF op = "CreateMultipartUpload" THEN Empty ELSE r.uploadID)
        /\ m.partNumber = (IF op = "UploadPart" THEN r.part ELSE 0)
    BY DEF MultipartFromMapping
  <2>8. default # Nil /\ e.multi => j.bucket = default
    BY <2>5 DEF Named
  <2>9. "UploadPart" \in MultipartOps
    BY DEF MultipartOps
  <2> HIDE DEF m, op
  <2>10. /\ op \in MultipartOps \ {"CreateMultipartUpload"} => j.multipart.uploadID = r.uploadID
         /\ op = "UploadPart" => j.multipart.partNumber = r.part
    BY <2>6, <2>7, <2>9 DEF m
  <2> QED BY <2>5, <2>8, <2>10 DEF op
<1> QED BY <1>3, <1>4

LEMMA PublicNamed ==
  ASSUME NEW e, NEW r, PublicRefusal(e, r) = 0, r.path \in Text,
         NEW j, j = PublicJob(e, r), NEW default, default = DefaultBucketForServer(e, j.server)
  PROVE  IF ~e.multi /\ default # Nil THEN j.bucket = default /\ j.key = Unescape(r.path)
         ELSE Named(e, j, default, r.path)
<1> DEFINE at == PublicPlace(e, r.path)
<1>1. j.server = at.server /\ j.bucket = at.bucket /\ j.key = at.key
  BY DEF PublicJob
<1>2. at.key # Empty
  BY DEF PublicRefusal, ValidKey, NonEmptyKeyLike
<1>3. CASE ~e.multi /\ e.default # Nil
  <2>1. at = [server |-> Empty, bucket |-> e.default, key |-> Unescape(r.path)]
    BY <1>3 DEF PublicPlace
  <2>2. default = e.default
    BY <1>1, <1>3, <2>1 DEF DefaultBucketForServer
  <2> QED BY <1>1, <1>3, <2>1, <2>2
<1>4. CASE ~(~e.multi /\ e.default # Nil)
  <2>1. at = Place(e, r.path)
    BY <1>4 DEF PublicPlace
  <2>2. ~e.multi => at.server = Empty
    BY <2>1 DEF Place
  <2>3. ~e.multi => default = Nil
    BY <1>1, <1>4, <2>2 DEF DefaultBucketForServer
  <2> HIDE DEF at
  <2>4. Named(e, at, default, r.path)
    <3>1. Named(e, at, DefaultBucketForServer(e, at.server), r.path)
      BY <1>2, <2>1, PlaceTogether
    <3> QED BY <1>1, <3>1
  <2>5. Named(e, j, default, r.path)
    BY <1>1, <2>4 DEF Named
  <2> QED BY <2>3, <2>5
<1> QED BY <1>3, <1>4

(* S3 is called for the object, the upload, the part and the parts of the  *)
(* client's own request, whatever its path: the splitting and unescaping   *)
(* of publicpath and Classify, the default buckets, the tickets and the    *)
(* sorting of parseCompleteMultipartUpload put together.                   *)
THEOREM CallsNameWhatIsAsked == Spec => []CallsAreNamed
<1>1. ASSUME PathInv, NamedInv PROVE CallsAreNamed
  <2> DEFINE default == DefaultBucketForServer(edge, job.server)
             plain == UsesS3API(edge, req) /\ ~edge.multi
             short == default # Nil /\ ~plain
             place0 == IF short THEN job.key ELSE job.bucket \o Slash \o job.key
             named == IF edge.multi THEN job.server \o Slash \o place0 ELSE place0
  <2>1. SUFFICES ASSUME call # Nil PROVE CallsAreNamed
    BY DEF CallsAreNamed
  <2>2. /\ call.op = Operation /\ call.bucket = job.bucket /\ call.key = job.key
        /\ call.op \in MultipartOps => call.uploadID = job.multipart.uploadID /\ call.part = job.multipart.partNumber
        /\ call.op = "CompleteMultipartUpload" => WellFormedParts(req.parts) /\ call.parts = SortedParts(req.parts)
    BY <1>1, <2>1 DEF NamedInv
  <2>3. Fetched
    BY <1>1, <2>1 DEF PathInv, CallInv
  <2>4. job = JobOf(edge, req) /\ Refusal(edge, req) = 0 /\ ~ForHeadBucket
    BY <2>3 DEF Fetched, Ticketed, Resolved
  <2>5. req.path \in Text /\ (req.parts # Nil => req.parts \in Seq([number : Int, etag : Text]))
    BY <1>1, RequestsAssumption DEF PathInv, JobInv
  <2>6. /\ call.op # "ListObjectsV2" => named = Unescape(req.path)
        /\ short => job.bucket = default
        /\ call.op \in MultipartOps \ {"CreateMultipartUpload"} => job.multipart.uploadID = req.uploadID
        /\ call.op = "UploadPart" => job.multipart.partNumber = req.part
    <3>1. CASE UsesS3API(edge, req)
      <4>1. job = S3Job(edge, req) /\ S3Refusal(edge, req) = 0 /\ S3Operation(req) # "HeadBucket"
        BY <2>4, <3>1 DEF JobOf, Refusal, ForHeadBucket
      <4>2. call.op = S3Operation(req)
        BY <2>2, <4>1, S3Jobs DEF Operation, S3Job
      <4>3. short = (default # Nil /\ edge.multi)
        BY <3>1
      <4> HIDE DEF default, short
      <4>4. /\ S3Operation(req) # "ListObjectsV2" => Named(edge, job, default, req.path)
            /\ default # Nil /\ edge.multi => job.bucket = default
            /\ S3Operation(req) \in MultipartOps \ {"CreateMultipartUpload"} => job.multipart.uploadID = req.uploadID
            /\ S3Operation(req) = "UploadPart" => job.multipart.partNumber = req.part
        BY <2>5, <4>1, S3Named DEF default
      <4> QED BY <4>2, <4>3, <4>4 DEF Named
    <3>2. CASE ~UsesS3API(edge, req)
      <4>1. job = PublicJob(edge, req) /\ PublicRefusal(edge, req) = 0
        BY <2>4, <3>2 DEF JobOf, Refusal
      <4>2. call.op \in {"GetObject", "HeadObject"}
        BY <2>2, <4>1, PublicJobs DEF Operation
      <4>3. short = (default # Nil)
        BY <3>2
      <4> HIDE DEF default, short
      <4>4. IF ~edge.multi /\ default # Nil THEN job.bucket = default /\ job.key = Unescape(req.path)
            ELSE Named(edge, job, default, req.path)
        BY <2>5, <4>1, PublicNamed DEF default
      <4> QED BY <4>2, <4>3, <4>4 DEF MultipartOps, Named
    <3> QED BY <3>1, <3>2
  <2>7. call.op = "CompleteMultipartUpload" =>
          /\ {call.parts[i] : i \in DOMAIN call.parts} = {req.parts[i] : i \in DOMAIN req.parts}
          /\ \A i \in 1..(Len(call.parts) - 1) : call.parts[i].number < call.parts[i + 1].number
    <3>1. SUFFICES ASSUME call.op = "CompleteMultipartUpload"
                   PROVE  /\ {call.parts[i] : i \in DOMAIN call.parts} = {req.parts[i] : i \in DOMAIN req.parts}
                          /\ \A i \in 1..(Len(call.parts) - 1) : call.parts[i].number < call.parts[i + 1].number
      OBVIOUS
    <3>2. Listed(req.parts) /\ call.parts = SortedParts(req.parts)
      BY <2>2, <2>5, <3>1 DEF Listed, WellFormedParts
    <3> QED BY <3>2, PartsComplete
  <2> QED BY <2>2, <2>6, <2>7 DEF CallsAreNamed, MultipartOps
<1> QED BY <1>1, NamesInductive, PTL
-----------------------------------------------------------------------------
(* A name has nothing to escape, and a client that escapes an unescaped    *)
(* text gets one that unescapes to it.                                     *)
LEMMA WordInPath ==
  ASSUME NEW w
  PROVE  /\ w = " " => InPath(w) = "%20"
         /\ w = "%20" => InPath(w) = "%2520"
         /\ w \notin {" ", "%20"} => InPath(w) = w
  BY DEF InPath

LEMMA AsPathIsText ==
  ASSUME NEW t \in Text
  PROVE  AsPath(t) \in Text /\ DOMAIN AsPath(t) = DOMAIN t
<1> DEFINE f == [w \in Word |-> InPath(w)]
<1>1. f \in [Word -> Word]
  BY WordInPath DEF Word, Marks
<1>2. AsPath(t) = WordByWord(f, t)
  BY DEF AsPath, WordByWord, Text
<1> HIDE DEF f
<1> QED BY <1>1, <1>2, MappedText DEF AsPath

LEMMA AsPathJoin ==
  ASSUME NEW a \in Text, NEW b \in Text
  PROVE  AsPath(a \o <<"/">> \o b) = AsPath(a) \o <<"/">> \o AsPath(b)
<1> DEFINE f == [w \in Word |-> InPath(w)]
<1>1. f \in [Word -> Word] /\ f["/"] = "/"
  <2>1. ASSUME NEW w \in Word PROVE InPath(w) \in Word
    <3>1. InPath(w) \in Marks \cup {w}
      BY WordInPath DEF Marks
    <3> QED BY <3>1 DEF Word
  <2>2. "/" \in Word
    BY DEF Word, Marks
  <2>3. InPath("/") = "/"
    BY DEF InPath
  <2> QED BY <2>1, <2>2, <2>3
<1>2. ASSUME NEW t \in Text PROVE AsPath(t) = WordByWord(f, t)
  BY DEF AsPath, WordByWord, Text
<1>3. a \o <<"/">> \o b \in Text
  BY JoinOfTexts
<1> HIDE DEF f
<1> QED BY <1>1, <1>2, <1>3, MappedJoin

LEMMA NamesStay ==
  ASSUME NEW t \in Buckets \cup Aliases
  PROVE  /\ t \in Text /\ AsPath(t) = t /\ Unescape(t) = t
         /\ \A i \in DOMAIN t : t[i] # "/"
<1>1. t \in Text /\ \A i \in DOMAIN t : t[i] \notin Marks
  BY NamesAssumption DEF NamesAssumption
<1>2. t = [i \in DOMAIN t |-> t[i]]
  BY <1>1 DEF Text
<1>3. ASSUME NEW i \in DOMAIN t PROVE InPath(t[i]) = t[i] /\ Decoded(t[i]) = t[i] /\ t[i] # "/"
  <2>1. t[i] \notin {"/", " ", "%20", "%2F", "%2520"}
    BY <1>1 DEF Marks
  <2>2. InPath(t[i]) = t[i]
    BY <2>1, WordInPath
  <2>3. Decoded(t[i]) = t[i]
    BY <2>1, DecodedWord
  <2> QED BY <2>1, <2>2, <2>3
<1>4. [i \in DOMAIN t |-> InPath(t[i])] = [i \in DOMAIN t |-> t[i]]
  BY <1>3
<1>5. [i \in DOMAIN t |-> Decoded(t[i])] = [i \in DOMAIN t |-> t[i]]
  BY <1>3
<1> QED BY <1>1, <1>2, <1>3, <1>4, <1>5 DEF AsPath, Unescape

LEMMA AskedAgain ==
  ASSUME NEW t \in Text
  PROVE  Unescape(AsPath(Unescape(t))) = Unescape(t)
<1> DEFINE u == Unescape(t)
<1>1. u \in Text /\ DOMAIN u = DOMAIN t /\ DOMAIN AsPath(u) = DOMAIN t
  BY TextsOfText, AsPathIsText DEF Unescape
<1>2. ASSUME NEW w PROVE Decoded(InPath(Decoded(w))) = Decoded(w)
  <2>1. Decoded(w) \notin {"%2F", "%2520"}
    <3>1. CASE w \in {"%2F", "%20", "%2520"}
      <4>1. Decoded(w) \in {"/", " ", "%20"}
        BY <3>1, DecodedWord
      <4> QED BY <4>1
    <3>2. CASE w \notin {"%2F", "%20", "%2520"}
      <4>1. Decoded(w) = w
        BY <3>2, DecodedWord
      <4> QED BY <3>2, <4>1
    <3> QED BY <3>1, <3>2
  <2>2. ASSUME NEW v, v \notin {"%2F", "%2520"} PROVE Decoded(InPath(v)) = v
    <3>1. CASE v = " "
      <4>1. InPath(v) = "%20"
        BY <3>1, WordInPath
      <4> QED BY <3>1, <4>1, DecodedWord
    <3>2. CASE v = "%20"
      <4>1. InPath(v) = "%2520"
        BY <3>2, WordInPath
      <4> QED BY <3>2, <4>1, DecodedWord
    <3>3. CASE v \notin {" ", "%20"}
      <4>1. InPath(v) = v
        BY <3>3, WordInPath
      <4>2. v \notin {"%2F", "%20", "%2520"}
        BY <2>2, <3>3
      <4> QED BY <4>1, <4>2, DecodedWord
    <3> QED BY <3>1, <3>2, <3>3
  <2> QED BY <2>1, <2>2
<1>3. ASSUME NEW i \in DOMAIN t PROVE Decoded(AsPath(u)[i]) = Decoded(t[i])
  <2>1. AsPath(u)[i] = InPath(u[i]) /\ u[i] = Decoded(t[i])
    BY <1>1 DEF AsPath, Unescape
  <2> HIDE DEF u
  <2> QED BY <1>2, <2>1
<1>4. Unescape(AsPath(u)) = [i \in DOMAIN t |-> Decoded(AsPath(u)[i])]
  BY <1>1 DEF Unescape
<1>5. Unescape(t) = [i \in DOMAIN t |-> Decoded(t[i])]
  BY DEF Unescape
<1> HIDE DEF u
<1>6. [i \in DOMAIN t |-> Decoded(AsPath(u)[i])] = [i \in DOMAIN t |-> Decoded(t[i])]
  BY <1>3
<1>7. Unescape(AsPath(u)) = Unescape(t)
  BY <1>4, <1>5, <1>6
<1> QED BY <1>7 DEF u

LEMMA PathOfName ==
  ASSUME NEW n \in Buckets \cup Aliases, NEW t \in Text
  PROVE  /\ Before(AsPath(n \o <<"/">> \o t)) = n
         /\ After(AsPath(n \o <<"/">> \o t)) = AsPath(t)
<1>1. n \in Text /\ AsPath(n) = n /\ \A i \in DOMAIN n : n[i] # "/"
  BY NamesStay
<1>2. AsPath(n \o <<"/">> \o t) = n \o <<"/">> \o AsPath(t)
  BY <1>1, AsPathJoin
<1> DEFINE p == AsPath(t)
<1>3. p \in Text
  BY AsPathIsText
<1> HIDE DEF p
<1>4. Before(n \o <<"/">> \o p) = n /\ After(n \o <<"/">> \o p) = p
  BY <1>1, <1>3, CutOfJoined
<1> QED BY <1>2, <1>4 DEF p

(* The names an answer shows lead back to where the path led.              *)
LEMMA ShownResolves ==
  ASSUME NEW e, NEW t \in Text, ValidHead(e, t), ValidBucket(Place(e, t).bucket), Place(e, t).key # Empty,
         NEW path, path = AsPath(Unescape(Before(t)) \o Slash \o Unescape(After(t)))
  PROVE  Place(e, path) = Place(e, t)
<1> DEFINE head == Unescape(Before(t))
           rest == After(t)
<1>1. head \in Buckets \cup Aliases /\ rest \in Text /\ Unescape(rest) \in Text
  BY TextsOfText DEF ValidHead, ValidBucket
<1>2. Before(path) = head /\ After(path) = AsPath(Unescape(rest)) /\ Unescape(head) = head
  <2> HIDE DEF head, rest
  <2>1. path = AsPath(head \o <<"/">> \o Unescape(rest))
    BY DEF Slash, head, rest
  <2> QED BY <1>1, <2>1, PathOfName, NamesStay
<1>3. Unescape(AsPath(Unescape(rest))) = Unescape(rest)
  BY <1>1, AskedAgain
<1>4. CASE ~e.multi
  BY <1>2, <1>3, <1>4 DEF Place
<1>5. CASE e.multi /\ DefaultBucketForServer(e, head) # Nil
  BY <1>2, <1>3, <1>5 DEF Place
<1>6. CASE e.multi /\ DefaultBucketForServer(e, head) = Nil
  <2> DEFINE b == Unescape(Before(rest))
             k == Unescape(After(rest))
  <2>1. Place(e, t) = [server |-> head, bucket |-> b, key |-> k]
    BY <1>6 DEF Place
  <2>2. b \in Buckets /\ k # Empty
    BY <2>1 DEF ValidBucket
  <2>3. Unescape(rest) = b \o <<"/">> \o k /\ After(rest) \in Text /\ k \in Text
    BY <1>1, <2>2, DecodedTogether, TextsOfText DEF Slash
  <2>4. Unescape(AsPath(k)) = k
    BY <2>3, AskedAgain
  <2> HIDE DEF b, k, rest
  <2>5. Before(AsPath(Unescape(rest))) = b /\ After(AsPath(Unescape(rest))) = AsPath(k) /\ Unescape(b) = b
    BY <2>2, <2>3, PathOfName, NamesStay
  <2> QED BY <1>2, <1>6, <2>1, <2>4, <2>5 DEF Place
<1> QED BY <1>4, <1>5, <1>6

(* The bucket and the key that the XML of a multipart answer shows lead    *)
(* back to the upload's object: MultipartRewrite of operation.go, read     *)
(* again by Classify, with and without default buckets.                    *)
THEOREM ShownNamesResolve == Spec => []NamesResolve
<1>1. ASSUME PathInv PROVE NamesResolve
  <2>1. SUFFICES ASSUME job # Nil, job.multipart # Nil PROVE NamesResolve
    BY DEF NamesResolve
  <2>2. job = JobOf(edge, req) /\ Refusal(edge, req) = 0 /\ ~ForHeadBucket /\ req.path \in Text
    BY <1>1, <2>1, RequestsAssumption DEF PathInv, JobInv, Resolved
  <2>3. UsesS3API(edge, req)
    BY <2>1, <2>2 DEF JobOf, PublicJob
  <2>4. job = S3Job(edge, req) /\ S3Refusal(edge, req) = 0 /\ S3Operation(req) # "HeadBucket"
    BY <2>2, <2>3 DEF JobOf, Refusal, ForHeadBucket
  <2>5. Classified(edge, req) /\ S3Operation(req) \in MultipartOps
    BY <2>1, <2>4, S3Accepted DEF S3Job
  <2>6. S3Operation(req) \in Operations \ {"ListObjectsV2"}
    BY <2>5, Methods DEF MultipartOps
  <2>7. ValidHead(edge, req.path) /\ ValidBucket(Place(edge, req.path).bucket) /\ Place(edge, req.path).key # Empty
    <3>1. S3Operation(req) \notin {"HeadBucket", "ListObjectsV2"}
      BY <2>4, <2>6
    <3> QED BY <2>5, <2>6, <3>1 DEF Classified
  <2>8. job.multipart.rewrite.bucket = Unescape(Before(req.path)) /\ job.multipart.rewrite.key = Unescape(After(req.path))
    <3>1. job.multipart = MultipartFromMapping(edge, req)
      BY <2>4, <2>5 DEF S3Job
    <3> QED BY <3>1 DEF MultipartFromMapping, Shown
  <2> DEFINE at == Place(edge, req.path)
  <2>9. at = [server |-> job.server, bucket |-> job.bucket, key |-> job.key]
    <3>1. job.bucket = at.bucket /\ job.key = at.key
      BY <2>4, <2>6 DEF S3Job
    <3>2. job.server = at.server
      BY <2>4 DEF S3Job, Place
    <3>3. at = [server |-> at.server, bucket |-> at.bucket, key |-> at.key]
      BY DEF Place
    <3> QED BY <3>1, <3>2, <3>3
  <2> HIDE DEF at
  <2> DEFINE path == AsPath(job.multipart.rewrite.bucket \o Slash \o job.multipart.rewrite.key)
  <2>10. path = AsPath(Unescape(Before(req.path)) \o Slash \o Unescape(After(req.path)))
    BY <2>8
  <2> HIDE DEF path
  <2>11. Place(edge, path) = at
    BY <2>2, <2>7, <2>10, ShownResolves DEF at
  <2> QED BY <2>9, <2>11 DEF NamesResolve, path
<1> QED BY <1>1, PathInductive, PTL
-----------------------------------------------------------------------------
(* Rendering: the words of a template are put together one by one, and so  *)
(* the texts that two servers make of one template differ.                 *)
Pieces(t, a) == [i \in DOMAIN t |-> IF t[i] = Hole THEN a ELSE <<t[i]>>]

(* f[i] is what the first i pieces come to.                                *)
Grows(f, s, n) ==
  /\ f \in [1..n -> Text]
  /\ f[1] = s[1]
  /\ \A i \in 2..n : f[i] = f[i - 1] \o s[i]

LEMMA Growth ==
  ASSUME NEW n \in Nat \ {0}, NEW s \in [1..n -> Text]
  PROVE  \A k \in 1..n : \E f : Grows(f, s, k)
<1> DEFINE Bad == {k \in 1..n : ~\E f : Grows(f, s, k)}
<1>1. SUFFICES ASSUME Bad # {} PROVE FALSE
  OBVIOUS
<1>2. PICK k \in Bad : \A l \in Bad : k <= l
  <2>1. Bad \subseteq Nat
    OBVIOUS
  <2> HIDE DEF Bad
  <2> QED BY <1>1, <2>1, LeastNumber
<1>3. k \in 1..n /\ ~\E f : Grows(f, s, k)
  BY <1>2
<1>4. CASE k = 1
  <2> DEFINE f == [i \in 1..1 |-> s[1]]
  <2>1. f \in [1..1 -> Text] /\ f[1] = s[1] /\ \A i \in 2..1 : f[i] = f[i - 1] \o s[i]
    OBVIOUS
  <2> HIDE DEF f
  <2> QED BY <1>3, <1>4, <2>1 DEF Grows
<1>5. CASE k # 1
  <2>1. k - 1 \in 1..n /\ k - 1 \notin Bad
    <3>1. k - 1 \in 1..n /\ ~(k <= k - 1)
      BY <1>3, <1>5
    <3> HIDE DEF Bad
    <3> QED BY <1>2, <3>1
  <2>2. PICK f : Grows(f, s, k - 1)
    BY <2>1
  <2> DEFINE g == [i \in 1..k |-> IF i < k THEN f[i] ELSE f[k - 1] \o s[k]]
  <2>3. f \in [1..(k - 1) -> Text] /\ f[1] = s[1] /\ \A i \in 2..(k - 1) : f[i] = f[i - 1] \o s[i]
    BY <2>2 DEF Grows
  <2>4. f[k - 1] \o s[k] \in Text
    <3>1. f[k - 1] \in Text /\ s[k] \in Text
      BY <1>3, <2>1, <2>3
    <3> QED BY <3>1, ConcatProperties DEF Text
  <2>5. g \in [1..k -> Text]
    <3>1. ASSUME NEW i \in 1..k PROVE g[i] \in Text
      <4>1. CASE i < k
        BY <1>3, <2>3, <4>1
      <4>2. CASE i = k
        BY <2>4, <4>2
      <4> QED BY <1>3, <4>1, <4>2
    <3> QED BY <3>1
  <2>6. g[1] = s[1]
    BY <1>3, <1>5, <2>3
  <2>7. ASSUME NEW i \in 2..k PROVE g[i] = g[i - 1] \o s[i]
    <3>1. CASE i < k
      <4>1. i \in 1..k /\ i - 1 \in 1..k /\ i - 1 < k /\ i \in 2..(k - 1)
        BY <1>3, <3>1
      <4>2. g[i] = f[i] /\ g[i - 1] = f[i - 1]
        BY <3>1, <4>1
      <4> HIDE DEF g
      <4> QED BY <2>3, <4>1, <4>2
    <3>2. CASE i = k
      <4>1. g[k] = f[k - 1] \o s[k] /\ g[k - 1] = f[k - 1]
        BY <1>3, <1>5
      <4> HIDE DEF g
      <4>2. g[k] = g[k - 1] \o s[k]
        BY <4>1
      <4> QED BY <3>2, <4>2
    <3>3. i < k \/ i = k
      BY <1>3
    <3> HIDE DEF g
    <3> QED BY <3>1, <3>2, <3>3
  <2> HIDE DEF g
  <2>8. Grows(g, s, k)
    BY <2>5, <2>6, <2>7 DEF Grows
  <2> QED BY <1>3, <2>8
<1> QED BY <1>4, <1>5

LEMMA Flattened ==
  ASSUME NEW s \in Seq(Text), s # <<>>
  PROVE  \E f : Grows(f, s, Len(s)) /\ Seqs!FlattenSeq(s) = f[Len(s)]
<1> DEFINE n == Len(s)
           Step(f) == [i \in 1..n |-> IF i = 1 THEN s[i] ELSE f[i - 1] \o s[i]]
           F == CHOOSE f : f = Step(f)
<1>1. n \in Nat \ {0} /\ s \in [1..n -> Text] /\ n \in 1..n
  BY EmptySeq
<1> HIDE DEF n
<1>2. PICK f : Grows(f, s, n)
  BY <1>1, Growth
<1>3. f \in [1..n -> Text] /\ f[1] = s[1] /\ \A i \in 2..n : f[i] = f[i - 1] \o s[i]
  BY <1>2 DEF Grows
<1>4. f = Step(f)
  <2>1. ASSUME NEW i \in 1..n PROVE f[i] = Step(f)[i]
    <3>1. CASE i = 1
      BY <1>3, <3>1
    <3>2. CASE i # 1
      <4>1. i \in 2..n
        BY <1>1, <3>2
      <4> QED BY <1>3, <3>2, <4>1
    <3> QED BY <3>1, <3>2
  <2> QED BY <1>3, <2>1
<1>5. F = Step(F)
  BY <1>4
<1> DEFINE e(i) == IF i = 1 THEN s[i] ELSE F[i - 1] \o s[i]
<1>6. DOMAIN F = 1..n /\ \A i \in 1..n : F[i] = e(i)
  <2> DEFINE G == Step(F)
  <2>1. DOMAIN G = 1..n /\ \A i \in 1..n : G[i] = e(i)
    OBVIOUS
  <2> HIDE DEF e
  <2> QED BY <1>5, <2>1
<1> HIDE DEF F
<1>7. Seqs!FlattenSeq(s) = F[n]
  <2>1. Len(s) # 0
    BY <1>1 DEF n
  <2> QED BY <2>1 DEF Seqs!FlattenSeq, n, F
<1>8. F[1] = s[1] /\ \A i \in 2..n : F[i] = F[i - 1] \o s[i]
  <2>1. \A i \in 2..n : i \in 1..n /\ i # 1
    BY <1>1
  <2>2. 1 \in 1..n
    BY <1>1
  <2> QED BY <1>6, <2>1, <2>2
<1>9. \A i \in 1..n : F[i] \in Text
  <2> DEFINE Bad == {i \in 1..n : F[i] \notin Text}
  <2>1. SUFFICES ASSUME Bad # {} PROVE FALSE
    OBVIOUS
  <2>2. Bad \subseteq 1..n /\ \A i \in 1..n : i \in Bad <=> F[i] \notin Text
    OBVIOUS
  <2> HIDE DEF Bad
  <2>3. Bad \subseteq Nat
    BY <1>1, <2>2
  <2>4. PICK k \in Bad : \A l \in Bad : k <= l
    BY <2>1, <2>3, LeastNumber
  <2>5. k \in 1..n /\ F[k] \notin Text
    BY <2>2, <2>4
  <2>6. k # 1
    BY <1>1, <1>8, <2>5
  <2>7. k - 1 \in 1..n /\ k \in 2..n /\ ~(k <= k - 1)
    BY <1>1, <2>5, <2>6
  <2>8. F[k - 1] \in Text /\ s[k] \in Text
    BY <1>1, <2>2, <2>4, <2>5, <2>7
  <2>9. F[k - 1] \o s[k] \in Text
    BY <2>8, ConcatProperties DEF Text
  <2> QED BY <1>8, <2>5, <2>7, <2>9
<1>10. F \in [1..n -> Text]
  <2>1. F = [i \in 1..n |-> F[i]]
    BY <1>5, <1>6 DEF F
  <2> QED BY <1>9, <2>1
<1>11. Grows(F, s, Len(s))
  BY <1>8, <1>10 DEF Grows, n
<1> QED BY <1>7, <1>11 DEF n

(* Equal texts, both halves of one no longer than those of the other, are  *)
(* equal half by half.                                                     *)
LEMMA Halves ==
  ASSUME NEW u \in Text, NEW v \in Text, NEW x \in Text, NEW y \in Text,
         Len(u) <= Len(v), Len(x) <= Len(y), u \o x = v \o y
  PROVE  u = v /\ x = y
<1>1. /\ Len(u) \in Nat /\ Len(v) \in Nat /\ Len(x) \in Nat /\ Len(y) \in Nat
  BY LenProperties DEF Text
<1>2. Len(u \o x) = Len(u) + Len(x) /\ Len(v \o y) = Len(v) + Len(y)
  BY ConcatProperties DEF Text
<1>3. Len(u) = Len(v) /\ Len(x) = Len(y)
  BY <1>1, <1>2
<1>4. u = v
  <2>1. ASSUME NEW i \in 1..Len(u) PROVE u[i] = v[i]
    <3>1. (u \o x)[i] = u[i]
      BY <1>1, ConcatProperties DEF Text
    <3>2. (v \o y)[i] = v[i]
      BY <1>1, <1>3, ConcatProperties DEF Text
    <3> QED BY <3>1, <3>2
  <2> QED BY <1>3, <2>1, SeqEqual DEF Text
<1>5. x = y
  <2>1. ASSUME NEW i \in 1..Len(x) PROVE x[i] = y[i]
    <3> DEFINE j == i + Len(u)
    <3>1. j \in 1..(Len(u) + Len(x)) /\ j > Len(u) /\ j - Len(u) = i
      BY <1>1
    <3> HIDE DEF j
    <3>2. (u \o x)[j] = x[j - Len(u)]
      BY <1>1, <3>1, ConcatProperties DEF Text
    <3>3. (v \o y)[j] = y[j - Len(v)]
      BY <1>1, <1>3, <3>1, ConcatProperties DEF Text
    <3> QED BY <1>3, <3>1, <3>2, <3>3
  <2> QED BY <1>3, <2>1, SeqEqual DEF Text
<1> QED BY <1>4, <1>5

Shorter(f, g, n) == \A i \in 1..n : Len(f[i]) <= Len(g[i])

LEMMA GrowsShorter ==
  ASSUME NEW n \in Nat, NEW p \in [1..n -> Text], NEW q \in [1..n -> Text],
         NEW f, NEW g, Grows(f, p, n), Grows(g, q, n), Shorter(p, q, n)
  PROVE  Shorter(f, g, n)
<1> DEFINE Bad == {i \in 1..n : ~(Len(f[i]) <= Len(g[i]))}
<1>1. SUFFICES ASSUME Bad # {} PROVE FALSE
  BY DEF Shorter
<1>2. Bad \subseteq Nat
  OBVIOUS
<1>3. \A i \in 1..n : i \in Bad <=> ~(Len(f[i]) <= Len(g[i]))
  OBVIOUS
<1>4. Bad \subseteq 1..n
  OBVIOUS
<1> HIDE DEF Bad
<1>5. PICK k \in Bad : \A l \in Bad : k <= l
  BY <1>1, <1>2, LeastNumber
<1>6. k \in 1..n /\ ~(Len(f[k]) <= Len(g[k]))
  BY <1>3, <1>4, <1>5
<1>7. /\ f \in [1..n -> Text] /\ f[1] = p[1] /\ \A i \in 2..n : f[i] = f[i - 1] \o p[i]
      /\ g \in [1..n -> Text] /\ g[1] = q[1] /\ \A i \in 2..n : g[i] = g[i - 1] \o q[i]
  BY DEF Grows
<1>8. CASE k = 1
  BY <1>6, <1>7, <1>8 DEF Shorter
<1>9. CASE k # 1
  <2>1. k \in 2..n /\ k - 1 \in 1..n /\ ~(k <= k - 1)
    BY <1>6, <1>9
  <2>2. Len(f[k - 1]) <= Len(g[k - 1])
    BY <1>3, <1>5, <2>1
  <2>3. Len(p[k]) <= Len(q[k])
    BY <1>6 DEF Shorter
  <2>4. f[k - 1] \in Text /\ g[k - 1] \in Text /\ p[k] \in Text /\ q[k] \in Text
    BY <1>6, <1>7, <2>1
  <2>5. f[k] = f[k - 1] \o p[k] /\ g[k] = g[k - 1] \o q[k]
    BY <1>7, <2>1
  <2>6. Len(f[k]) = Len(f[k - 1]) + Len(p[k]) /\ Len(g[k]) = Len(g[k - 1]) + Len(q[k])
    BY <2>4, <2>5, ConcatProperties DEF Text
  <2>7. Len(f[k - 1]) \in Nat /\ Len(g[k - 1]) \in Nat /\ Len(p[k]) \in Nat /\ Len(q[k]) \in Nat
    BY <2>4, LenProperties DEF Text
  <2> QED BY <1>6, <2>2, <2>3, <2>6, <2>7
<1> QED BY <1>8, <1>9

Same(p, q, k) == \A i \in 1..k : p[i] = q[i]

LEMMA GrowsSame ==
  ASSUME NEW n \in Nat \ {0}, NEW p \in [1..n -> Text], NEW q \in [1..n -> Text],
         NEW f, NEW g, Grows(f, p, n), Grows(g, q, n), Shorter(p, q, n), f[n] = g[n]
  PROVE  Same(p, q, n)
<1> DEFINE Bad == {i \in 1..n : f[i] = g[i] /\ ~Same(p, q, i)}
<1>1. SUFFICES ASSUME Bad # {} PROVE FALSE
  OBVIOUS
<1>2. Bad \subseteq Nat
  OBVIOUS
<1>3. \A i \in 1..n : i \in Bad <=> f[i] = g[i] /\ ~Same(p, q, i)
  OBVIOUS
<1>4. Bad \subseteq 1..n
  OBVIOUS
<1> HIDE DEF Bad
<1>5. PICK k \in Bad : \A l \in Bad : k <= l
  BY <1>1, <1>2, LeastNumber
<1>6. k \in 1..n /\ f[k] = g[k] /\ ~Same(p, q, k)
  BY <1>3, <1>4, <1>5
<1>7. /\ f \in [1..n -> Text] /\ f[1] = p[1] /\ \A i \in 2..n : f[i] = f[i - 1] \o p[i]
      /\ g \in [1..n -> Text] /\ g[1] = q[1] /\ \A i \in 2..n : g[i] = g[i - 1] \o q[i]
  BY DEF Grows
<1>8. CASE k = 1
  BY <1>6, <1>7, <1>8 DEF Same
<1>9. CASE k # 1
  <2>1. k \in 2..n /\ k - 1 \in 1..n /\ ~(k <= k - 1)
    BY <1>6, <1>9
  <2>2. f[k - 1] \in Text /\ g[k - 1] \in Text /\ p[k] \in Text /\ q[k] \in Text
    BY <1>6, <1>7, <2>1
  <2>3. f[k - 1] \o p[k] = g[k - 1] \o q[k]
    <3>1. f[k] = f[k - 1] \o p[k] /\ g[k] = g[k - 1] \o q[k]
      BY <1>7, <2>1
    <3> QED BY <1>6, <3>1
  <2>4. Len(f[k - 1]) <= Len(g[k - 1]) /\ Len(p[k]) <= Len(q[k])
    <3>1. Shorter(f, g, n)
      BY GrowsShorter
    <3> QED BY <1>6, <2>1, <3>1 DEF Shorter
  <2>5. f[k - 1] = g[k - 1] /\ p[k] = q[k]
    BY <2>2, <2>3, <2>4, Halves
  <2>6. Same(p, q, k - 1)
    BY <1>3, <1>5, <2>1, <2>5
  <2>7. \A i \in 1..k : i \in 1..(k - 1) \/ i = k
    BY <1>6
  <2>8. Same(p, q, k)
    BY <2>5, <2>6, <2>7 DEF Same
  <2> QED BY <1>6, <2>8
<1> QED BY <1>8, <1>9

LEMMA PiecesOf ==
  ASSUME NEW t \in Text, t # <<>>, NEW a \in Text
  PROVE  /\ Len(t) \in Nat \ {0} /\ Pieces(t, a) \in [1..Len(t) -> Text]
         /\ \E f : Grows(f, Pieces(t, a), Len(t)) /\ Render(t, a) = f[Len(t)]
<1>1. Len(t) \in Nat \ {0} /\ DOMAIN t = 1..Len(t)
  BY LenProperties, EmptySeq DEF Text
<1>2. ASSUME NEW i \in 1..Len(t) PROVE (IF t[i] = Hole THEN a ELSE <<t[i]>>) \in Text
  <2>1. t[i] \in Word
    BY <1>1 DEF Text
  <2>2. \A w \in Word : <<w>> \in Seq(Word)
    OBVIOUS
  <2>3. <<t[i]>> \in Text
    BY <2>1, <2>2 DEF Text
  <2> QED BY <2>3
<1>3. Pieces(t, a) \in [1..Len(t) -> Text]
  BY <1>1, <1>2 DEF Pieces
<1>4. Pieces(t, a) \in Seq(Text) /\ Len(Pieces(t, a)) = Len(t) /\ Pieces(t, a) # <<>>
  <2>1. \A p \in [1..Len(t) -> Text] : p \in Seq(Text) /\ Len(p) = Len(t) /\ p # <<>>
    BY <1>1, EmptySeq
  <2> QED BY <1>3, <2>1
<1>5. \E f : Grows(f, Pieces(t, a), Len(Pieces(t, a))) /\ Seqs!FlattenSeq(Pieces(t, a)) = f[Len(Pieces(t, a))]
  BY <1>4, Flattened
<1>6. Render(t, a) = Seqs!FlattenSeq(Pieces(t, a))
  BY DEF Render, Pieces
<1> QED BY <1>1, <1>3, <1>4, <1>5, <1>6

LEMMA RendersApart ==
  ASSUME NEW t \in Text, NEW a \in Text, NEW b \in Text,
         Hole \in Words(t), Len(a) <= Len(b), Render(t, a) = Render(t, b)
  PROVE  a = b
<1>1. PICK j \in DOMAIN t : t[j] = Hole
  BY DEF Words
<1>2. t # <<>> /\ DOMAIN t = 1..Len(t)
  <2>1. Len(t) \in Nat /\ DOMAIN t = 1..Len(t)
    BY LenProperties DEF Text
  <2>2. Len(t) # 0
    BY <1>1, <2>1
  <2> QED BY <2>1, <2>2, EmptySeq
<1> DEFINE n == Len(t)
           p == Pieces(t, a)
           q == Pieces(t, b)
<1>3. n \in Nat \ {0} /\ p \in [1..n -> Text] /\ \E f : Grows(f, p, n) /\ Render(t, a) = f[n]
  BY <1>2, PiecesOf
<1>4. q \in [1..n -> Text] /\ \E f : Grows(f, q, n) /\ Render(t, b) = f[n]
  BY <1>2, PiecesOf
<1>5. Shorter(p, q, n)
  <2>1. ASSUME NEW i \in 1..n PROVE Len(p[i]) <= Len(q[i])
    <3>1. CASE t[i] = Hole
      BY <1>2, <3>1 DEF Pieces
    <3>2. CASE t[i] # Hole
      <4>1. p[i] = <<t[i]>> /\ q[i] = <<t[i]>>
        BY <1>2, <3>2 DEF Pieces
      <4>2. Len(<<t[i]>>) = 1
        OBVIOUS
      <4> HIDE DEF p, q
      <4> QED BY <4>1, <4>2
    <3> QED BY <3>1, <3>2
  <2> QED BY <2>1 DEF Shorter
<1>6. p[j] = a /\ q[j] = b
  BY <1>1 DEF Pieces
<1>7. j \in 1..n
  BY <1>2
<1> HIDE DEF n, p, q
<1>8. PICK f : Grows(f, p, n) /\ Render(t, a) = f[n]
  BY <1>3
<1>9. PICK g : Grows(g, q, n) /\ Render(t, b) = g[n]
  BY <1>4
<1>10. Same(p, q, n)
  BY <1>3, <1>4, <1>5, <1>8, <1>9, GrowsSame
<1> QED BY <1>6, <1>7, <1>10 DEF Same

LEMMA RenderInjective ==
  ASSUME NEW t \in Text, NEW a \in Text, NEW b \in Text, Hole \in Words(t), Render(t, a) = Render(t, b)
  PROVE  a = b
<1>1. Len(a) \in Nat /\ Len(b) \in Nat
  BY LenProperties DEF Text
<1>2. CASE Len(a) <= Len(b)
  BY <1>2, RendersApart
<1>3. CASE Len(b) <= Len(a)
  BY <1>3, RendersApart
<1>4. Len(a) <= Len(b) \/ Len(b) <= Len(a)
  <2>1. \A x, y \in Nat : x <= y \/ y <= x
    OBVIOUS
  <2> QED BY <1>1, <2>1
<1> QED BY <1>2, <1>3, <1>4
-----------------------------------------------------------------------------
(* One environment for both: what the loaders make of it, and why an edge  *)
(* and a connector that serve with it fit.                                 *)
LEMMA TemplateHasHole == ASSUME NEW t, ValidTemplate(t) PROVE Hole \in Words(t)
  BY Zenon DEF ValidTemplate

LEMMA NATSLoaded ==
  ASSUME NEW s, NEW server, NEW queue, LoadNATS(s, server, queue) # Nil
  PROVE  /\ ValidTemplate(Template(s))
         /\ LoadNATS(s, server, queue).template = Template(s)
         /\ LoadNATS(s, server, queue).subject = NATSSubject(s, Template(s), server)
<1>1. ValidTemplate(Template(s))
  BY Zenon DEF LoadNATS
<1>2. LoadNATS(s, server, queue) =
        [template |-> Template(s), subject |-> NATSSubject(s, Template(s), server),
         queue |-> Get(s, "AIR3_NATS_QUEUE", queue)]
  BY Zenon DEF LoadNATS
<1> QED BY <1>1, <1>2

LEMMA TemplatesApart ==
  ASSUME NEW s, Template(s) \in Text, ValidTemplate(Template(s)),
         NEW a \in Aliases, NEW b \in Aliases
  PROVE  DeriveNATSSubject(Template(s), a) = DeriveNATSSubject(Template(s), b) <=> a = b
<1>1. a \in Text /\ b \in Text
  BY NamesAssumption
<1>2. Hole \in Words(Template(s))
  BY TemplateHasHole
<1>3. Render(Template(s), a) = Render(Template(s), b) => a = b
  BY <1>1, <1>2, RenderInjective
<1> QED BY <1>3 DEF DeriveNATSSubject

EdgeChecked(v) ==
  LET s == v.main IN
  /\ Get(s, "AIR3_S3_BUCKET", Nil) # Nil /\ Has(s, "AIR3_ALLOWED_BUCKETS") =>
       Get(s, "AIR3_S3_BUCKET", Nil) \in Allowed(s)
  /\ ValidDirectAliases(s) /\ \A a \in DirectAliases(s) : ValidDirectS3(v, a)
  /\ ValidServerDefaults(v)
  /\ LoadNATS(s, Empty, Empty) # Nil

LEMMA EdgeLoaded ==
  ASSUME NEW v, EdgeOf(v) # Nil
  PROVE  /\ EdgeChecked(v)
         /\ EdgeOf(v).mutations = Mutations(v.main)
         /\ EdgeOf(v).allowed = Allowed(v.main)
         /\ EdgeOf(v).default = Get(v.main, "AIR3_S3_BUCKET", Nil)
         /\ EdgeOf(v).defaults = ServerDefaults(v)
         /\ EdgeOf(v).direct = [a \in DirectAliases(v.main) |-> DirectS3(v, a)]
         /\ EdgeOf(v).transport = Transport(v.main)
         /\ EdgeOf(v).nats = LoadNATS(v.main, Empty, Empty)
<1>1. EdgeOf(v) = LoadEdge(v) /\ LoadEdge(v) # Nil
  BY DEF EdgeOf
<1>2. EdgeChecked(v)
  BY <1>1 DEF LoadEdge, EdgeChecked
<1>3. LoadEdge(v) =
        [multi |-> Flag(v.main, "AIR3_MULTI_SERVER", FALSE), mutations |-> Mutations(v.main), allowed |-> Allowed(v.main),
         default |-> Get(v.main, "AIR3_S3_BUCKET", Nil), defaults |-> ServerDefaults(v),
         direct |-> [a \in DirectAliases(v.main) |-> DirectS3(v, a)],
         signing |-> ~Flag(v.main, "AIR3_SIGNING_DISABLED", FALSE), s3api |-> Flag(v.main, "AIR3_S3_API_ENABLED", FALSE),
         transport |-> Transport(v.main), nats |-> LoadNATS(v.main, Empty, Empty)]
  BY <1>1, Zenon DEF LoadEdge
<1> QED BY <1>1, <1>2, <1>3

ConnectorChecked(v) ==
  LET s == v.main IN
  /\ Get(s, "AIR3_SERVER_NAME", Empty) \in Aliases \cup {Empty}
  /\ Has(s, "AIR3_S3_BUCKET") => s["AIR3_S3_BUCKET"] \in S3Allowed(s)
  /\ LoadNATS(s, Get(s, "AIR3_SERVER_NAME", Empty), <<"air3-connectors">>) # Nil

LEMMA ConnectorLoaded ==
  ASSUME NEW v, ConnectorOf(v) # Nil
  PROVE  /\ ConnectorChecked(v)
         /\ ConnectorOf(v).server = Get(v.main, "AIR3_SERVER_NAME", Empty)
         /\ ConnectorOf(v).nats = LoadNATS(v.main, Get(v.main, "AIR3_SERVER_NAME", Empty), <<"air3-connectors">>)
         /\ ConnectorOf(v).allowed = Allowed(v.main)
         /\ ConnectorOf(v).s3allowed = S3Allowed(v.main)
         /\ ConnectorOf(v).mutations = Mutations(v.main)
         /\ ConnectorOf(v).transport = Transport(v.main)
<1>1. ConnectorOf(v) = LoadConnector(v) /\ LoadConnector(v) # Nil
  BY DEF ConnectorOf
<1>2. ConnectorChecked(v)
  BY <1>1 DEF LoadConnector, ConnectorChecked, ValidS3
<1>3. LoadConnector(v) =
        [server |-> Get(v.main, "AIR3_SERVER_NAME", Empty),
         nats |-> LoadNATS(v.main, Get(v.main, "AIR3_SERVER_NAME", Empty), <<"air3-connectors">>),
         allowed |-> Allowed(v.main), s3allowed |-> S3Allowed(v.main),
         mutations |-> Mutations(v.main), transport |-> Transport(v.main)]
  BY <1>1, Zenon DEF LoadConnector
<1> QED BY <1>1, <1>2, <1>3

(* What the edge listens for is what a connector of its transport speaks.  *)
LEMMA TransportsFit ==
  ASSUME NEW e, NEW c, e.transport = c.transport
  PROVE  Carrier(c) \in Listens(e)
<1>1. <<"http3">> \notin HttpFamily
  BY DEF HttpFamily, Http
<1>2. CASE c.transport \in HttpFamily
  BY <1>1, <1>2 DEF Carrier, Listens
<1>3. CASE c.transport = <<"http3">>
  BY <1>1, <1>3 DEF Carrier, Listens
<1>4. CASE c.transport \notin HttpFamily /\ c.transport # <<"http3">>
  BY <1>4 DEF Carrier, Listens
<1> QED BY <1>2, <1>3, <1>4

LEMMA SubjectsFit ==
  ASSUME NEW v, EdgeOf(v) # Nil, ConnectorOf(v) # Nil, Template(v.main) \in Text, ~Has(v.main, "AIR3_NATS_SUBJECT")
  PROVE  /\ ConnectorOf(v).server # Empty =>
              \A a \in Aliases :
                DeriveNATSSubject(EdgeOf(v).nats.template, a) = ConnectorOf(v).nats.subject <=> a = ConnectorOf(v).server
         /\ ConnectorOf(v).server = Empty => EdgeOf(v).nats.subject = ConnectorOf(v).nats.subject
<1> DEFINE t == Template(v.main)
           server == ConnectorOf(v).server
<1>1. /\ ValidTemplate(t) /\ EdgeOf(v).nats.template = t
      /\ EdgeOf(v).nats.subject = NATSSubject(v.main, t, Empty)
  <2>1. EdgeOf(v).nats = LoadNATS(v.main, Empty, Empty) /\ LoadNATS(v.main, Empty, Empty) # Nil
    BY EdgeLoaded DEF EdgeChecked
  <2> QED BY <2>1, NATSLoaded
<1>2. ConnectorOf(v).nats.subject = NATSSubject(v.main, t, server) /\ server \in Aliases \cup {Empty}
  <2>1. /\ ConnectorOf(v).nats = LoadNATS(v.main, server, <<"air3-connectors">>)
        /\ LoadNATS(v.main, server, <<"air3-connectors">>) # Nil
        /\ server \in Aliases \cup {Empty}
    BY ConnectorLoaded DEF ConnectorChecked
  <2> HIDE DEF server
  <2> QED BY <2>1, NATSLoaded
<1> HIDE DEF t, server
<1>3. ASSUME server # Empty, NEW a \in Aliases
      PROVE  DeriveNATSSubject(t, a) = NATSSubject(v.main, t, server) <=> a = server
  <2>1. NATSSubject(v.main, t, server) = DeriveNATSSubject(t, server)
    BY <1>3 DEF NATSSubject
  <2>2. server \in Aliases
    BY <1>2, <1>3
  <2>3. DeriveNATSSubject(t, a) = DeriveNATSSubject(t, server) <=> a = server
    BY <1>1, <2>2, TemplatesApart DEF t
  <2> QED BY <2>1, <2>3
<1> QED BY <1>1, <1>2, <1>3 DEF server

(* A server's default bucket is the one set under its suffix, if one is.   *)
LEMMA DefaultsFit ==
  ASSUME NEW v, EdgeOf(v) # Nil, NEW a \in DOMAIN EdgeOf(v).direct, Has(Group(v.servers, EnvSuffix[a]), "BUCKET")
  PROVE  DefaultBucketForServer(EdgeOf(v), a) \in EdgeOf(v).direct[a]
<1> DEFINE x == EnvSuffix[a]
           e == EdgeOf(v)
<1>1. /\ ValidDirectAliases(v.main) /\ ValidServerDefaults(v)
      /\ \A b \in DirectAliases(v.main) : ValidDirectS3(v, b)
  BY EdgeLoaded DEF EdgeChecked
<1>2. e.direct = [b \in DirectAliases(v.main) |-> DirectS3(v, b)] /\ e.defaults = ServerDefaults(v)
  BY EdgeLoaded
<1> HIDE DEF e
<1>3. a \in DirectAliases(v.main) /\ e.direct[a] = DirectS3(v, a)
  BY <1>2 DEF e
<1>4. a \in Aliases /\ a # Empty
  BY <1>1, <1>3, NamesAssumption DEF ValidDirectAliases
<1>5. x \in DOMAIN v.servers /\ Group(v.servers, x) = v.servers[x] /\ Has(v.servers[x], "BUCKET")
  <2>1. CASE x \in DOMAIN v.servers
    <3>1. Group(v.servers, x) = v.servers[x]
      BY <2>1 DEF Group, Get, Has
    <3> QED BY <2>1, <3>1
  <2>2. CASE x \notin DOMAIN v.servers
    <3>1. Group(v.servers, x) = <<>>
      BY <2>2 DEF Group, Get, Has
    <3>2. DOMAIN <<>> = {}
      OBVIOUS
    <3> QED BY <3>1, <3>2 DEF Has
  <2> QED BY <2>1, <2>2
<1>6. x \in DefaultKeys(v) /\ x \in Aliases
  BY <1>1, <1>5 DEF DefaultKeys, ValidServerDefaults
<1>7. EnvSuffix[x] = x
  BY <1>4, <1>6, SuffixAssumption
<1>8. v.servers[x]["BUCKET"] \in DirectS3(v, a)
  BY <1>1, <1>3, <1>5 DEF ValidDirectS3
<1> DEFINE k == CHOOSE k \in DefaultKeys(v) : EnvSuffix[k] = x
<1>9. k \in DefaultKeys(v) /\ EnvSuffix[k] = x
  BY <1>6, <1>7
<1>10. v.servers[k]["BUCKET"] = v.servers[x]["BUCKET"]
  <2> HIDE DEF k, x
  <2> QED BY <1>1, <1>6, <1>7, <1>9 DEF ValidServerDefaults
<1>11. x \in DOMAIN e.defaults /\ e.defaults[x] = v.servers[k]["BUCKET"]
  BY <1>2, <1>6, <1>7 DEF ServerDefaults
<1>12. DefaultBucketForServer(e, a) = e.defaults[x]
  BY <1>4, <1>11 DEF DefaultBucketForServer
<1> QED BY <1>3, <1>8, <1>10, <1>11, <1>12 DEF e

(* The edge serves with what its loader has made of its environment: no    *)
(* handler changes the configuration.                                      *)
THEOREM ConfigInvariant == Spec => []ConfigInv
<1>1. Init => ConfigInv
  BY DEF Init, ConfigInv
<1>2. ConfigInv /\ [Next]_vars => ConfigInv'
  <2> SUFFICES ASSUME ConfigInv, [Next]_vars PROVE ConfigInv'
    OBVIOUS
  <2>1. env' = env /\ edge' = edge
    BY DEF Next, vars, config, Refuse, HeadBucket, ServeDirect, NotAllowed, InvalidTicket, Publish, Deadline, Take,
           OpenUpload, Call, S3Declines, S3Does, Send, Answered
  <2> QED BY <2>1 DEF ConfigInv
<1> QED BY <1>1, <1>2, PTL DEF Spec

(* An edge and a connector that both start with one environment fit:       *)
(* mutations are on at both or at neither, the edge listens for the        *)
(* connector's transport, a server's tickets go where its connector        *)
(* listens and no other's do, and a default bucket the loaders take is one *)
(* that everybody on the way allows.                                       *)
THEOREM OneFileServes == Spec => []OneFileFits
<1>1. ConfigInv => OneFileFits
  <2> SUFFICES ASSUME ConfigInv PROVE OneFileFits
    OBVIOUS
  <2> DEFINE v == env.edge
             c == ConnectorOf(v)
  <2>1. edge = EdgeOf(v) /\ EdgeOf(v) # Nil /\ Template(v.main) \in Text
    BY DeploymentsAssumption DEF ConfigInv
  <2>2. ASSUME c # Nil PROVE edge.mutations = c.mutations /\ Carrier(c) \in Listens(edge)
    <3>1. edge.mutations = Mutations(v.main) /\ edge.transport = Transport(v.main)
      BY <2>1, EdgeLoaded
    <3>2. c.mutations = Mutations(v.main) /\ c.transport = Transport(v.main)
      BY <2>2, ConnectorLoaded
    <3> HIDE DEF c
    <3> QED BY <3>1, <3>2, TransportsFit
  <2>3. ASSUME c # Nil, ~Has(v.main, "AIR3_NATS_SUBJECT")
        PROVE  /\ edge.multi /\ c.server # Empty =>
                    \A a \in Aliases : DeriveNATSSubject(edge.nats.template, a) = c.nats.subject <=> a = c.server
               /\ ~edge.multi /\ c.server = Empty => edge.nats.subject = c.nats.subject
    BY <2>1, <2>3, SubjectsFit
  <2>4. ASSUME c # Nil, edge.default # Nil, Has(v.main, "AIR3_ALLOWED_BUCKETS")
        PROVE  edge.default \in edge.allowed \cap c.allowed \cap c.s3allowed
    <3>1. /\ edge.default = Get(v.main, "AIR3_S3_BUCKET", Nil) /\ edge.allowed = Allowed(v.main)
          /\ edge.default \in Allowed(v.main)
      BY <2>1, <2>4, EdgeLoaded DEF EdgeChecked
    <3>2. /\ c.allowed = Allowed(v.main) /\ c.s3allowed = S3Allowed(v.main)
          /\ Has(v.main, "AIR3_S3_BUCKET") => v.main["AIR3_S3_BUCKET"] \in S3Allowed(v.main)
      BY <2>4, ConnectorLoaded DEF ConnectorChecked
    <3>3. Has(v.main, "AIR3_S3_BUCKET") /\ edge.default = v.main["AIR3_S3_BUCKET"]
      BY <2>4, <3>1 DEF Get
    <3> QED BY <3>1, <3>2, <3>3
  <2>5. ASSUME NEW a \in DOMAIN edge.direct, Has(Group(v.servers, EnvSuffix[a]), "BUCKET")
        PROVE  DefaultBucketForServer(edge, a) \in edge.direct[a]
    BY <2>1, <2>5, DefaultsFit
  <2> QED BY <2>2, <2>3, <2>4, <2>5 DEF OneFileFits
<1> QED BY <1>1, ConfigInvariant, PTL
-----------------------------------------------------------------------------
(* Types.  What the handlers set themselves is followed step by step; the  *)
(* types of job, fetch and call follow from PathInv.                       *)
Status == Nat \cup {Nil}

Shapes ==
  /\ place \in {"new", "published", "opening", "fetching", "called", "sending", "done"}
  /\ conn \in connectors \cup {Nil}
  /\ effect # Nil => effect.op \in MutationOps /\ effect.bytes \in Nat
  /\ reply \in Status /\ answer \in Status

LEMMA RefusalIsStatus == ASSUME NEW e, NEW r PROVE Refusal(e, r) \in Nat
<1>1. S3Refusal(e, r) \in {0, 400, 403, 405}
  BY DEF S3Refusal
<1>2. PublicRefusal(e, r) \in {0, 400, 403, 405}
  BY DEF PublicRefusal
<1> QED BY <1>1, <1>2 DEF Refusal

LEMMA AnsweredShapes ==
  ASSUME Shapes, NEW status \in Nat, Answered(status)
  PROVE  Shapes'
  BY DEF Answered, config, Shapes, Status

LEMMA EdgeShapes ==
  ASSUME Shapes, Refuse \/ HeadBucket \/ ServeDirect \/ NotAllowed \/ InvalidTicket \/ Publish \/ Deadline
  PROVE  Shapes'
<1>1. CASE Refuse
  BY <1>1, RefusalIsStatus, AnsweredShapes DEF Refuse
<1>2. CASE HeadBucket
  <2>1. PICK status \in {200, 403} : Answered(status)
    BY <1>2 DEF HeadBucket
  <2> QED BY <2>1, AnsweredShapes
<1>3. CASE ServeDirect
  <2>1. CASE Answered(403)
    BY <2>1, AnsweredShapes
  <2>2. CASE ~Answered(403)
    <3>1. place' = "fetching" /\ UNCHANGED <<config, req, conn, call, effect, reply, answer>>
      BY <1>3, <2>2 DEF ServeDirect
    <3> QED BY <3>1 DEF config, Shapes
  <2> QED BY <2>1, <2>2
<1>4. CASE NotAllowed
  BY <1>4, AnsweredShapes DEF NotAllowed
<1>5. CASE InvalidTicket
  <2>1. PICK status \in {400, 503} : Answered(status)
    BY <1>5 DEF InvalidTicket
  <2> QED BY <2>1, AnsweredShapes
<1>6. CASE Publish
  <2>1. /\ place' \in {"published", "done"} /\ answer' \in {Nil, 503}
        /\ UNCHANGED <<config, req, conn, fetch, call, effect, reply>>
    BY <1>6 DEF Publish
  <2> QED BY <2>1 DEF config, Shapes, Status
<1>7. CASE Deadline
  <2>1. answer' = 504 /\ UNCHANGED <<config, req, job, place, conn, fetch, call, effect, reply>>
    BY <1>7 DEF Deadline
  <2> QED BY <2>1 DEF config, Shapes, Status
<1> QED BY <1>1, <1>2, <1>3, <1>4, <1>5, <1>6, <1>7

LEMMA ConnectorShapes ==
  ASSUME Shapes, Take \/ OpenUpload \/ Call \/ S3Declines \/ Send
  PROVE  Shapes'
<1>1. CASE Take
  <2>1. PICK c \in connectors, now \in ConnectorClock :
          Drop(c, Ticket, now) \/ TakeRefused(c, Ticket, now) \/ TakeAccepted(c, Ticket, now)
    BY <1>1 DEF Take, Ticket
  <2>2. UNCHANGED <<config, req, job, call, effect, answer>>
    BY <1>1 DEF Take
  <2>3. place' \in {"done", "sending", "opening", "fetching"} /\ conn' \in {conn, c} /\ reply' \in {reply, 405}
    BY <2>1 DEF Drop, TakeRefused, TakeAccepted, Replies
  <2> QED BY <2>2, <2>3 DEF config, Shapes, Status
<1>2. CASE OpenUpload
  <2>1. /\ place' \in {"sending", "fetching"} /\ reply' \in {reply, 503}
        /\ UNCHANGED <<config, req, job, conn, fetch, call, effect, answer>>
    BY <1>2 DEF OpenUpload, Replies
  <2> QED BY <2>1 DEF config, Shapes, Status
<1>3. CASE Call
  <2>1. /\ place' \in {"sending", "called"} /\ reply' \in {reply, 400}
        /\ UNCHANGED <<config, req, job, conn, fetch, effect, answer>>
    BY <1>3 DEF Call, Replies, StatusForFetchError
  <2> QED BY <2>1 DEF config, Shapes, Status
<1>4. CASE S3Declines
  <2>1. /\ place' = "sending" /\ reply' \in {400, 404, 503}
        /\ UNCHANGED <<config, req, job, conn, fetch, call, effect, answer>>
    BY <1>4 DEF S3Declines, Replies, StatusForFetchError
  <2> QED BY <2>1 DEF config, Shapes, Status
<1>5. CASE Send
  <2>1. /\ place' = "done" /\ answer' \in {answer, reply}
        /\ UNCHANGED <<config, req, job, conn, fetch, call, effect, reply>>
    BY <1>5 DEF Send
  <2> QED BY <2>1 DEF config, Shapes, Status
<1> QED BY <1>1, <1>2, <1>3, <1>4, <1>5

(* What S3 stores has the declared length, a natural number.               *)
LEMMA EffectShapes == ASSUME PathInv, Shapes, S3Does PROVE Shapes'
<1> DEFINE bytes == IF call.op \in StoredOps THEN Delivered ELSE 0
<1>1. /\ place = "called" /\ place' = "sending"
      /\ UNCHANGED <<config, req, job, conn, fetch, call, answer>>
      /\ effect' = IF call.op \in MutationOps THEN [op |-> call.op, bytes |-> bytes] ELSE Nil
      /\ reply' \in {200, 204, 206, 404, 503}
  BY DEF S3Does, Replies, StatusOf, Lost, StatusForFetchError
<1>2. Resolved /\ call.op = Operation
  BY <1>1 DEF PathInv, CallInv, Fetched, Ticketed
<1>3. bytes \in Nat
  <2>1. CASE call.op \in StoredOps
    <3>1. Operation \in UploadOps
      BY <1>2, <2>1 DEF StoredOps, UploadOps
    <3>2. job.length \in Nat /\ req.sent \in Nat
      BY <1>2, <3>1, UploadLengths DEF PathInv
    <3> QED BY <2>1, <3>2 DEF Delivered
  <2>2. CASE call.op \notin StoredOps
    BY <2>2
  <2> QED BY <2>1, <2>2
<1> HIDE DEF bytes
<1>4. effect' # Nil => effect'.op \in MutationOps /\ effect'.bytes \in Nat
  BY <1>1, <1>3
<1>5. conn' \in connectors' \cup {Nil} /\ answer' \in Status
  BY <1>1 DEF config, Shapes
<1>6. reply' \in Status
  BY <1>1 DEF Status
<1> QED BY <1>1, <1>4, <1>5, <1>6 DEF Shapes

LEMMA ShapesNext == ASSUME PathInv, Shapes, [Next]_vars PROVE Shapes'
<1>1. CASE UNCHANGED vars
  BY <1>1 DEF vars, config, Shapes
<1>2. CASE Next
  BY <1>2, EdgeShapes, ConnectorShapes, EffectShapes DEF Next
<1> QED BY <1>1, <1>2

(* A part the edge passes on is one S3 can have, or none.                  *)
LEMMA PartsAreNumbered ==
  ASSUME Resolved, job.multipart # Nil
  PROVE  job.multipart.partNumber \in 0..MaxPartNumber
<1>1. job = JobOf(edge, req) /\ Refusal(edge, req) = 0 /\ ~ForHeadBucket
  BY DEF Resolved
<1>2. UsesS3API(edge, req)
  BY <1>1 DEF JobOf, PublicJob
<1>3. job = S3Job(edge, req) /\ S3Refusal(edge, req) = 0 /\ S3Operation(req) # "HeadBucket"
  BY <1>1, <1>2 DEF JobOf, Refusal, ForHeadBucket
<1>4. job.multipart = MultipartFromMapping(edge, req)
  BY <1>3 DEF S3Job
<1>5. S3Operation(req) = "UploadPart" => req.part \in 1..MaxPartNumber
  BY <1>3, S3Accepted, S3OperationsAre DEF UploadPart
<1>6. job.multipart.partNumber = IF S3Operation(req) = "UploadPart" THEN req.part ELSE 0
  BY <1>4 DEF MultipartFromMapping
<1> QED BY <1>5, <1>6, LimitsAssumption

(* Jobs are of the nine operations, parts have numbers S3 takes, the edge  *)
(* calls S3 itself only for its direct servers, and statuses are numbers.  *)
THEOREM TypeCorrect == Spec => []TypeOK
<1>1. Init => Shapes
  BY DEF Init, Shapes, Status
<1>2. PathInv /\ Shapes /\ [Next]_vars => Shapes'
  BY ShapesNext
<1>3. PathInv /\ ConfigInv /\ Shapes => TypeOK
  <2> SUFFICES ASSUME PathInv, ConfigInv, Shapes PROVE TypeOK
    OBVIOUS
  <2>1. ASSUME job # Nil
        PROVE  Operation \in Operations /\ (job.multipart # Nil => job.multipart.partNumber \in 0..MaxPartNumber)
    <3>1. Resolved
      BY <2>1 DEF PathInv, JobInv
    <3>2. Operation \in Operations
      BY <3>1, JobShape DEF Resolved, ForHeadBucket, Operation
    <3> QED BY <3>1, <3>2, PartsAreNumbered
  <2>2. ASSUME fetch # Nil PROVE job # Nil /\ (conn # Nil \/ DirectServer(job.server))
    <3>1. Fetched
      BY <2>2 DEF PathInv, CallInv
    <3>2. Resolved /\ (conn = Nil => DirectServer(job.server))
      BY <3>1 DEF Fetched, Ticketed
    <3>3. job # Nil
      <4>1. job = JobOf(edge, req) /\ Refusal(edge, req) = 0
        BY <3>2 DEF Resolved
      <4>2. env \in Deployments /\ req \in Requests(env) /\ edge = EdgeOf(env.edge) /\ EdgeOf(env.edge) # Nil
        BY DEF PathInv, JobInv, ConfigInv
      <4> QED BY <4>1, <4>2, JobsAssumption
    <3> QED BY <3>2, <3>3
  <2>3. call # Nil => call.op = Operation
    BY DEF PathInv, CallInv
  <2> QED BY <2>1, <2>2, <2>3 DEF TypeOK, Shapes, Status
<1> QED BY <1>1, <1>2, <1>3, PathInductive, ConfigInvariant, PTL DEF Spec
=============================================================================
