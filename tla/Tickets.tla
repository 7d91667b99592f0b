------------------------------ MODULE Tickets -------------------------------
(* The ticket, air3's one control message, and its validation:             *)
(* internal/tickets/ticket.go.  Edge and connector both run it, the edge   *)
(* before it publishes a ticket and the connector when it gets one.        *)
(*                                                                         *)
(* A text (a key, a path, a bucket) is a sequence of words, "/" being a    *)
(* word of its own and "ctl" standing for a control character: that is     *)
(* what the rules tell apart.  A word counts as one character, so          *)
(* MaxKeyLength stands for the 1024 of the code.  The fields the edge      *)
(* always makes well formed (version, ids, tokens, URLs) are left out; the *)
(* pair of upload URL and upload token is the field "upload".              *)
EXTENDS Integers, Sequences

CONSTANTS
  Buckets,          \* texts that are DNS-style bucket names
  Aliases,          \* texts that are server aliases
  MaxKeyLength,
  MaxListKeys,      \* 1000
  MaxPartNumber,    \* 10000
  MaxCompleteBody,  \* 1 MiB
  Nil               \* an absent value

ASSUME LimitsAssumption == MaxPartNumber \in Nat

(* The words that separate or escape others.                               *)
Marks == {"/", "ctl", " ", "%20", "%2F", "%2520"}
Word == STRING \cup Marks
Text == Seq(Word)

Empty == <<>>

(* The nine operations of a ticket, each with its HTTP method.             *)
MethodOf ==
  [GetObject               |-> "GET",    HeadObject           |-> "HEAD",
   ListObjectsV2           |-> "GET",    PutObject            |-> "PUT",
   DeleteObject            |-> "DELETE", UploadPart           |-> "PUT",
   CreateMultipartUpload   |-> "POST",   AbortMultipartUpload |-> "DELETE",
   CompleteMultipartUpload |-> "POST"]

Operations == DOMAIN MethodOf
ReadOps == {"GetObject", "HeadObject", "ListObjectsV2"}
UploadOps == {"PutObject", "UploadPart", "CompleteMultipartUpload"}
MultipartOps == {"CreateMultipartUpload", "UploadPart", "CompleteMultipartUpload", "AbortMultipartUpload"}

(* An object ticket of a signed URL carries no operation: its method says  *)
(* which it is.  Nil when they do not agree.                               *)
ResolveOperation(method, op) ==
  CASE op = Nil /\ method = "GET"  -> "GetObject"
    [] op = Nil /\ method = "HEAD" -> "HeadObject"
    [] op \in Operations /\ MethodOf[op] = method -> op
    [] OTHER -> Nil
-----------------------------------------------------------------------------
Printable(t) == \A i \in DOMAIN t : t[i] # "ctl"

(* The word s is a whole path segment of t.                                *)
HasSegment(t, s) ==
  \E i \in DOMAIN t :
    /\ t[i] = s
    /\ i > 1 => t[i - 1] = "/"
    /\ i < Len(t) => t[i + 1] = "/"

NonEmptyKeyLike(t) ==
  /\ t # Empty
  /\ Len(t) <= MaxKeyLength
  /\ t[1] # "/" /\ t[Len(t)] # "/"
  /\ \A i \in 1..(Len(t) - 1) : ~(t[i] = "/" /\ t[i + 1] = "/")
  /\ ~HasSegment(t, ".") /\ ~HasSegment(t, "..")
  /\ Printable(t)

ValidKey(t) == NonEmptyKeyLike(t)
ValidOptionalKey(t) == t = Empty \/ NonEmptyKeyLike(t)

ValidBucket(t) == t \in Buckets

(* A single byte range, from, to or both; both in their order.             *)
ValidByteRange(r) ==
  r # Nil =>
    \/ r.from = Nil /\ r.to # Nil
    \/ r.from # Nil /\ (r.to # Nil => r.to >= r.from)

ValidListRequest(l) ==
  /\ l # Nil
  /\ l.maxKeys \in 0..MaxListKeys
  /\ l.delimiter \in {Empty, <<"/">>}
  /\ ValidOptionalKey(l.prefix)
  /\ ValidOptionalKey(l.startAfter)
  /\ ValidBucket(l.rewrite.bucket)
  /\ ValidOptionalKey(l.rewrite.prefix)
  /\ ValidOptionalKey(l.rewrite.keyPrefix)

ValidUploadID(id) == id # Empty /\ Printable(id)

ValidMultipartRequest(op, m) ==
  /\ m # Nil
  /\ op \in MultipartOps
  /\ IF op = "CreateMultipartUpload" THEN m.uploadID = Empty ELSE ValidUploadID(m.uploadID)
  /\ IF op = "UploadPart" THEN m.partNumber \in 1..MaxPartNumber ELSE m.partNumber = 0
  /\ ValidBucket(m.rewrite.bucket)
  /\ ValidKey(m.rewrite.key)
-----------------------------------------------------------------------------
Absent ==
  [list |-> Nil, multipart |-> Nil, range |-> Nil, key |-> Empty,
   upload |-> FALSE, contentLength |-> Nil, contentType |-> Empty]

Omits(t, fields) == \A f \in fields : t[f] = Absent[f]

UploadEnvelope == {"upload", "contentLength", "contentType"}

HasUploadEnvelope(t) == t.upload /\ t.contentLength # Nil /\ t.contentLength >= 0

(* What each operation wants of a ticket, and what it wants left out.      *)
ValidForOperation(op, t) ==
  CASE op \in {"GetObject", "HeadObject"} ->
         Omits(t, {"list", "multipart"} \cup UploadEnvelope) /\ ValidKey(t.key) /\ ValidByteRange(t.range)
    [] op = "ListObjectsV2" ->
         Omits(t, {"key", "range", "multipart"} \cup UploadEnvelope) /\ ValidListRequest(t.list)
    [] op = "PutObject" ->
         Omits(t, {"list", "range", "multipart"}) /\ ValidKey(t.key) /\ HasUploadEnvelope(t) /\ Printable(t.contentType)
    [] op = "DeleteObject" ->
         Omits(t, {"list", "range", "multipart"} \cup UploadEnvelope) /\ ValidKey(t.key)
    [] op = "CreateMultipartUpload" ->
         /\ Omits(t, {"list", "range", "upload", "contentLength"})
         /\ ValidKey(t.key) /\ Printable(t.contentType) /\ ValidMultipartRequest(op, t.multipart)
    [] op = "UploadPart" ->
         /\ Omits(t, {"list", "range", "contentType"})
         /\ ValidKey(t.key) /\ HasUploadEnvelope(t) /\ ValidMultipartRequest(op, t.multipart)
    [] op = "CompleteMultipartUpload" ->
         /\ Omits(t, {"list", "range", "contentType"})
         /\ ValidKey(t.key) /\ HasUploadEnvelope(t)
         /\ t.contentLength <= MaxCompleteBody
         /\ ValidMultipartRequest(op, t.multipart)
    [] op = "AbortMultipartUpload" ->
         /\ Omits(t, {"list", "range"} \cup UploadEnvelope)
         /\ ValidKey(t.key) /\ ValidMultipartRequest(op, t.multipart)

(* Ticket.Validate at the time now of whoever validates.                   *)
ValidTicket(t, now) ==
  LET op == ResolveOperation(t.method, t.operation)
  IN /\ ValidBucket(t.bucket)
     /\ op # Nil
     /\ t.server = Empty \/ t.server \in Aliases
     /\ t.deadline > now
     /\ ValidForOperation(op, t)
=============================================================================
