-------------------------------- MODULE SigV4 --------------------------------
(* Verification of AWS Signature Version 4 on requests of the S3 API, in   *)
(* the Authorization header or in the query: internal/s3api/sigv4.go.      *)
(*                                                                         *)
(* A request is a record: method, path, args (its other query parameters), *)
(* the headers host, date (X-Amz-Date) and sha (X-Amz-Content-Sha256), Nil *)
(* where there is none, authorization (Nil, or credential, signedHeaders   *)
(* and signature), and the query parameters X-Amz-..., each the set of the *)
(* values it is there with: qAlgorithm, qCredential, qDate, qExpires,      *)
(* qSignedHeaders, qSignature, qSha.  Credentials are key, date and region *)
(* of a scope that is otherwise S3's; lists of signed headers are sorted,  *)
(* in lower case and without doubles (others are malformed); times are in  *)
(* hours, and HMAC and SHA-256 are taken to be injective.                  *)
EXTENDS Integers, FiniteSets

CONSTANTS
  AccessKey, AccessSecret, S3Region,  \* what the edge is configured with
  HeaderSkew,           \* 15 minutes
  MaxPresignExpires,    \* 7 days
  DayLength,            \* 24 hours
  NoValue               \* an absent header

ASSUME SigV4Assumption == HeaderSkew \in Nat /\ MaxPresignExpires \in Nat /\ DayLength \in Nat \ {0}

Day(time) == time \div DayLength
ReadOnly(method) == method \in {"GET", "HEAD"}
ReadHashes == {"unsigned", "empty"}
PayloadHashes == ReadHashes \cup {"signed", "trailer", "streaming"}

Single(values) == Cardinality(values) = 1
Only(values) == CHOOSE v \in values : TRUE

HeaderValue(r, name) ==
  CASE name = "host" -> r.host [] name = "x-amz-date" -> r.date [] name = "x-amz-content-sha256" -> r.sha

(* A request that the S3 API serves, and one whose marks are in the query. *)
IsSigV4Request(r) == r.authorization # NoValue \/ r.qAlgorithm = {"AWS4-HMAC-SHA256"}
IsPresigned(r) == r.qAlgorithm # {}
-----------------------------------------------------------------------------
(* The payload hash that is signed, or NoValue when it is refused.         *)
HeaderPayloadHash(r, signedHeaders) ==
  IF "x-amz-content-sha256" \in signedHeaders
  THEN IF r.sha \in (IF ReadOnly(r.method) THEN ReadHashes ELSE PayloadHashes) THEN r.sha ELSE NoValue
  ELSE IF ReadOnly(r.method) THEN "empty" ELSE NoValue

PresignedPayloadHash(r, signedHeaders) ==
  LET header == IF "x-amz-content-sha256" \in signedHeaders THEN {r.sha} ELSE {}
      hash == IF header # {} THEN Only(header) ELSE IF r.qSha # {} THEN Only(r.qSha) ELSE "unsigned"
  IN IF \/ header # {} /\ r.qSha # {} /\ header # r.qSha
        \/ hash \notin (IF ReadOnly(r.method) THEN ReadHashes ELSE PayloadHashes)
     THEN NoValue ELSE hash

(* The whole query, but for the signature of a presigned request.          *)
Query(r) ==
  [args |-> r.args, algorithm |-> r.qAlgorithm, credential |-> r.qCredential, date |-> r.qDate,
   expires |-> r.qExpires, signedHeaders |-> r.qSignedHeaders, sha |-> r.qSha, signature |-> r.qSignature]

SlipCanonicalQuery(r, presigned) == Query(r)
CanonicalQuery(r, presigned) == IF presigned THEN [Query(r) EXCEPT !.signature = {}] ELSE Query(r)

CanonicalRequest(r, signedHeaders, hash, presigned) ==
  [method |-> r.method, path |-> r.path, query |-> CanonicalQuery(r, presigned),
   headers |-> [h \in signedHeaders |-> HeaderValue(r, h)],
   signedHeaders |-> signedHeaders, hash |-> hash]

SigV4Signature(secret, credential, date, canonical) ==
  [secret |-> secret, scope |-> [date |-> credential.date, region |-> credential.region],
   date |-> date, canonical |-> canonical]
-----------------------------------------------------------------------------
ValidScope(credential, date) ==
  credential.key = AccessKey /\ credential.region = S3Region /\ credential.date = Day(date)

ValidSignedHeaders(r, signedHeaders) ==
  /\ "host" \in signedHeaders
  /\ \A h \in signedHeaders : HeaderValue(r, h) # NoValue

InHeaderTime(date, now) == now - date <= HeaderSkew /\ date - now <= HeaderSkew

InPresignedTime(date, expires, now) == expires \in 1..MaxPresignExpires /\ now <= date + expires

VerifyHeader(r, now) ==
  LET a == r.authorization
      hash == HeaderPayloadHash(r, a.signedHeaders)
  IN /\ r.date # NoValue
     /\ ValidScope(a.credential, r.date)
     /\ InHeaderTime(r.date, now)
     /\ hash # NoValue
     /\ ValidSignedHeaders(r, a.signedHeaders)
     /\ a.signature = SigV4Signature(AccessSecret, a.credential, r.date, CanonicalRequest(r, a.signedHeaders, hash, FALSE))

VerifyPresigned(r, now) ==
  /\ r.qAlgorithm = {"AWS4-HMAC-SHA256"}
  /\ \A p \in {"qCredential", "qDate", "qExpires", "qSignedHeaders", "qSignature"} : Single(r[p])
  /\ LET credential == Only(r.qCredential)
         date == Only(r.qDate)
         signedHeaders == Only(r.qSignedHeaders)
         hash == PresignedPayloadHash(r, signedHeaders)
     IN /\ ValidScope(credential, date)
        /\ InPresignedTime(date, Only(r.qExpires), now)
        /\ hash # NoValue
        /\ ValidSignedHeaders(r, signedHeaders)
        /\ Only(r.qSignature) = SigV4Signature(AccessSecret, credential, date, CanonicalRequest(r, signedHeaders, hash, TRUE))

VerifySigV4(r, now) ==
  IF IsPresigned(r) THEN VerifyPresigned(r, now)
  ELSE r.authorization # NoValue /\ VerifyHeader(r, now)
=============================================================================
