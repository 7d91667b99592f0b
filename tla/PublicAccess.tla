---------------------------- MODULE PublicAccess ----------------------------
(***************************************************************************)
(* Signing and verifying, as time goes by: somebody who has the secret     *)
(* signs a URL or an S3 request, the edge gets it as it was signed or      *)
(* changed in up to two places, sooner or later, and serves or refuses it. *)
(***************************************************************************)
EXTENDS UrlSigning, SigV4

CONSTANTS
  Edges,       \* configurations of the edge
  Claims,      \* what URLs are signed for
  Unsigned,    \* the S3 requests that are signed, before they are
  Changes,     \* what may change on the way: by kind and field, its values
  MaxTime      \* bound on the clock

Changed(kind, field) == IF field \in DOMAIN Changes[kind] THEN Changes[kind][field] ELSE {}
Expiries == {c.expires : c \in Claims} \cup (Changed("url", "expires") \ {Nil})

(* What is absent is no status, no time and no bucket.                     *)
ASSUME AbsentAssumption == Nil \notin Int /\ Nil \notin Buckets /\ NoValue \notin Int

(* URLs are signed for texts, of keys with nothing to escape but what      *)
(* Escaped has an escape for, with a range that is nothing else, and times *)
(* have texts of their own.                                                *)
ASSUME ClaimsAssumption ==
  /\ \A c \in Claims :
       /\ \A i \in DOMAIN c.key : c.key[i] \notin {"%2F", "%2520"}
       /\ \A field \in {"key", "range", "type", "disposition"} : c[field] \in Text
       /\ Printable(c.range)
  /\ \A e \in Expiries :
       /\ e \in Int /\ Digits(e) \in Text /\ Digits(e) # Empty /\ Printable(Digits(e))
       /\ Digits(e) \notin ByteRanges \cup {c.range : c \in Claims}
       /\ \A f \in Expiries : Digits(e) = Digits(f) => e = f

(* An S3 client starts from a request without signatures, with a date.     *)
ASSUME UnsignedAssumption ==
  \A s \in Unsigned :
    /\ DOMAIN s.request = {"method", "path", "args", "host", "date", "sha", "authorization", "qAlgorithm", "qCredential",
                           "qDate", "qExpires", "qSignedHeaders", "qSignature", "qSha"}
    /\ s.request.authorization = NoValue /\ s.request.qAlgorithm = {} /\ s.request.qSignature = {}
    /\ s.request.date \in Int /\ s.expires \in Nat

(* Nobody on the way has the edge's secrets.                               *)
ASSUME ChangesAssumption ==
  /\ \A field \in {"path", "range", "type", "disposition"} : Changed("url", field) \subseteq Text
  /\ \A v \in Changed("url", "sig") : v \notin {Nil, Empty} => \A e \in Edges : v[1] # e.secret
  /\ \A v \in Changed("s3", "authorization") : v # NoValue => v.signature.secret # AccessSecret
  /\ \A v \in Changed("s3", "qSignature") : \A s \in v : s.secret # AccessSecret

VARIABLES
  edge,      \* the configuration of the edge
  now,       \* the clock
  issued,    \* what was signed, or Nil
  request,   \* the request the edge gets now, or Nil
  verdict    \* the status it is refused with, 0: it is served

vars == <<edge, now, issued, request, verdict>>

Init ==
  /\ edge \in Edges /\ now = 0
  /\ issued = Nil /\ request = Nil /\ verdict = Nil

Tick ==
  /\ now < MaxTime /\ now' = now + 1
  /\ request' = Nil /\ verdict' = Nil
  /\ UNCHANGED <<edge, issued>>

(* cmd/signurl and the Go package: a short path leaves the bucket out.     *)
SignedUrl(signer, c, short, secret) ==
  [kind |-> "url", signer |-> signer, claims |-> c, short |-> short, secret |-> secret,
   request |-> SignURL(signer, c, short, secret)]

SignOne(signer, c, short, secret) ==
  /\ issued = Nil /\ ValidClaims(c.server # Empty, c)
  /\ issued' = SignedUrl(signer, c, short, secret)
  /\ UNCHANGED <<edge, now, request, verdict>>

(* An S3 client, by AWS's rules for the canonical request.                 *)
SignedHeader(r, credential, signedHeaders, secret) ==
  [r EXCEPT !.authorization =
    [credential |-> credential, signedHeaders |-> signedHeaders,
     signature |-> SigV4Signature(secret, credential, r.date,
       CanonicalRequest(r, signedHeaders, HeaderPayloadHash(r, signedHeaders), FALSE))]]

Presigned(r, credential, signedHeaders, expires, secret) ==
  LET q == [r EXCEPT !.qAlgorithm = {"AWS4-HMAC-SHA256"}, !.qCredential = {credential}, !.qDate = {r.date},
                     !.date = NoValue, !.qExpires = {expires}, !.qSignedHeaders = {signedHeaders}]
  IN [q EXCEPT !.qSignature = {SigV4Signature(secret, credential, r.date,
        CanonicalRequest(q, signedHeaders, PresignedPayloadHash(q, signedHeaders), TRUE))}]

SignedS3(s, secret) ==
  [kind |-> "s3", credential |-> s.credential, signedHeaders |-> s.signedHeaders, expires |-> s.expires,
   secret |-> secret, date |-> s.request.date,
   request |-> IF s.expires = 0 THEN SignedHeader(s.request, s.credential, s.signedHeaders, secret)
               ELSE Presigned(s.request, s.credential, s.signedHeaders, s.expires, secret)]

(* A signature is not taken for none.                                      *)
ASSUME SignedAssumption ==
  /\ \A e \in Edges, c \in Claims : Signature(c, e.secret) # Nil
  /\ \A s \in Unsigned :
       SignedHeader(s.request, s.credential, s.signedHeaders, AccessSecret).authorization # NoValue

SignS3(s, secret) ==
  /\ issued = Nil
  /\ issued' = SignedS3(s, secret)
  /\ UNCHANGED <<edge, now, request, verdict>>

(* What may arrive of what was signed.                                     *)
Altered(r) ==
  LET change == Changes[issued.kind]
  IN {r} \cup UNION {{[r EXCEPT ![field] = v] : v \in change[field]} : field \in DOMAIN change}

Arriving == UNION {Altered(r) : r \in Altered(issued.request)}

(* ServeHTTP: SigV4 marks lead to the S3 API where it is enabled, and are  *)
(* no signature to the public path.                                        *)
Verdict(r) ==
  CASE issued.kind = "url" -> PublicStatus(edge, r, now)
    [] issued.kind = "s3" /\ edge.s3api /\ IsSigV4Request(r) -> IF VerifySigV4(r, now) THEN 0 ELSE 403
    [] OTHER -> 403

Present ==
  /\ issued # Nil /\ (issued.kind = "s3" => edge.signing)
  /\ request = Nil
  /\ \E r \in Arriving : request' = r /\ verdict' = Verdict(r)
  /\ UNCHANGED <<edge, now, issued>>

Next ==
  \/ Tick \/ Present
  \/ \E signer \in {"signurl", "edgesign"}, c \in Claims, short \in BOOLEAN, secret \in {edge.secret, "other"} :
       SignOne(signer, c, short, secret)
  \/ \E s \in Unsigned, secret \in {AccessSecret, "other"} : SignS3(s, secret)

Spec == Init /\ [][Next]_vars
-----------------------------------------------------------------------------
(* What is served was signed: with the edge's secret, for exactly this     *)
(* method, object and range, and not too long ago.  No change on the way   *)
(* of anything that was signed, no other layout of the path and no other   *)
(* split of the signed text into its fields goes unnoticed.                *)
UrlWasSigned ==
  /\ issued.secret = edge.secret
  /\ \A f \in {"method", "server", "bucket", "key", "expires"} : ClaimsFromURL(edge, request)[f] = issued.claims[f]
  /\ EffectiveRange(edge, request) = issued.claims.range
  /\ now < issued.claims.expires

S3WasSigned ==
  LET then == issued.request
  IN /\ issued.secret = AccessSecret
     /\ request.method = then.method /\ request.path = then.path /\ request.args = then.args
     /\ \A h \in issued.signedHeaders : HeaderValue(request, h) = HeaderValue(then, h)
     /\ now <= issued.date + (IF issued.expires = 0 THEN HeaderSkew ELSE issued.expires)
     /\ issued.expires = 0 => now + HeaderSkew >= issued.date

ServedWasSigned ==
  verdict = 0 /\ edge.signing => IF issued.kind = "url" THEN UrlWasSigned ELSE S3WasSigned

(* And what was signed is served, unchanged and in time, when the signer   *)
(* has the edge's secrets, knows the layout of its paths and asks what may *)
(* be asked: for URLs, as SignURL says, "using the same canonical form     *)
(* that ValidateURL verifies".                                             *)
LayoutFits ==
  LET c == issued.claims
  IN /\ edge.multi = (c.server # Empty)
     /\ IF issued.short THEN DefaultBucketForServer(edge, c.server) = c.bucket
        ELSE DefaultBucketForServer(edge, c.server) = Nil

UrlIsGood ==
  /\ issued.secret = edge.secret /\ LayoutFits
  /\ now < issued.claims.expires
  /\ issued.claims.range \in {Empty} \cup ByteRanges

S3IsGood ==
  LET r == issued.request
      age == now - issued.date
      hash == IF issued.expires = 0 THEN HeaderPayloadHash(r, issued.signedHeaders)
              ELSE PresignedPayloadHash(r, issued.signedHeaders)
  IN /\ edge.s3api
     /\ issued.secret = AccessSecret /\ issued.credential.key = AccessKey
     /\ issued.credential.region = S3Region /\ issued.credential.date = Day(issued.date)
     /\ "host" \in issued.signedHeaders /\ hash # NoValue
     /\ \A h \in issued.signedHeaders : HeaderValue(r, h) # NoValue
     /\ IF issued.expires = 0 THEN age \in (-HeaderSkew)..HeaderSkew
        ELSE issued.expires <= MaxPresignExpires /\ age <= issued.expires

Unchanged == request # Nil /\ request = issued.request

SignedURLIsServed == Unchanged /\ issued.kind = "url" /\ UrlIsGood => verdict = 0

(* The same for every S3 request, and for every URL whose key has nothing  *)
(* to escape.                                                              *)
SignedIsServed ==
  Unchanged =>
    /\ issued.kind = "url" /\ UrlIsGood /\ Escape(issued.claims.key) = issued.claims.key => verdict = 0
    /\ issued.kind = "s3" /\ S3IsGood => verdict = 0
-----------------------------------------------------------------------------
(* The invariant of the proofs: what is issued was signed in one of the    *)
(* two ways, what is requested was made of it, and the verdict is on that. *)
IssuedInv ==
  issued # Nil =>
    \/ \E signer \in {"signurl", "edgesign"}, c \in Claims, short \in BOOLEAN, secret \in {edge.secret, "other"} :
         ValidClaims(c.server # Empty, c) /\ issued = SignedUrl(signer, c, short, secret)
    \/ \E s \in Unsigned, secret \in {AccessSecret, "other"} : issued = SignedS3(s, secret)

RequestInv ==
  request # Nil \/ verdict = 0 =>
    /\ issued # Nil /\ (issued.kind = "s3" => edge.signing)
    /\ request \in Arriving /\ verdict = Verdict(request)

AccessInv == edge \in Edges /\ now \in Nat /\ IssuedInv /\ RequestInv
=============================================================================
