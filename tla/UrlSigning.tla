----------------------------- MODULE UrlSigning -----------------------------
(* Signed URLs: internal/signing/hmac.go, which makes and verifies them,   *)
(* and what validatePublicRequest of the edge asks of a request of the     *)
(* public path.  Texts are those of Tickets; "ctl" stands for the newline  *)
(* of the canonical form too, and " " for a character that a path must     *)
(* escape.  HMAC is taken to be injective.                                 *)
(*                                                                         *)
(* Claims are a record: method, server, bucket, key, range, type,          *)
(* disposition, expires.  A request of the public path has the path and    *)
(* the parameters of its URL, among them sig (Nil: none), its method, and  *)
(* in header its Range header; absent texts are Empty.                     *)
EXTENDS S3Requests

CONSTANTS
  ByteRanges,  \* texts that are single byte ranges
  Digits(_)    \* the text of a time

ASSUME RangesAssumption ==
  \A t \in ByteRanges : t \in Text /\ t # Empty /\ Printable(t)

(* The fields of the claims, one to a line; a server only where there is   *)
(* one.                                                                    *)
Line(t, rest) == t \o <<"ctl">> \o rest

SlipCanonicalString(c) ==
  Line(<<c.method>>, Line(c.bucket, Line(c.key, Line(Digits(c.expires), Line(c.range, Line(c.type, c.disposition))))))

CanonicalString(c) ==
  LET object == Line(c.bucket, Line(c.key, Line(Digits(c.expires), Line(c.range, Line(c.type, c.disposition)))))
  IN Line(<<c.method>>, IF c.server = Empty THEN object ELSE Line(c.server, object))

Signature(c, secret) == <<secret, CanonicalString(c)>>

ValidClaims(multi, c) ==
  /\ c.method \in {"GET", "HEAD"}
  /\ multi => c.server \in Aliases
  /\ ValidBucket(c.bucket) /\ ValidKey(c.key)
-----------------------------------------------------------------------------
(* The signer.  Each segment of the path is escaped, and the path is put   *)
(* into a URL that escapes it when it becomes a string; only the Go        *)
(* package's short paths with a server are put together unescaped.         *)
Escaped(word) == CASE word = " " -> "%20" [] word = "%20" -> "%2520" [] OTHER -> word
Escape(t) == [i \in DOMAIN t |-> Escaped(t[i])]

ObjectPath(c, short) ==
  LET under == IF short THEN c.key ELSE c.bucket \o <<"/">> \o c.key
  IN IF c.server = Empty THEN under ELSE c.server \o <<"/">> \o under

SignedPath(signer, c, short) ==
  IF signer = "edgesign" /\ short /\ c.server # Empty THEN Escape(ObjectPath(c, short))
  ELSE Escape(Escape(ObjectPath(c, short)))

SignURL(signer, c, short, secret) ==
  [path |-> SignedPath(signer, c, short), expires |-> c.expires, range |-> c.range, type |-> c.type,
   disposition |-> c.disposition, sig |-> Signature(c, secret), method |-> c.method, header |-> Empty]
-----------------------------------------------------------------------------
(* The edge.                                                               *)
ClaimsFromURL(edge, r) ==
  LET at == PublicPlace(edge, r.path)
  IN [method |-> r.method, server |-> at.server, bucket |-> at.bucket, key |-> at.key, range |-> r.range,
      type |-> r.type, disposition |-> r.disposition, expires |-> r.expires]

ExpiresAfter(expires, now) == expires > now

ValidateURL(edge, r, now) ==
  LET c == ClaimsFromURL(edge, r)
  IN /\ ValidClaims(edge.multi, c)
     /\ r.sig # Nil /\ r.expires # Nil
     /\ ExpiresAfter(c.expires, now)
     /\ r.sig = Signature(c, edge.secret)

(* The range that is fetched is the signed one, header or not.             *)
EffectiveRange(edge, r) == IF edge.signing /\ r.range # Empty THEN r.range ELSE r.header

ValidatePublicRequest(edge, r, now) ==
  IF ~ValidClaims(edge.multi, [ClaimsFromURL(edge, r) EXCEPT !.method = "GET"]) THEN 400
  ELSE IF edge.signing /\ ~ValidateURL(edge, r, now) THEN 403
  ELSE IF edge.signing /\ r.header # Empty /\ r.range = Empty THEN 403
  ELSE IF edge.signing /\ r.range # Empty /\ r.header \notin {Empty, r.range} THEN 400
  ELSE IF EffectiveRange(edge, r) \notin {Empty} \cup ByteRanges THEN 400
  ELSE 0

PublicStatus(edge, r, now) ==
  IF r.method \notin {"GET", "HEAD"} THEN 405 ELSE ValidatePublicRequest(edge, r, now)
=============================================================================
