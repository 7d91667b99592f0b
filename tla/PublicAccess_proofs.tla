------------------------- MODULE PublicAccess_proofs -------------------------
(***************************************************************************)
(* Proofs about PublicAccess, for any claims, requests, changes and times: *)
(* what is served was signed, and what was signed is served.               *)
(***************************************************************************)
EXTENDS PublicAccess, WellFoundedInduction, FiniteSetTheorems, SequenceTheorems, TLAPS

(* Facts about texts: numbers have a least one, a text with a slash has a  *)
(* first, and what is cut out of texts are texts.                          *)
LEMMA LeastNumber ==
  ASSUME NEW T, T \subseteq Nat, T # {}
  PROVE  \E x \in T : \A y \in T : x <= y
<1> DEFINE R == {p \in Nat \X Nat : p[1] < p[2]}
<1>1. IsWellFoundedOn(R, Nat)
  BY NatLessThanWellFounded DEF OpToRel
<1>2. PICK x \in T : \A y \in T : <<y, x>> \notin R
  <2> HIDE DEF R
  <2> QED
    BY <1>1, WFMin
<1>3. \A y \in T : ~(y < x)
  BY <1>2
<1> QED
  BY <1>3

LEMMA FirstSlash ==
  ASSUME NEW t \in Text, HasCut(t)
  PROVE  /\ FirstCut(t) \in 1..Len(t) /\ t[FirstCut(t)] = "/"
         /\ \A j \in 1..Len(t) : t[j] = "/" => FirstCut(t) <= j
<1>1. Slashes(t) \subseteq Nat /\ Slashes(t) # {}
  BY DEF Slashes, HasCut, Text
<1>2. \E i \in Slashes(t) : \A j \in Slashes(t) : i <= j
  BY <1>1, LeastNumber
<1>3. FirstCut(t) \in Slashes(t) /\ \A j \in Slashes(t) : FirstCut(t) <= j
  BY <1>2 DEF FirstCut
<1> QED
  BY <1>3 DEF Slashes, Text

LEMMA DecodedWord ==
  ASSUME NEW w
  PROVE  /\ w = "%2F" => Decoded(w) = "/"
         /\ w = "%20" => Decoded(w) = " "
         /\ w = "%2520" => Decoded(w) = "%20"
         /\ w \notin {"%2F", "%20", "%2520"} => Decoded(w) = w
BY DEF Decoded

LEMMA TextsOfText ==
  ASSUME NEW t \in Text
  PROVE  Before(t) \in Text /\ After(t) \in Text /\ Unescape(t) \in Text
<1> USE DEF Text
<1>1. Unescape(t) \in Text
  <2>1. ASSUME NEW i \in 1..Len(t) PROVE Decoded(t[i]) \in Word
    <3>1. Decoded(t[i]) \in Marks \cup {t[i]}
      BY DecodedWord DEF Marks
    <3> QED
      BY <3>1 DEF Word
  <2>2. Unescape(t) \in [1..Len(t) -> Word] /\ Len(t) \in Nat
    BY <2>1 DEF Unescape
  <2> QED
    BY <2>2, SeqDef
<1>2. CASE ~HasCut(t)
  BY <1>1, <1>2 DEF Before, After, Empty
<1>3. CASE HasCut(t)
  <2>1. FirstCut(t) \in 1..Len(t)
    BY <1>3, FirstSlash
  <2> QED
    BY <1>1, <1>3, <2>1 DEF Before, After
<1> QED
  BY <1>2, <1>3

(* A line of printable text ends at its newline and nowhere else.          *)
LEMMA Lines ==
  ASSUME NEW S, "ctl" \in S,
         NEW a \in Seq(S), NEW b \in Seq(S), Printable(a), Printable(b),
         NEW x \in Seq(S), NEW y \in Seq(S), Line(a, x) = Line(b, y)
  PROVE  a = b /\ x = y
<1> DEFINE u == Line(a, x)
           v == Line(b, y)
<1>1. /\ Len(u) = Len(a) + 1 + Len(x) /\ Len(v) = Len(b) + 1 + Len(y)
      /\ \A i \in 1..Len(a) : u[i] = a[i]
      /\ \A i \in 1..Len(b) : v[i] = b[i]
      /\ u[Len(a) + 1] = "ctl" /\ v[Len(b) + 1] = "ctl"
      /\ \A i \in 1..Len(x) : u[Len(a) + 1 + i] = x[i]
      /\ \A i \in 1..Len(y) : v[Len(b) + 1 + i] = y[i]
  BY DEF Line
<1> HIDE DEF u, v
<1>2. u = v /\ Len(a) \in Nat /\ Len(b) \in Nat /\ Len(x) \in Nat /\ Len(y) \in Nat
  BY DEF u, v
<1>3. ~(Len(a) < Len(b)) /\ ~(Len(b) < Len(a))
  <2>1. \A i \in 1..Len(a) : a[i] # "ctl"
    BY DEF Printable
  <2>2. \A i \in 1..Len(b) : b[i] # "ctl"
    BY DEF Printable
  <2>3. CASE Len(a) < Len(b)
    <3>1. Len(a) + 1 \in 1..Len(b)
      BY <1>2, <2>3
    <3> QED
      BY <1>1, <1>2, <2>2, <3>1
  <2>4. CASE Len(b) < Len(a)
    <3>1. Len(b) + 1 \in 1..Len(a)
      BY <1>2, <2>4
    <3> QED
      BY <1>1, <1>2, <2>1, <3>1
  <2> QED
    BY <1>2, <2>3, <2>4
<1>4. Len(a) = Len(b) /\ Len(x) = Len(y)
  BY <1>1, <1>2, <1>3
<1>5. \A i \in 1..Len(a) : a[i] = b[i]
  BY <1>1, <1>2, <1>4
<1>6. \A i \in 1..Len(x) : x[i] = y[i]
  BY <1>1, <1>2, <1>4
<1> QED
  BY <1>4, <1>5, <1>6

(* What the edge takes for the object of a path is made of texts.          *)
LEMMA PlaceOfText ==
  ASSUME NEW e, NEW t \in Text
  PROVE  /\ PublicPlace(e, t).key \in Text
         /\ ~e.multi => PublicPlace(e, t).server = Empty
<1>1. CASE ~e.multi /\ e.default # Nil
  BY <1>1, TextsOfText DEF PublicPlace
<1>2. CASE ~(~e.multi /\ e.default # Nil)
  <2>1. PublicPlace(e, t) = Place(e, t)
    BY <1>2 DEF PublicPlace
  <2>2. Unescape(After(t)) \in Text /\ Unescape(After(After(t))) \in Text
    BY TextsOfText
  <2>3. CASE ~e.multi
    BY <2>1, <2>2, <2>3 DEF Place
  <2>4. CASE e.multi /\ DefaultBucketForServer(e, Unescape(Before(t))) # Nil
    BY <2>1, <2>2, <2>4 DEF Place
  <2>5. CASE e.multi /\ DefaultBucketForServer(e, Unescape(Before(t))) = Nil
    BY <2>1, <2>2, <2>5 DEF Place
  <2> QED
    BY <2>3, <2>4, <2>5
<1> QED
  BY <1>1, <1>2

(* Two claims that come to one signed text are for the same object, method,*)
(* range and time: the one that was signed, whose range is not the text of *)
(* a time, and the one of a request, whose range is a byte range.          *)
Signable(c) ==
  /\ c.method \in {"GET", "HEAD"}
  /\ c.server \in {Empty} \cup Aliases /\ c.bucket \in Buckets
  /\ \A t \in {c.key, c.range, c.type, c.disposition} : t \in Text
  /\ Printable(c.key) /\ Printable(c.range)
  /\ c.expires \in Expiries

Object(c) == Line(c.bucket, Line(c.key, Line(Digits(c.expires), Line(c.range, Line(c.type, c.disposition)))))

LEMMA LineOfTexts ==
  ASSUME NEW S, "ctl" \in S, NEW a \in Seq(S), NEW x \in Seq(S)
  PROVE  Line(a, x) \in Seq(S)
<1>1. <<"ctl">> \in Seq(S)
  OBVIOUS
<1>2. a \o <<"ctl">> \in Seq(S)
  BY <1>1, ConcatProperties
<1> QED
  BY <1>2, ConcatProperties DEF Line

LEMMA PartsOfClaims ==
  ASSUME NEW c, Signable(c)
  PROVE  /\ \A t \in {c.server, c.bucket, c.key, c.range, c.type, c.disposition, Digits(c.expires)} : t \in Text
         /\ \A t \in {c.server, c.bucket, c.key, c.range, Digits(c.expires)} : Printable(t)
         /\ Object(c) \in Text
<1>1. "ctl" \in Word
  BY DEF Word, Marks
<1>2. c.server \in Text /\ Printable(c.server)
  <2>1. CASE c.server = Empty
    BY <2>1 DEF Empty, Text, Printable
  <2>2. CASE c.server \in Aliases
    BY <2>2, NamesAssumption DEF NamesAssumption, Printable, Marks
  <2> QED
    BY <2>1, <2>2 DEF Signable
<1>3. c.bucket \in Text /\ Printable(c.bucket)
  BY NamesAssumption DEF NamesAssumption, Printable, Marks, Signable
<1>4. Digits(c.expires) \in Text /\ Printable(Digits(c.expires))
  BY ClaimsAssumption DEF ClaimsAssumption, Signable
<1>5. c.key \in Text /\ c.range \in Text /\ c.type \in Text /\ c.disposition \in Text
  BY DEF Signable
<1>6. Object(c) \in Text
  BY <1>1, <1>3, <1>4, <1>5, LineOfTexts DEF Object, Text
<1> QED
  BY <1>2, <1>3, <1>4, <1>5, <1>6 DEF Signable

LEMMA SameObject ==
  ASSUME NEW c, NEW d, Signable(c), Signable(d), Object(c) = Object(d)
  PROVE  c.bucket = d.bucket /\ c.key = d.key /\ Digits(c.expires) = Digits(d.expires) /\ c.range = d.range
<1> DEFINE Rest1(k) == Line(k.type, k.disposition)
           Rest2(k) == Line(k.range, Rest1(k))
           Rest3(k) == Line(Digits(k.expires), Rest2(k))
           Rest4(k) == Line(k.key, Rest3(k))
<1>1. "ctl" \in Word
  BY DEF Word, Marks
<1>2. ASSUME NEW k \in {c, d}
      PROVE  Rest1(k) \in Text /\ Rest2(k) \in Text /\ Rest3(k) \in Text /\ Rest4(k) \in Text
  BY <1>1, PartsOfClaims, LineOfTexts DEF Text
<1>3. Line(c.bucket, Rest4(c)) = Line(d.bucket, Rest4(d))
  BY DEF Object
<1> HIDE DEF Rest1, Rest2, Rest3, Rest4
<1>4. c.bucket = d.bucket /\ Rest4(c) = Rest4(d)
  BY <1>1, <1>2, <1>3, PartsOfClaims, Lines DEF Text
<1>5. c.key = d.key /\ Rest3(c) = Rest3(d)
  <2>1. Line(c.key, Rest3(c)) = Line(d.key, Rest3(d))
    BY <1>4 DEF Rest4
  <2> QED
    BY <1>1, <1>2, <2>1, PartsOfClaims, Lines DEF Text
<1>6. Digits(c.expires) = Digits(d.expires) /\ Rest2(c) = Rest2(d)
  <2>1. Line(Digits(c.expires), Rest2(c)) = Line(Digits(d.expires), Rest2(d))
    BY <1>5 DEF Rest3
  <2> QED
    BY <1>1, <1>2, <2>1, PartsOfClaims, Lines DEF Text
<1>7. c.range = d.range
  <2>1. Line(c.range, Rest1(c)) = Line(d.range, Rest1(d))
    BY <1>6 DEF Rest2
  <2> QED
    BY <1>1, <1>2, <2>1, PartsOfClaims, Lines DEF Text
<1> QED
  BY <1>4, <1>5, <1>6, <1>7

(* With a server on one side only every field would be read as the one     *)
(* before it, and the range as a time.                                     *)
LEMMA ShiftedObject ==
  ASSUME NEW c, NEW d, Signable(c), Signable(d), Object(c) = Line(d.server, Object(d))
  PROVE  c.range = Digits(d.expires)
<1> DEFINE Rest1(k) == Line(k.type, k.disposition)
           Rest2(k) == Line(k.range, Rest1(k))
           Rest3(k) == Line(Digits(k.expires), Rest2(k))
           Rest4(k) == Line(k.key, Rest3(k))
<1>1. "ctl" \in Word
  BY DEF Word, Marks
<1>2. ASSUME NEW k \in {c, d}
      PROVE  Rest1(k) \in Text /\ Rest2(k) \in Text /\ Rest3(k) \in Text /\ Rest4(k) \in Text
  BY <1>1, PartsOfClaims, LineOfTexts DEF Text
<1>3. Line(c.bucket, Rest4(c)) = Line(d.server, Object(d)) /\ Object(d) = Line(d.bucket, Rest4(d))
  BY DEF Object
<1> HIDE DEF Rest1, Rest2, Rest3, Rest4
<1>4. Rest4(c) = Line(d.bucket, Rest4(d))
  <2>1. Rest4(c) \in Text /\ Object(d) \in Text /\ c.bucket \in Text /\ d.server \in Text
    BY <1>2, PartsOfClaims
  <2>2. Printable(c.bucket) /\ Printable(d.server)
    BY PartsOfClaims
  <2> QED
    BY <1>1, <1>3, <2>1, <2>2, Lines DEF Text
<1>5. Rest3(c) = Rest4(d)
  <2>1. Line(c.key, Rest3(c)) = Line(d.bucket, Rest4(d))
    BY <1>4 DEF Rest4
  <2> QED
    BY <1>1, <1>2, <2>1, PartsOfClaims, Lines DEF Text
<1>6. Rest2(c) = Rest3(d)
  <2>1. Line(Digits(c.expires), Rest2(c)) = Line(d.key, Rest3(d))
    BY <1>5 DEF Rest3, Rest4
  <2> QED
    BY <1>1, <1>2, <2>1, PartsOfClaims, Lines DEF Text
<1>7. Line(c.range, Rest1(c)) = Line(Digits(d.expires), Rest2(d))
  BY <1>6 DEF Rest2, Rest3
<1> QED
  BY <1>1, <1>2, <1>7, PartsOfClaims, Lines DEF Text

LEMMA SameClaims ==
  ASSUME NEW c, NEW d, Signable(c), Signable(d), CanonicalString(c) = CanonicalString(d),
         c.range \in {k.range : k \in Claims}, d.range \in {Empty} \cup ByteRanges
  PROVE  \A f \in {"method", "server", "bucket", "key", "expires", "range"} : c[f] = d[f]
<1> DEFINE Rest(k) == IF k.server = Empty THEN Object(k) ELSE Line(k.server, Object(k))
           S == Word \cup {"GET", "HEAD"}
<1>1. Line(<<c.method>>, Rest(c)) = Line(<<d.method>>, Rest(d))
  BY DEF CanonicalString, Object
<1>2. "ctl" \in Word /\ "ctl" \in S
  BY DEF Word, Marks
<1>3. ASSUME NEW k \in {c, d}
      PROVE  Rest(k) \in Seq(S) /\ <<k.method>> \in Seq(S) /\ Printable(<<k.method>>)
  <2>1. Rest(k) \in Text
    BY <1>2, PartsOfClaims, LineOfTexts DEF Text
  <2>2. k.method \in {"GET", "HEAD"}
    BY DEF Signable
  <2>3. Seq(Word) \subseteq Seq(S)
    BY SeqMonotonic
  <2>4. <<k.method>> \in Seq(S)
    BY <2>2
  <2>5. Printable(<<k.method>>)
    BY <2>2 DEF Printable
  <2> QED
    BY <2>1, <2>3, <2>4, <2>5 DEF Text
<1>4. <<c.method>> = <<d.method>> /\ Rest(c) = Rest(d)
  <2> HIDE DEF Rest, S
  <2>1. Rest(c) \in Seq(S) /\ <<c.method>> \in Seq(S) /\ Printable(<<c.method>>)
    BY <1>3
  <2>2. Rest(d) \in Seq(S) /\ <<d.method>> \in Seq(S) /\ Printable(<<d.method>>)
    BY <1>3
  <2> DEFINE m == <<c.method>>
             n == <<d.method>>
  <2>3. Line(m, Rest(c)) = Line(n, Rest(d)) /\ m \in Seq(S) /\ n \in Seq(S) /\ Printable(m) /\ Printable(n)
    BY <1>1, <2>1, <2>2
  <2>4. m = n /\ Rest(c) = Rest(d)
    <3> HIDE DEF m, n
    <3> QED
      BY <1>2, <2>1, <2>2, <2>3, Lines
  <2> QED
    BY <2>4
<1>5. c.method = d.method
  BY <1>4
<1>6. c.server = d.server /\ Object(c) = Object(d)
  <2>1. CASE c.server = Empty /\ d.server = Empty
    BY <1>4, <2>1
  <2>2. CASE c.server # Empty /\ d.server # Empty
    <3>1. Line(c.server, Object(c)) = Line(d.server, Object(d))
      BY <1>4, <2>2
    <3> QED
      BY <1>2, <3>1, PartsOfClaims, Lines DEF Text
  <2>3. CASE c.server = Empty /\ d.server # Empty
    <3>1. c.range = Digits(d.expires)
      BY <1>4, <2>3, ShiftedObject
    <3> QED
      BY <3>1, ClaimsAssumption DEF ClaimsAssumption, Signable
  <2>4. CASE c.server # Empty /\ d.server = Empty
    <3>1. d.range = Digits(c.expires)
      BY <1>4, <2>4, ShiftedObject
    <3> QED
      BY <3>1, ClaimsAssumption DEF ClaimsAssumption, Signable
  <2> QED
    BY <2>1, <2>2, <2>3, <2>4
<1>7. c.bucket = d.bucket /\ c.key = d.key /\ Digits(c.expires) = Digits(d.expires) /\ c.range = d.range
  BY <1>6, SameObject
<1>8. c.expires = d.expires
  BY <1>7, ClaimsAssumption DEF ClaimsAssumption, Signable
<1> QED
  BY <1>5, <1>6, <1>7, <1>8
-----------------------------------------------------------------------------
(* The invariant: what is requested was made of what was issued, and the   *)
(* verdict is the edge's on that.                                          *)
LEMMA AccessInit ==
  ASSUME Init
  PROVE  AccessInv
BY AbsentAssumption DEF AbsentAssumption, Init, AccessInv, IssuedInv, RequestInv

LEMMA TickStep ==
  ASSUME AccessInv, Tick
  PROVE  AccessInv'
<1>1. edge' = edge /\ issued' = issued /\ now' \in Nat
  BY DEF Tick, AccessInv
<1>2. IssuedInv'
  BY <1>1 DEF AccessInv, IssuedInv
<1>3. RequestInv'
  BY AbsentAssumption DEF AbsentAssumption, Tick, RequestInv
<1> QED
  BY <1>1, <1>2, <1>3 DEF AccessInv

LEMMA SignStep ==
  ASSUME AccessInv, issued = Nil, UNCHANGED <<edge, now, request, verdict>>,
         \/ \E signer \in {"signurl", "edgesign"}, c \in Claims, short \in BOOLEAN, secret \in {edge.secret, "other"} :
              ValidClaims(c.server # Empty, c) /\ issued' = SignedUrl(signer, c, short, secret)
         \/ \E s \in Unsigned, secret \in {AccessSecret, "other"} : issued' = SignedS3(s, secret)
  PROVE  AccessInv'
<1>1. request = Nil /\ verdict # 0
  BY DEF AccessInv, RequestInv
<1>2. RequestInv'
  BY <1>1 DEF RequestInv
<1>3. IssuedInv'
  BY DEF IssuedInv
<1> QED
  BY <1>2, <1>3 DEF AccessInv

LEMMA PresentStep ==
  ASSUME AccessInv, Present
  PROVE  AccessInv'
<1>1. edge' = edge /\ now' = now /\ issued' = issued
  BY DEF Present
<1>2. IssuedInv'
  BY <1>1 DEF AccessInv, IssuedInv
<1>3. request' \in Arriving' /\ verdict' = Verdict(request)'
  <2>1. PICK r \in Arriving : request' = r /\ verdict' = Verdict(r)
    BY DEF Present
  <2>2. Arriving' = Arriving
    BY <1>1 DEF Arriving, Altered
  <2>3. Verdict(request)' = Verdict(r)
    BY <1>1, <2>1 DEF Verdict
  <2> QED
    BY <2>1, <2>2, <2>3
<1>4. RequestInv'
  BY <1>1, <1>3 DEF RequestInv, Present
<1> QED
  BY <1>1, <1>2, <1>4 DEF AccessInv

(* What is requested at any time was made of what was issued: a signed URL *)
(* or S3 request, as it was or changed on the way.                         *)
THEOREM AccessInvariant == Spec => []AccessInv
<1>1. AccessInv /\ [Next]_vars => AccessInv'
  <2> SUFFICES ASSUME AccessInv, [Next]_vars PROVE AccessInv'
    OBVIOUS
  <2>1. CASE Tick
    BY <2>1, TickStep
  <2>2. CASE Present
    BY <2>2, PresentStep
  <2>3. ASSUME NEW signer \in {"signurl", "edgesign"}, NEW c \in Claims, NEW short \in BOOLEAN,
               NEW secret \in {edge.secret, "other"}, SignOne(signer, c, short, secret)
        PROVE  AccessInv'
    BY <2>3, SignStep DEF SignOne
  <2>4. ASSUME NEW s \in Unsigned, NEW secret \in {AccessSecret, "other"}, SignS3(s, secret)
        PROVE  AccessInv'
    BY <2>4, SignStep DEF SignS3
  <2>5. CASE UNCHANGED vars
    BY <2>5 DEF vars, AccessInv, IssuedInv, RequestInv, Arriving, Altered, Verdict
  <2> QED
    BY <2>1, <2>2, <2>3, <2>4, <2>5 DEF Next
<1> QED
  BY <1>1, AccessInit, PTL DEF Spec
-----------------------------------------------------------------------------
(* What arrives has the fields of what was signed, each as it was or with  *)
(* one of the values it may be changed to.                                 *)
LEMMA AlteredFields ==
  ASSUME NEW r, NEW q \in Altered(r)
  PROVE  /\ DOMAIN q = DOMAIN r
         /\ \A field \in DOMAIN r : q[field] = r[field] \/ q[field] \in Changed(issued.kind, field)
<1>1. CASE q = r
  BY <1>1
<1>2. CASE q # r
  <2>1. PICK f \in DOMAIN Changes[issued.kind] : \E v \in Changes[issued.kind][f] : q = [r EXCEPT ![f] = v]
    BY <1>2 DEF Altered
  <2>2. PICK v \in Changes[issued.kind][f] : q = [r EXCEPT ![f] = v]
    BY <2>1
  <2>3. v \in Changed(issued.kind, f)
    BY <2>1 DEF Changed
  <2>4. q = [x \in DOMAIN r |-> IF x = f THEN v ELSE r[x]]
    BY <2>2
  <2> QED
    BY <2>3, <2>4
<1> QED
  BY <1>1, <1>2

LEMMA Arrivals ==
  ASSUME request \in Arriving
  PROVE  /\ DOMAIN request = DOMAIN issued.request
         /\ \A field \in DOMAIN issued.request :
              request[field] = issued.request[field] \/ request[field] \in Changed(issued.kind, field)
<1>1. PICK r \in Altered(issued.request) : request \in Altered(r)
  BY DEF Arriving
<1>2. DOMAIN r = DOMAIN issued.request /\ DOMAIN request = DOMAIN issued.request
  BY <1>1, AlteredFields
<1>3. ASSUME NEW field \in DOMAIN issued.request
      PROVE  request[field] = issued.request[field] \/ request[field] \in Changed(issued.kind, field)
  <2>1. request[field] = r[field] \/ request[field] \in Changed(issued.kind, field)
    BY <1>1, <1>2, AlteredFields
  <2>2. r[field] = issued.request[field] \/ r[field] \in Changed(issued.kind, field)
    BY <1>1, AlteredFields
  <2> QED
    BY <2>1, <2>2
<1> QED
  BY <1>2, <1>3

LEMMA EscapedWord ==
  ASSUME NEW w
  PROVE  /\ w = " " => Escaped(w) = "%20"
         /\ w = "%20" => Escaped(w) = "%2520"
         /\ w \notin {" ", "%20"} => Escaped(w) = w
BY DEF Escaped

LEMMA EscapeOfText ==
  ASSUME NEW t \in Text
  PROVE  Escape(t) \in Text
<1>1. ASSUME NEW i \in 1..Len(t) PROVE Escaped(t[i]) \in Word
  <2>1. Escaped(t[i]) \in Marks \cup {t[i]}
    BY EscapedWord DEF Marks
  <2> QED
    BY <2>1 DEF Word, Text
<1>2. Escape(t) \in [1..Len(t) -> Word] /\ Len(t) \in Nat
  BY <1>1 DEF Escape, Text
<1> QED
  BY <1>2, SeqDef DEF Text

LEMMA JoinOfTexts ==
  ASSUME NEW a \in Text, NEW b \in Text
  PROVE  a \o <<"/">> \o b \in Text
<1>1. "/" \in Word
  BY DEF Word, Marks
<1>2. <<"/">> \in Seq(Word)
  BY <1>1
<1>3. a \o <<"/">> \in Seq(Word)
  BY <1>2, ConcatProperties DEF Text
<1> QED
  BY <1>3, ConcatProperties DEF Text

(* A signed URL's path is a text.                                          *)
LEMMA SignedPathIsText ==
  ASSUME NEW signer, NEW c \in Claims, NEW short, ValidClaims(c.server # Empty, c)
  PROVE  SignedPath(signer, c, short) \in Text
<1>1. c.key \in Text /\ c.bucket \in Text
  BY ClaimsAssumption, NamesAssumption DEF ClaimsAssumption, NamesAssumption, ValidClaims, ValidBucket
<1>2. c.server # Empty => c.server \in Text
  BY NamesAssumption DEF NamesAssumption, ValidClaims
<1>3. c.bucket \o <<"/">> \o c.key \in Text
  BY <1>1, JoinOfTexts
<1>4. ObjectPath(c, short) \in Text
  <2>1. CASE c.server = Empty
    BY <1>1, <1>3, <2>1 DEF ObjectPath
  <2>2. CASE c.server # Empty
    <3>1. c.server \o <<"/">> \o c.key \in Text /\ c.server \o <<"/">> \o (c.bucket \o <<"/">> \o c.key) \in Text
      BY <1>1, <1>2, <1>3, <2>2, JoinOfTexts
    <3> QED
      BY <2>2, <3>1 DEF ObjectPath
  <2> QED
    BY <2>1, <2>2
<1>5. Escape(ObjectPath(c, short)) \in Text /\ Escape(Escape(ObjectPath(c, short))) \in Text
  BY <1>4, EscapeOfText
<1> QED
  BY <1>5 DEF SignedPath

(* A URL that is served with signing on was signed for what it asks.       *)
LEMMA UrlServed ==
  ASSUME AccessInv, verdict = 0, edge.signing, issued.kind = "url"
  PROVE  UrlWasSigned
<1>1. issued # Nil /\ request \in Arriving /\ PublicStatus(edge, request, now) = 0
  BY DEF AccessInv, RequestInv, Verdict
<1>2. PICK signer \in {"signurl", "edgesign"}, c \in Claims, short \in BOOLEAN, secret \in {edge.secret, "other"} :
        ValidClaims(c.server # Empty, c) /\ issued = SignedUrl(signer, c, short, secret)
  <2>1. ASSUME NEW s, NEW secret, issued = SignedS3(s, secret) PROVE FALSE
    BY <2>1 DEF SignedS3
  <2> QED
    BY <1>1, <2>1 DEF AccessInv, IssuedInv
<1> DEFINE then == SignURL(signer, c, short, secret)
           d == ClaimsFromURL(edge, request)
<1>3. /\ issued.request = then /\ issued.claims = c /\ issued.secret = secret
      /\ DOMAIN then = {"path", "expires", "range", "type", "disposition", "sig", "method", "header"}
      /\ then.path = SignedPath(signer, c, short) /\ then.sig = Signature(c, secret) /\ then.expires = c.expires
      /\ then.range = c.range /\ then.type = c.type /\ then.disposition = c.disposition
  BY <1>2 DEF SignedUrl, SignURL
<1>4. /\ request.method \in {"GET", "HEAD"}
      /\ ValidClaims(edge.multi, [d EXCEPT !.method = "GET"]) /\ ValidateURL(edge, request, now)
      /\ ~(request.header # Empty /\ request.range = Empty)
      /\ EffectiveRange(edge, request) \in {Empty} \cup ByteRanges
  BY <1>1 DEF PublicStatus, ValidatePublicRequest
<1>5. ASSUME NEW field \in DOMAIN then
      PROVE  request[field] = then[field] \/ request[field] \in Changed("url", field)
  BY <1>1, <1>3, Arrivals
<1> HIDE DEF then, d
<1>6. /\ d.method = request.method /\ d.range = request.range /\ d.type = request.type
      /\ d.disposition = request.disposition /\ d.expires = request.expires
      /\ d.server = PublicPlace(edge, request.path).server /\ d.key = PublicPlace(edge, request.path).key
  BY DEF d, ClaimsFromURL
<1>7. /\ ValidClaims(edge.multi, d) /\ request.sig # Nil /\ request.expires # Nil /\ d.expires > now
      /\ request.sig = <<edge.secret, CanonicalString(d)>>
  BY <1>4 DEF ValidateURL, ExpiresAfter, d, Signature
<1>8. request.sig = then.sig
  <2>1. CASE request.sig \in Changed("url", "sig")
    <3>1. request.sig # Empty /\ request.sig[1] = edge.secret
      BY <1>7 DEF Empty
    <3>2. edge \in Edges
      BY DEF AccessInv
    <3> QED
      BY <1>7, <2>1, <3>1, <3>2, ChangesAssumption DEF ChangesAssumption
  <2> QED
    BY <1>3, <1>5, <2>1
<1>9. secret = edge.secret /\ CanonicalString(c) = CanonicalString(d)
  BY <1>3, <1>7, <1>8 DEF Signature
<1>10. Signable(c)
  <2>1. c.expires \in Expiries
    BY DEF Expiries
  <2>2. Printable(c.key) /\ c.bucket \in Buckets /\ c.method \in {"GET", "HEAD"}
    BY <1>2 DEF ValidClaims, ValidBucket, ValidKey, NonEmptyKeyLike
  <2>3. c.server \in {Empty} \cup Aliases
    BY <1>2 DEF ValidClaims
  <2>4. c.key \in Text /\ c.range \in Text /\ c.type \in Text /\ c.disposition \in Text /\ Printable(c.range)
    BY ClaimsAssumption DEF ClaimsAssumption
  <2> QED
    BY <2>1, <2>2, <2>3, <2>4 DEF Signable
<1>11. request.path \in Text /\ request.range \in Text /\ request.type \in Text /\ request.disposition \in Text
  <2>1. then.path \in Text /\ then.range \in Text /\ then.type \in Text /\ then.disposition \in Text
    BY <1>2, <1>3, SignedPathIsText, ClaimsAssumption DEF ClaimsAssumption
  <2> QED
    BY <1>3, <1>5, <2>1, ChangesAssumption DEF ChangesAssumption
<1>12. d.range \in {Empty} \cup ByteRanges /\ EffectiveRange(edge, request) = d.range
  BY <1>4, <1>6 DEF EffectiveRange
<1>13. Signable(d)
  <2>1. d.expires \in Expiries
    <3>1. request.expires = c.expires \/ request.expires \in Changed("url", "expires") \ {Nil}
      BY <1>3, <1>5, <1>7
    <3> QED
      BY <1>6, <3>1 DEF Expiries
  <2>2. Printable(d.key) /\ d.bucket \in Buckets /\ d.method \in {"GET", "HEAD"}
    BY <1>7 DEF ValidClaims, ValidBucket, ValidKey, NonEmptyKeyLike
  <2>3. d.server \in {Empty} \cup Aliases
    <3>1. ~edge.multi => d.server = Empty
      BY <1>6, <1>11, PlaceOfText
    <3> QED
      BY <1>7, <3>1 DEF ValidClaims
  <2>4. d.key \in Text /\ d.range \in Text /\ d.type \in Text /\ d.disposition \in Text
    BY <1>6, <1>11, PlaceOfText
  <2>5. Printable(d.range)
    <3>1. CASE d.range = Empty
      BY <3>1 DEF Printable, Empty
    <3>2. CASE d.range \in ByteRanges
      BY <3>2, RangesAssumption DEF RangesAssumption
    <3> QED
      BY <1>12, <3>1, <3>2
  <2> QED
    BY <2>1, <2>2, <2>3, <2>4, <2>5 DEF Signable
<1>14. \A f \in {"method", "server", "bucket", "key", "expires", "range"} : c[f] = d[f]
  BY <1>9, <1>10, <1>12, <1>13, SameClaims
<1>15. now < c.expires
  <2>1. c.expires \in Int /\ now \in Nat
    BY <1>10, ClaimsAssumption DEF ClaimsAssumption, Signable, AccessInv
  <2> QED
    BY <1>7, <1>14, <2>1
<1> QED
  BY <1>3, <1>9, <1>12, <1>14, <1>15 DEF UrlWasSigned, d

(* What signing adds to an S3 request, in a header or in the query.        *)
Fields == {"method", "path", "args", "host", "date", "sha", "authorization", "qAlgorithm", "qCredential",
           "qDate", "qExpires", "qSignedHeaders", "qSignature", "qSha"}

HeaderCanonical(r, H) == CanonicalRequest(r, H, HeaderPayloadHash(r, H), FALSE)
QueryCanonical(r, H) == CanonicalRequest(r, H, PresignedPayloadHash(r, H), TRUE)

LEMMA HeaderFields ==
  ASSUME NEW s \in Unsigned, NEW secret, NEW q, q = SignedHeader(s.request, s.credential, s.signedHeaders, secret)
  PROVE  DOMAIN q = Fields /\ \A f \in Fields \ {"authorization"} : q[f] = s.request[f]
<1> DEFINE a == [credential |-> s.credential, signedHeaders |-> s.signedHeaders,
                 signature |-> SigV4Signature(secret, s.credential, s.request.date, HeaderCanonical(s.request, s.signedHeaders))]
<1>1. q = [s.request EXCEPT !.authorization = a]
  BY DEF SignedHeader, HeaderCanonical
<1>2. DOMAIN s.request = Fields
  BY UnsignedAssumption DEF UnsignedAssumption, Fields
<1> HIDE DEF a
<1> QED
  BY <1>1, <1>2

LEMMA HeaderSigned ==
  ASSUME NEW s \in Unsigned, NEW secret, NEW q, q = SignedHeader(s.request, s.credential, s.signedHeaders, secret)
  PROVE  /\ q.authorization.credential = s.credential /\ q.authorization.signedHeaders = s.signedHeaders
         /\ q.authorization.signature =
              SigV4Signature(secret, s.credential, s.request.date, HeaderCanonical(s.request, s.signedHeaders))
<1> DEFINE g == SigV4Signature(secret, s.credential, s.request.date, HeaderCanonical(s.request, s.signedHeaders))
           a == [credential |-> s.credential, signedHeaders |-> s.signedHeaders, signature |-> g]
<1>1. q = [s.request EXCEPT !.authorization = a]
  BY DEF SignedHeader, HeaderCanonical
<1>2. "authorization" \in DOMAIN s.request
  BY UnsignedAssumption DEF UnsignedAssumption
<1>3. a.credential = s.credential /\ a.signedHeaders = s.signedHeaders /\ a.signature = g
  OBVIOUS
<1> HIDE DEF a, g
<1>4. q.authorization = a
  BY <1>1, <1>2
<1> QED
  BY <1>3, <1>4 DEF g

(* The request that is signed in its query, before its signature.          *)
QuerySigned(s) ==
  [s.request EXCEPT !.qAlgorithm = {"AWS4-HMAC-SHA256"}, !.qCredential = {s.credential}, !.qDate = {s.request.date},
                    !.date = NoValue, !.qExpires = {s.expires}, !.qSignedHeaders = {s.signedHeaders}]

QuerySignature(s, secret) ==
  SigV4Signature(secret, s.credential, s.request.date, QueryCanonical(QuerySigned(s), s.signedHeaders))

LEMMA QueryFields ==
  ASSUME NEW s \in Unsigned
  PROVE  /\ DOMAIN QuerySigned(s) = Fields
         /\ QuerySigned(s).qAlgorithm = {"AWS4-HMAC-SHA256"} /\ QuerySigned(s).qCredential = {s.credential}
         /\ QuerySigned(s).qDate = {s.request.date} /\ QuerySigned(s).qExpires = {s.expires}
         /\ QuerySigned(s).qSignedHeaders = {s.signedHeaders} /\ QuerySigned(s).authorization = NoValue
<1>1. DOMAIN s.request = Fields /\ s.request.authorization = NoValue
  BY UnsignedAssumption DEF UnsignedAssumption, Fields
<1> QED
  BY <1>1 DEF QuerySigned, Fields

LEMMA PresignedFields ==
  ASSUME NEW s \in Unsigned, NEW secret,
         NEW p, p = Presigned(s.request, s.credential, s.signedHeaders, s.expires, secret)
  PROVE  /\ DOMAIN p = Fields
         /\ \A f \in Fields \ {"qSignature"} : p[f] = QuerySigned(s)[f]
         /\ p.qSignature = {QuerySignature(s, secret)}
<1>1. p = [QuerySigned(s) EXCEPT !.qSignature = {QuerySignature(s, secret)}]
  BY DEF Presigned, QuerySigned, QuerySignature, QueryCanonical
<1>2. "qSignature" \in Fields
  BY DEF Fields
<1> QED
  BY <1>1, <1>2, QueryFields

LEMMA OneValue ==
  ASSUME NEW V, NEW v, V = {v}
  PROVE  Single(V) /\ Only(V) = v
BY FS_Singleton DEF Single, Only

LEMMA SomeValue ==
  ASSUME NEW V, Single(V)
  PROVE  Only(V) \in V
<1>1. V # {}
  BY FS_EmptySet DEF Single
<1> QED
  BY <1>1 DEF Only

(* An S3 request that is served was signed, with its method, path, query   *)
(* and signed headers, in time.                                            *)
LEMMA S3Context ==
  ASSUME AccessInv, issued # Nil, issued.kind # "url"
  PROVE  \E s \in Unsigned, secret \in {AccessSecret, "other"} :
           /\ issued = SignedS3(s, secret) /\ issued.kind = "s3"
           /\ issued.secret = secret /\ issued.date = s.request.date
           /\ issued.signedHeaders = s.signedHeaders /\ issued.expires = s.expires /\ issued.credential = s.credential
           /\ issued.request = IF s.expires = 0 THEN SignedHeader(s.request, s.credential, s.signedHeaders, secret)
                               ELSE Presigned(s.request, s.credential, s.signedHeaders, s.expires, secret)
           /\ DOMAIN issued.request = Fields
<1>1. ASSUME NEW signer, NEW c, NEW short, NEW secret, issued = SignedUrl(signer, c, short, secret) PROVE FALSE
  BY <1>1 DEF SignedUrl
<1>2. PICK s \in Unsigned, secret \in {AccessSecret, "other"} : issued = SignedS3(s, secret)
  BY <1>1 DEF AccessInv, IssuedInv
<1>3. /\ issued.kind = "s3"
      /\ issued.secret = secret /\ issued.date = s.request.date
      /\ issued.signedHeaders = s.signedHeaders /\ issued.expires = s.expires /\ issued.credential = s.credential
      /\ issued.request = IF s.expires = 0 THEN SignedHeader(s.request, s.credential, s.signedHeaders, secret)
                          ELSE Presigned(s.request, s.credential, s.signedHeaders, s.expires, secret)
  BY <1>2 DEF SignedS3
<1>4. DOMAIN issued.request = Fields
  <2>1. CASE s.expires = 0
    <3>1. issued.request = SignedHeader(s.request, s.credential, s.signedHeaders, secret)
      BY <1>3, <2>1
    <3> QED
      BY <3>1, HeaderFields
  <2>2. CASE s.expires # 0
    <3>1. issued.request = Presigned(s.request, s.credential, s.signedHeaders, s.expires, secret)
      BY <1>3, <2>2
    <3> QED
      BY <3>1, PresignedFields
  <2> QED
    BY <2>1, <2>2
<1> QED
  BY <1>2, <1>3, <1>4

LEMMA S3Verified ==
  ASSUME AccessInv, verdict = 0, issued.kind # "url"
  PROVE  /\ issued # Nil /\ issued.kind = "s3" /\ request \in Arriving /\ VerifySigV4(request, now)
         /\ \A f \in DOMAIN issued.request :
              request[f] = issued.request[f] \/ request[f] \in Changed("s3", f)
<1>1. issued # Nil /\ request \in Arriving /\ Verdict(request) = 0
  BY DEF AccessInv, RequestInv
<1>2. issued.kind = "s3"
  BY <1>1, S3Context
<1>3. VerifySigV4(request, now)
  BY <1>1, <1>2 DEF Verdict
<1> QED
  BY <1>1, <1>2, <1>3, Arrivals

LEMMA HeadersKept ==
  ASSUME NEW r, NEW q, r.host = q.host, r.date = q.date, r.sha = q.sha, NEW h
  PROVE  HeaderValue(r, h) = HeaderValue(q, h)
BY DEF HeaderValue

LEMMA SameSignature ==
  ASSUME NEW secret, NEW tecret, NEW cred, NEW dred, NEW date, NEW eate, NEW C, NEW D,
         SigV4Signature(secret, cred, date, C) = SigV4Signature(tecret, dred, eate, D)
  PROVE  secret = tecret /\ date = eate /\ C = D
BY DEF SigV4Signature

LEMMA SameHeaderCanonical ==
  ASSUME NEW r, NEW q, NEW H, NEW G, HeaderCanonical(r, H) = HeaderCanonical(q, G)
  PROVE  /\ H = G /\ r.method = q.method /\ r.path = q.path /\ r.args = q.args
         /\ \A h \in H : HeaderValue(r, h) = HeaderValue(q, h)
<1> DEFINE C == HeaderCanonical(r, H)
           D == HeaderCanonical(q, G)
<1>1. C = D
  OBVIOUS
<1>2. /\ C.method = r.method /\ C.path = r.path /\ C.query = Query(r)
      /\ C.headers = [h \in H |-> HeaderValue(r, h)] /\ C.signedHeaders = H
      /\ D.method = q.method /\ D.path = q.path /\ D.query = Query(q)
      /\ D.headers = [h \in G |-> HeaderValue(q, h)] /\ D.signedHeaders = G
  BY DEF HeaderCanonical, CanonicalRequest, CanonicalQuery
<1>3. Query(r).args = r.args /\ Query(q).args = q.args
  BY DEF Query
<1> HIDE DEF C, D
<1>4. H = G /\ r.method = q.method /\ r.path = q.path /\ r.args = q.args
  BY <1>1, <1>2, <1>3
<1>5. [h \in H |-> HeaderValue(r, h)] = [h \in H |-> HeaderValue(q, h)]
  BY <1>1, <1>2
<1>6. ASSUME NEW h \in H PROVE HeaderValue(r, h) = HeaderValue(q, h)
  BY <1>5
<1> QED
  BY <1>4, <1>6

LEMMA SameQueryCanonical ==
  ASSUME NEW r, NEW q, NEW H, NEW G, QueryCanonical(r, H) = QueryCanonical(q, G)
  PROVE  /\ H = G /\ r.method = q.method /\ r.path = q.path /\ r.args = q.args /\ r.qExpires = q.qExpires
         /\ \A h \in H : HeaderValue(r, h) = HeaderValue(q, h)
<1> DEFINE C == QueryCanonical(r, H)
           D == QueryCanonical(q, G)
           X == [Query(r) EXCEPT !.signature = {}]
           Y == [Query(q) EXCEPT !.signature = {}]
<1>1. C = D
  OBVIOUS
<1>2. /\ C.method = r.method /\ C.path = r.path /\ C.query = X
      /\ C.headers = [h \in H |-> HeaderValue(r, h)] /\ C.signedHeaders = H
      /\ D.method = q.method /\ D.path = q.path /\ D.query = Y
      /\ D.headers = [h \in G |-> HeaderValue(q, h)] /\ D.signedHeaders = G
  BY DEF QueryCanonical, CanonicalRequest, CanonicalQuery
<1>3. X.args = r.args /\ Y.args = q.args /\ X.expires = r.qExpires /\ Y.expires = q.qExpires
  BY DEF Query
<1> HIDE DEF C, D, X, Y
<1>4. H = G /\ r.method = q.method /\ r.path = q.path /\ r.args = q.args /\ r.qExpires = q.qExpires
  BY <1>1, <1>2, <1>3
<1>5. [h \in H |-> HeaderValue(r, h)] = [h \in H |-> HeaderValue(q, h)]
  BY <1>1, <1>2
<1>6. ASSUME NEW h \in H PROVE HeaderValue(r, h) = HeaderValue(q, h)
  BY <1>5
<1> QED
  BY <1>4, <1>6

LEMMA HeaderServed ==
  ASSUME AccessInv, verdict = 0, issued.kind # "url", ~IsPresigned(request)
  PROVE  S3WasSigned
<1>1. /\ issued # Nil /\ issued.kind = "s3"
      /\ \A f \in DOMAIN issued.request :
           request[f] = issued.request[f] \/ request[f] \in Changed("s3", f)
      /\ request.authorization # NoValue /\ VerifyHeader(request, now)
  BY S3Verified DEF VerifySigV4
<1>2. PICK s \in Unsigned, secret \in {AccessSecret, "other"} :
        /\ issued.secret = secret /\ issued.date = s.request.date
        /\ issued.signedHeaders = s.signedHeaders /\ issued.expires = s.expires
        /\ issued.request = IF s.expires = 0 THEN SignedHeader(s.request, s.credential, s.signedHeaders, secret)
                            ELSE Presigned(s.request, s.credential, s.signedHeaders, s.expires, secret)
        /\ DOMAIN issued.request = Fields
  BY <1>1, S3Context
<1> DEFINE a == request.authorization
           H == a.signedHeaders
<1>3. /\ a.signature = SigV4Signature(AccessSecret, a.credential, request.date, HeaderCanonical(request, H))
      /\ InHeaderTime(request.date, now)
  BY <1>1 DEF VerifyHeader, HeaderCanonical
<1>4. a.signature.secret = AccessSecret
  BY <1>3 DEF SigV4Signature
<1>5. a = issued.request.authorization
  <2>1. a = issued.request.authorization \/ a \in Changed("s3", "authorization")
    BY <1>1, <1>2 DEF Fields
  <2> QED
    BY <1>1, <1>4, <2>1, ChangesAssumption DEF ChangesAssumption
<1>6. s.expires = 0
  <2>1. CASE s.expires # 0
    <3>1. issued.request = Presigned(s.request, s.credential, s.signedHeaders, s.expires, secret)
      BY <1>2, <2>1
    <3>2. issued.request.authorization = QuerySigned(s).authorization
      BY <3>1, PresignedFields DEF Fields
    <3>3. QuerySigned(s).authorization = NoValue
      BY QueryFields
    <3> QED
      BY <1>1, <1>5, <3>2, <3>3
  <2> QED
    BY <2>1
<1>7. issued.request = SignedHeader(s.request, s.credential, s.signedHeaders, secret)
  BY <1>2, <1>6
<1>8. /\ a.signedHeaders = s.signedHeaders
      /\ a.signature = SigV4Signature(secret, s.credential, s.request.date, HeaderCanonical(s.request, s.signedHeaders))
  <2>1. /\ issued.request.authorization.signedHeaders = s.signedHeaders
        /\ issued.request.authorization.signature =
             SigV4Signature(secret, s.credential, s.request.date, HeaderCanonical(s.request, s.signedHeaders))
    BY <1>7, HeaderSigned
  <2> QED
    BY <1>5, <2>1
<1>9. /\ AccessSecret = secret /\ request.date = s.request.date /\ H = s.signedHeaders
      /\ request.method = s.request.method /\ request.path = s.request.path /\ request.args = s.request.args
      /\ \A h \in H : HeaderValue(request, h) = HeaderValue(s.request, h)
  <2>1. SigV4Signature(AccessSecret, a.credential, request.date, HeaderCanonical(request, H))
          = SigV4Signature(secret, s.credential, s.request.date, HeaderCanonical(s.request, s.signedHeaders))
    BY <1>3, <1>8
  <2> HIDE DEF a, H
  <2>2. /\ AccessSecret = secret /\ request.date = s.request.date
        /\ HeaderCanonical(request, H) = HeaderCanonical(s.request, s.signedHeaders)
    BY <2>1, SameSignature
  <2> QED
    BY <2>2, SameHeaderCanonical
<1>10. /\ issued.request.method = s.request.method /\ issued.request.path = s.request.path
       /\ issued.request.args = s.request.args /\ issued.request.host = s.request.host
       /\ issued.request.date = s.request.date /\ issued.request.sha = s.request.sha
  BY <1>7, HeaderFields DEF Fields
<1>11. \A h : HeaderValue(issued.request, h) = HeaderValue(s.request, h)
  BY <1>10, HeadersKept
<1>12. s.request.date \in Int /\ now \in Nat /\ HeaderSkew \in Nat
  BY UnsignedAssumption, SigV4Assumption DEF UnsignedAssumption, SigV4Assumption, AccessInv
<1>13. now <= s.request.date + HeaderSkew /\ now + HeaderSkew >= s.request.date
  BY <1>3, <1>9, <1>12 DEF InHeaderTime
<1> QED
  BY <1>2, <1>6, <1>9, <1>10, <1>11, <1>13 DEF S3WasSigned

LEMMA QueryServed ==
  ASSUME AccessInv, verdict = 0, issued.kind # "url", IsPresigned(request)
  PROVE  S3WasSigned
<1>1. /\ issued # Nil /\ issued.kind = "s3"
      /\ \A f \in DOMAIN issued.request :
           request[f] = issued.request[f] \/ request[f] \in Changed("s3", f)
      /\ VerifyPresigned(request, now)
  BY S3Verified DEF VerifySigV4
<1>2. PICK s \in Unsigned, secret \in {AccessSecret, "other"} :
        /\ issued.secret = secret /\ issued.date = s.request.date
        /\ issued.signedHeaders = s.signedHeaders /\ issued.expires = s.expires
        /\ issued.request = IF s.expires = 0 THEN SignedHeader(s.request, s.credential, s.signedHeaders, secret)
                            ELSE Presigned(s.request, s.credential, s.signedHeaders, s.expires, secret)
        /\ DOMAIN issued.request = Fields
  BY <1>1, S3Context
<1> DEFINE H == Only(request.qSignedHeaders)
           date == Only(request.qDate)
           cred == Only(request.qCredential)
           q == QuerySigned(s)
<1>3. /\ Single(request.qSignature) /\ InPresignedTime(date, Only(request.qExpires), now)
      /\ Only(request.qSignature) = SigV4Signature(AccessSecret, cred, date, QueryCanonical(request, H))
  BY <1>1 DEF VerifyPresigned, QueryCanonical
<1> HIDE DEF H, date, cred, q
<1>4. Only(request.qSignature) \in request.qSignature /\ Only(request.qSignature).secret = AccessSecret
  BY <1>3, SomeValue DEF SigV4Signature
<1>5. request.qSignature = issued.request.qSignature
  <2>1. request.qSignature = issued.request.qSignature \/ request.qSignature \in Changed("s3", "qSignature")
    BY <1>1, <1>2 DEF Fields
  <2> QED
    BY <1>4, <2>1, ChangesAssumption DEF ChangesAssumption
<1>6. s.expires # 0
  <2>1. CASE s.expires = 0
    <3>1. issued.request.qSignature = s.request.qSignature
      BY <1>2, <2>1, HeaderFields DEF Fields
    <3> QED
      BY <1>4, <1>5, <3>1, UnsignedAssumption DEF UnsignedAssumption
  <2> QED
    BY <2>1
<1>7. issued.request = Presigned(s.request, s.credential, s.signedHeaders, s.expires, secret)
  BY <1>2, <1>6
<1>8. Only(request.qSignature) =
        SigV4Signature(secret, s.credential, s.request.date, QueryCanonical(q, s.signedHeaders))
  <2>1. issued.request.qSignature = {QuerySignature(s, secret)}
    BY <1>7, PresignedFields
  <2>2. Only(request.qSignature) = QuerySignature(s, secret)
    BY <1>5, <2>1, OneValue
  <2> QED
    BY <2>2 DEF QuerySignature, q
<1>9. /\ AccessSecret = secret /\ date = s.request.date /\ H = s.signedHeaders
      /\ request.method = q.method /\ request.path = q.path /\ request.args = q.args /\ request.qExpires = q.qExpires
      /\ \A h \in H : HeaderValue(request, h) = HeaderValue(q, h)
  <2>1. SigV4Signature(AccessSecret, cred, date, QueryCanonical(request, H))
          = SigV4Signature(secret, s.credential, s.request.date, QueryCanonical(q, s.signedHeaders))
    BY <1>3, <1>8
  <2>2. /\ AccessSecret = secret /\ date = s.request.date
        /\ QueryCanonical(request, H) = QueryCanonical(q, s.signedHeaders)
    BY <2>1, SameSignature
  <2> QED
    BY <2>2, SameQueryCanonical
<1>10. /\ \A f \in Fields \ {"qSignature"} : issued.request[f] = q[f]
       /\ q.qExpires = {s.expires}
  <2>1. \A f \in Fields \ {"qSignature"} : issued.request[f] = QuerySigned(s)[f]
    BY <1>7, PresignedFields
  <2>2. QuerySigned(s).qExpires = {s.expires}
    BY QueryFields
  <2> QED
    BY <2>1, <2>2 DEF q
<1>11. /\ issued.request.method = q.method /\ issued.request.path = q.path
       /\ issued.request.args = q.args /\ issued.request.host = q.host
       /\ issued.request.date = q.date /\ issued.request.sha = q.sha
  BY <1>10 DEF Fields
<1>12. \A h : HeaderValue(issued.request, h) = HeaderValue(q, h)
  BY <1>11, HeadersKept
<1>13. now <= s.request.date + s.expires
  <2>1. request.qExpires = {s.expires}
    BY <1>9, <1>10
  <2>2. Only(request.qExpires) = s.expires
    BY <2>1, OneValue
  <2> QED
    BY <1>3, <1>9, <2>2 DEF InPresignedTime
<1> QED
  BY <1>2, <1>6, <1>9, <1>11, <1>12, <1>13 DEF S3WasSigned

(* Nothing is served that was not signed, with the edge's secret, for this *)
(* method, object and range, and is in time, whatever is changed on the    *)
(* way: the order of the checks in ValidateURL and verifyAWSSigV4.         *)
THEOREM ServedOnlyWhenSigned == Spec => []ServedWasSigned
<1>1. AccessInv => ServedWasSigned
  <2> SUFFICES ASSUME AccessInv, verdict = 0, edge.signing
               PROVE  IF issued.kind = "url" THEN UrlWasSigned ELSE S3WasSigned
    BY DEF ServedWasSigned
  <2>1. CASE issued.kind = "url"
    BY <2>1, UrlServed
  <2>2. CASE issued.kind # "url"
    BY <2>2, HeaderServed, QueryServed
  <2> QED
    BY <2>1, <2>2
<1> QED
  BY <1>1, AccessInvariant, PTL
-----------------------------------------------------------------------------
(* What was signed is served.  The canonical request of a verifier is the  *)
(* signer's, as neither reads what the signature is put into.              *)
LEMMA HeaderCanonicalKept ==
  ASSUME NEW r, NEW q, \A f \in Fields \ {"authorization"} : r[f] = q[f], NEW H
  PROVE  HeaderPayloadHash(r, H) = HeaderPayloadHash(q, H) /\ HeaderCanonical(r, H) = HeaderCanonical(q, H)
<1>1. /\ r.method = q.method /\ r.path = q.path /\ r.args = q.args
      /\ r.host = q.host /\ r.date = q.date /\ r.sha = q.sha
      /\ r.qAlgorithm = q.qAlgorithm /\ r.qCredential = q.qCredential /\ r.qDate = q.qDate
      /\ r.qExpires = q.qExpires /\ r.qSignedHeaders = q.qSignedHeaders /\ r.qSha = q.qSha
      /\ r.qSignature = q.qSignature
  BY DEF Fields
<1>2. HeaderPayloadHash(r, H) = HeaderPayloadHash(q, H)
  BY <1>1 DEF HeaderPayloadHash
<1>3. [h \in H |-> HeaderValue(r, h)] = [h \in H |-> HeaderValue(q, h)]
  BY <1>1, HeadersKept
<1>4. Query(r) = Query(q)
  BY <1>1 DEF Query
<1> QED
  BY <1>1, <1>2, <1>3, <1>4 DEF HeaderCanonical, CanonicalRequest, CanonicalQuery

LEMMA QueryCanonicalKept ==
  ASSUME NEW r, NEW q, \A f \in Fields \ {"qSignature"} : r[f] = q[f], NEW H
  PROVE  PresignedPayloadHash(r, H) = PresignedPayloadHash(q, H) /\ QueryCanonical(r, H) = QueryCanonical(q, H)
<1>1. /\ r.method = q.method /\ r.path = q.path /\ r.args = q.args
      /\ r.host = q.host /\ r.date = q.date /\ r.sha = q.sha
      /\ r.qAlgorithm = q.qAlgorithm /\ r.qCredential = q.qCredential /\ r.qDate = q.qDate
      /\ r.qExpires = q.qExpires /\ r.qSignedHeaders = q.qSignedHeaders /\ r.qSha = q.qSha
  BY DEF Fields
<1>2. PresignedPayloadHash(r, H) = PresignedPayloadHash(q, H)
  BY <1>1 DEF PresignedPayloadHash
<1>3. [h \in H |-> HeaderValue(r, h)] = [h \in H |-> HeaderValue(q, h)]
  BY <1>1, HeadersKept
<1>4. [Query(r) EXCEPT !.signature = {}] = [Query(q) EXCEPT !.signature = {}]
  BY <1>1 DEF Query
<1> QED
  BY <1>1, <1>2, <1>3, <1>4 DEF QueryCanonical, CanonicalRequest, CanonicalQuery

LEMMA HeaderIsServed ==
  ASSUME AccessInv, issued # Nil, issued.kind = "s3", S3IsGood, issued.expires = 0, request = issued.request
  PROVE  ~IsPresigned(request) /\ request.authorization # NoValue /\ VerifyHeader(request, now)
<1>1. PICK s \in Unsigned :
        /\ issued.date = s.request.date
        /\ issued.signedHeaders = s.signedHeaders /\ issued.expires = s.expires /\ issued.credential = s.credential
        /\ issued.request = SignedHeader(s.request, s.credential, s.signedHeaders, AccessSecret)
  BY S3Context DEF S3IsGood
<1> DEFINE a == request.authorization
           H == s.signedHeaders
<1>2. /\ a.credential = s.credential /\ a.signedHeaders = H
      /\ a.signature = SigV4Signature(AccessSecret, s.credential, s.request.date, HeaderCanonical(s.request, H))
  BY <1>1, HeaderSigned
<1>3. \A f \in Fields \ {"authorization"} : request[f] = s.request[f]
  BY <1>1, HeaderFields
<1>4. request.date = s.request.date /\ request.qAlgorithm = s.request.qAlgorithm
  BY <1>3 DEF Fields
<1>5. s.request.qAlgorithm = {} /\ s.request.date \in Int /\ now \in Nat /\ HeaderSkew \in Nat
  BY UnsignedAssumption, SigV4Assumption DEF UnsignedAssumption, SigV4Assumption, AccessInv
<1>6. a # NoValue
  BY <1>1, SignedAssumption DEF SignedAssumption
<1>7. HeaderCanonical(request, H) = HeaderCanonical(s.request, H)
  BY <1>3, HeaderCanonicalKept
<1>8. /\ s.credential.key = AccessKey /\ s.credential.region = S3Region /\ s.credential.date = Day(s.request.date)
      /\ "host" \in H /\ HeaderPayloadHash(request, H) # NoValue
      /\ \A h \in H : HeaderValue(request, h) # NoValue
      /\ now - s.request.date \in (-HeaderSkew)..HeaderSkew
  BY <1>1 DEF S3IsGood
<1>9. InHeaderTime(request.date, now)
  BY <1>4, <1>5, <1>8 DEF InHeaderTime
<1>10. ValidScope(a.credential, request.date) /\ ValidSignedHeaders(request, a.signedHeaders)
  BY <1>2, <1>4, <1>8 DEF ValidScope, ValidSignedHeaders
<1>11. request.date # NoValue
  BY <1>4, <1>5, AbsentAssumption DEF AbsentAssumption
<1>12. a.signature = SigV4Signature(AccessSecret, a.credential, request.date, HeaderCanonical(request, a.signedHeaders))
  BY <1>2, <1>4, <1>7
<1>13. VerifyHeader(request, now)
  BY <1>2, <1>8, <1>9, <1>10, <1>11, <1>12 DEF VerifyHeader, HeaderCanonical
<1> QED
  BY <1>4, <1>5, <1>6, <1>13 DEF IsPresigned

LEMMA QueryIsServed ==
  ASSUME AccessInv, issued # Nil, issued.kind = "s3", S3IsGood, issued.expires # 0, request = issued.request
  PROVE  IsPresigned(request) /\ VerifyPresigned(request, now)
<1>1. PICK s \in Unsigned :
        /\ issued.date = s.request.date
        /\ issued.signedHeaders = s.signedHeaders /\ issued.expires = s.expires /\ issued.credential = s.credential
        /\ issued.request = Presigned(s.request, s.credential, s.signedHeaders, s.expires, AccessSecret)
  BY S3Context DEF S3IsGood
<1> DEFINE H == s.signedHeaders
           q == QuerySigned(s)
<1>2. \A f \in Fields \ {"qSignature"} : request[f] = q[f]
  BY <1>1, PresignedFields
<1>3. request.qSignature = {QuerySignature(s, AccessSecret)}
  BY <1>1, PresignedFields
<1>4. /\ request.qAlgorithm = {"AWS4-HMAC-SHA256"} /\ request.qCredential = {s.credential}
      /\ request.qDate = {s.request.date} /\ request.qExpires = {s.expires} /\ request.qSignedHeaders = {H}
  <2>1. /\ request.qAlgorithm = q.qAlgorithm /\ request.qCredential = q.qCredential
        /\ request.qDate = q.qDate /\ request.qExpires = q.qExpires /\ request.qSignedHeaders = q.qSignedHeaders
    BY <1>2 DEF Fields
  <2> QED
    BY <2>1, QueryFields
<1> HIDE DEF q
<1>5. QueryCanonical(request, H) = QueryCanonical(q, H)
  BY <1>2, QueryCanonicalKept
<1>6. /\ s.request.date \in Int /\ s.expires \in Nat /\ s.expires # 0
      /\ now \in Nat /\ MaxPresignExpires \in Nat
  BY <1>1, UnsignedAssumption, SigV4Assumption DEF UnsignedAssumption, SigV4Assumption, AccessInv
<1>7. /\ s.credential.key = AccessKey /\ s.credential.region = S3Region /\ s.credential.date = Day(s.request.date)
      /\ "host" \in H /\ PresignedPayloadHash(request, H) # NoValue
      /\ \A h \in H : HeaderValue(request, h) # NoValue
      /\ s.expires <= MaxPresignExpires /\ now - s.request.date <= s.expires
  BY <1>1 DEF S3IsGood
<1>8. InPresignedTime(s.request.date, s.expires, now)
  BY <1>6, <1>7 DEF InPresignedTime
<1>9. ValidScope(s.credential, s.request.date) /\ ValidSignedHeaders(request, H)
  BY <1>7 DEF ValidScope, ValidSignedHeaders
<1>10. QuerySignature(s, AccessSecret)
         = SigV4Signature(AccessSecret, s.credential, s.request.date, QueryCanonical(request, H))
  BY <1>5 DEF QuerySignature, q
<1>11. /\ Single(request.qCredential) /\ Single(request.qDate) /\ Single(request.qExpires)
       /\ Single(request.qSignedHeaders) /\ Single(request.qSignature)
       /\ Only(request.qCredential) = s.credential /\ Only(request.qDate) = s.request.date
       /\ Only(request.qExpires) = s.expires /\ Only(request.qSignedHeaders) = H
       /\ Only(request.qSignature) = QuerySignature(s, AccessSecret)
  <2>1. Single(request.qCredential) /\ Only(request.qCredential) = s.credential
    <3>1. request.qCredential = {s.credential}
      BY <1>4
    <3> QED
      BY <3>1, OneValue
  <2>2. Single(request.qDate) /\ Only(request.qDate) = s.request.date
    <3>1. request.qDate = {s.request.date}
      BY <1>4
    <3> QED
      BY <3>1, OneValue
  <2>3. Single(request.qExpires) /\ Only(request.qExpires) = s.expires
    <3>1. request.qExpires = {s.expires}
      BY <1>4
    <3> QED
      BY <3>1, OneValue
  <2>4. Single(request.qSignedHeaders) /\ Only(request.qSignedHeaders) = H
    <3>1. request.qSignedHeaders = {H}
      BY <1>4
    <3> QED
      BY <3>1, OneValue
  <2>5. Single(request.qSignature) /\ Only(request.qSignature) = QuerySignature(s, AccessSecret)
    <3>1. request.qSignature = {QuerySignature(s, AccessSecret)}
      BY <1>3
    <3> QED
      BY <3>1, OneValue
  <2> QED
    BY <2>1, <2>2, <2>3, <2>4, <2>5
<1>12. \A p \in {"qCredential", "qDate", "qExpires", "qSignedHeaders", "qSignature"} : Single(request[p])
  BY <1>11
<1> HIDE DEF H
<1>13. VerifyPresigned(request, now)
  BY <1>4, <1>7, <1>8, <1>9, <1>10, <1>11, <1>12 DEF VerifyPresigned, QueryCanonical
<1> QED
  BY <1>4, <1>13 DEF IsPresigned

LEMMA S3IsServed ==
  ASSUME AccessInv, Unchanged, issued.kind = "s3", S3IsGood
  PROVE  verdict = 0
<1>1. issued # Nil /\ request = issued.request /\ verdict = Verdict(request)
  BY DEF AccessInv, RequestInv, Unchanged
<1>2. VerifySigV4(request, now) /\ IsSigV4Request(request)
  <2>1. CASE issued.expires = 0
    BY <1>1, <2>1, HeaderIsServed DEF VerifySigV4, IsSigV4Request
  <2>2. CASE issued.expires # 0
    BY <1>1, <2>2, QueryIsServed DEF VerifySigV4, IsSigV4Request, VerifyPresigned
  <2> QED
    BY <2>1, <2>2
<1>3. edge.s3api
  BY DEF S3IsGood
<1> QED
  BY <1>1, <1>2, <1>3 DEF Verdict

(* A text that starts with one without slashes, and goes on after a slash. *)
LEMMA CutOfJoined ==
  ASSUME NEW a \in Text, NEW b \in Text, \A i \in DOMAIN a : a[i] # "/"
  PROVE  Before(a \o <<"/">> \o b) = a /\ After(a \o <<"/">> \o b) = b
<1> DEFINE t == a \o <<"/">> \o b
<1>1. t \in Text
  BY JoinOfTexts
<1>2. /\ Len(t) = Len(a) + 1 + Len(b) /\ t[Len(a) + 1] = "/"
      /\ \A i \in 1..Len(a) : t[i] = a[i]
      /\ \A i \in 1..Len(b) : t[Len(a) + 1 + i] = b[i]
  BY DEF Text
<1>3. Len(a) \in Nat /\ Len(b) \in Nat /\ DOMAIN a = 1..Len(a)
  BY DEF Text
<1> HIDE DEF t
<1>4. Len(a) + 1 \in Slashes(t)
  <2>1. DOMAIN t = 1..Len(t) /\ Len(a) + 1 \in 1..Len(t)
    BY <1>1, <1>2, <1>3 DEF Text
  <2> QED
    BY <1>2, <2>1 DEF Slashes
<1>5. HasCut(t)
  BY <1>4 DEF HasCut
<1>6. FirstCut(t) = Len(a) + 1
  <2>1. /\ FirstCut(t) \in 1..Len(t) /\ t[FirstCut(t)] = "/"
        /\ \A j \in 1..Len(t) : t[j] = "/" => FirstCut(t) <= j
    BY <1>1, <1>5, FirstSlash
  <2>2. FirstCut(t) <= Len(a) + 1
    BY <1>2, <1>3, <2>1
  <2>3. ~(FirstCut(t) \in 1..Len(a))
    BY <1>2, <1>3, <2>1
  <2> QED
    BY <1>2, <1>3, <2>1, <2>2, <2>3
<1>7. Before(t) = SubSeq(t, 1, Len(a)) /\ After(t) = SubSeq(t, Len(a) + 2, Len(a) + 1 + Len(b))
  BY <1>2, <1>3, <1>5, <1>6 DEF Before, After
<1>8. SubSeq(t, 1, Len(a)) = a
  <2>1. SubSeq(t, 1, Len(a)) \in Seq(Word) /\ Len(SubSeq(t, 1, Len(a))) = Len(a)
    BY <1>1, <1>2, <1>3, SubSeqProperties DEF Text
  <2>2. \A i \in 1..Len(a) : SubSeq(t, 1, Len(a))[i] = a[i]
    BY <1>1, <1>2, <1>3, SubSeqProperties DEF Text
  <2> QED
    BY <2>1, <2>2, SeqEqual DEF Text
<1>9. SubSeq(t, Len(a) + 2, Len(a) + 1 + Len(b)) = b
  <2> DEFINE u == SubSeq(t, Len(a) + 2, Len(a) + 1 + Len(b))
  <2>1. u \in Seq(Word) /\ Len(u) = Len(b)
    BY <1>1, <1>2, <1>3, SubSeqProperties DEF Text
  <2>2. \A i \in 1..Len(b) : u[i] = b[i]
    BY <1>1, <1>2, <1>3, SubSeqProperties DEF Text
  <2> HIDE DEF u
  <2>3. u = b
    BY <2>1, <2>2, SeqEqual DEF Text
  <2> QED
    BY <2>3 DEF u
<1> QED
  BY <1>7, <1>8, <1>9 DEF t

(* Names, and keys with nothing to escape, stand in a path as they are.    *)
Plain(t) == t \in Text /\ \A i \in DOMAIN t : t[i] \notin Marks \ {"/", "ctl"}

LEMMA PlainStays ==
  ASSUME NEW t, Plain(t)
  PROVE  Escape(t) = t /\ Unescape(t) = t
<1>1. t = [i \in DOMAIN t |-> t[i]]
  BY DEF Plain, Text
<1>2. ASSUME NEW i \in DOMAIN t PROVE Escaped(t[i]) = t[i] /\ Decoded(t[i]) = t[i]
  <2>1. t[i] \notin {" ", "%20", "%2F", "%2520"}
    BY DEF Plain, Marks
  <2> QED
    BY <2>1, EscapedWord, DecodedWord
<1>3. [i \in DOMAIN t |-> Escaped(t[i])] = [i \in DOMAIN t |-> t[i]]
  BY <1>2
<1>4. [i \in DOMAIN t |-> Decoded(t[i])] = [i \in DOMAIN t |-> t[i]]
  BY <1>2
<1> QED
  BY <1>1, <1>3, <1>4 DEF Escape, Unescape

LEMMA PlainJoin ==
  ASSUME NEW a, NEW b, Plain(a), Plain(b)
  PROVE  Plain(a \o <<"/">> \o b)
<1> DEFINE t == a \o <<"/">> \o b
<1>1. t \in Text /\ a \in Text /\ b \in Text
  BY JoinOfTexts DEF Plain
<1>2. /\ Len(t) = Len(a) + 1 + Len(b) /\ t[Len(a) + 1] = "/"
      /\ \A i \in 1..Len(a) : t[i] = a[i]
      /\ \A i \in 1..Len(b) : t[Len(a) + 1 + i] = b[i]
  BY <1>1 DEF Text
<1> HIDE DEF t
<1>3. ASSUME NEW i \in 1..Len(t) PROVE t[i] \notin Marks \ {"/", "ctl"}
  <2>1. Len(a) \in Nat /\ Len(b) \in Nat /\ DOMAIN a = 1..Len(a) /\ DOMAIN b = 1..Len(b)
    BY <1>1 DEF Text
  <2>2. CASE i \in 1..Len(a)
    BY <1>2, <2>1, <2>2 DEF Plain
  <2>3. CASE i = Len(a) + 1
    BY <1>2, <2>3
  <2>4. CASE i > Len(a) + 1
    <3>1. i - Len(a) - 1 \in 1..Len(b) /\ i = Len(a) + 1 + (i - Len(a) - 1)
      BY <1>2, <2>1, <2>4
    <3>2. t[i] = b[i - Len(a) - 1]
      BY <1>2, <3>1
    <3> QED
      BY <2>1, <3>1, <3>2 DEF Plain
  <2> QED
    BY <2>1, <2>2, <2>3, <2>4
<1>4. DOMAIN t = 1..Len(t)
  BY <1>1 DEF Text
<1> QED
  BY <1>1, <1>3, <1>4 DEF Plain, t

LEMMA NameIsPlain ==
  ASSUME NEW t \in Buckets \cup Aliases
  PROVE  Plain(t) /\ t # Empty /\ \A i \in DOMAIN t : t[i] # "/"
<1>1. t \in Text /\ t # Empty /\ \A i \in DOMAIN t : t[i] \notin Marks
  BY NamesAssumption DEF NamesAssumption
<1>2. "/" \in Marks
  BY DEF Marks
<1> QED
  BY <1>1, <1>2 DEF Plain

LEMMA KeyIsPlain ==
  ASSUME NEW c \in Claims, Escape(c.key) = c.key
  PROVE  Plain(c.key)
<1>1. c.key \in Text /\ \A i \in DOMAIN c.key : c.key[i] \notin {"%2F", "%2520"}
  BY ClaimsAssumption DEF ClaimsAssumption
<1>2. ASSUME NEW i \in DOMAIN c.key PROVE c.key[i] \notin {" ", "%20"}
  <2>1. Escaped(c.key[i]) = c.key[i]
    BY DEF Escape
  <2> QED
    BY <2>1, EscapedWord
<1> QED
  BY <1>1, <1>2 DEF Plain, Marks

(* The edge finds the object of a plain path where the signer put it.      *)
LEMMA PlaceOfPlain ==
  ASSUME NEW e, NEW c \in Claims, NEW short \in BOOLEAN, NEW path, path = ObjectPath(c, short),
         Plain(c.key), c.bucket \in Buckets, c.server # Empty => c.server \in Aliases,
         e.multi = (c.server # Empty),
         IF short THEN DefaultBucketForServer(e, c.server) = c.bucket ELSE DefaultBucketForServer(e, c.server) = Nil
  PROVE  /\ PublicPlace(e, path).server = c.server /\ PublicPlace(e, path).bucket = c.bucket
         /\ PublicPlace(e, path).key = c.key
<1>1. c.bucket # Nil /\ Plain(c.bucket) /\ c.bucket \in Text /\ c.key \in Text /\ \A i \in DOMAIN c.bucket : c.bucket[i] # "/"
  BY NameIsPlain, AbsentAssumption DEF AbsentAssumption, Plain
<1>2. Unescape(c.key) = c.key /\ Unescape(c.bucket) = c.bucket
  BY <1>1, PlainStays
<1> DEFINE full == c.bucket \o <<"/">> \o c.key
<1>3. full \in Text /\ Before(full) = c.bucket /\ After(full) = c.key
  BY <1>1, JoinOfTexts, CutOfJoined
<1>4. CASE c.server = Empty
  <2>1. ~e.multi /\ DefaultBucketForServer(e, c.server) = e.default
    BY <1>4 DEF DefaultBucketForServer
  <2>2. CASE short
    <3>1. path = c.key /\ e.default = c.bucket
      BY <1>4, <2>1, <2>2 DEF ObjectPath
    <3>2. PublicPlace(e, path) = [server |-> Empty, bucket |-> e.default, key |-> Unescape(path)]
      BY <1>1, <2>1, <3>1 DEF PublicPlace
    <3> QED
      BY <1>2, <1>4, <3>1, <3>2
  <2>3. CASE ~short
    <3>1. path = full /\ e.default = Nil
      BY <1>4, <2>1, <2>3 DEF ObjectPath
    <3>2. PublicPlace(e, path) = [server |-> Empty, bucket |-> Unescape(Before(path)), key |-> Unescape(After(path))]
      BY <2>1, <3>1 DEF PublicPlace, Place
    <3> HIDE DEF full
    <3> QED
      BY <1>2, <1>3, <1>4, <3>1, <3>2
  <2> QED
    BY <2>2, <2>3
<1>5. CASE c.server # Empty
  <2>1. e.multi /\ c.server \in Text /\ Plain(c.server) /\ \A i \in DOMAIN c.server : c.server[i] # "/"
    BY <1>5, NameIsPlain DEF Plain
  <2>2. Unescape(c.server) = c.server
    BY <2>1, PlainStays
  <2> DEFINE under == IF short THEN c.key ELSE full
  <2>3. under \in Text /\ path = c.server \o <<"/">> \o under
    BY <1>1, <1>3, <1>5 DEF ObjectPath
  <2> HIDE DEF under
  <2>4. Before(path) = c.server /\ After(path) = under
    BY <2>1, <2>3, CutOfJoined
  <2>5. PublicPlace(e, path) = Place(e, path)
    BY <2>1 DEF PublicPlace
  <2>6. CASE short
    <3>1. Place(e, path) = [server |-> c.server, bucket |-> c.bucket, key |-> Unescape(under)]
      BY <1>1, <2>1, <2>2, <2>4, <2>6 DEF Place
    <3>2. under = c.key
      BY <2>6 DEF under
    <3> HIDE DEF full
    <3>3. PublicPlace(e, path) = [server |-> c.server, bucket |-> c.bucket, key |-> c.key]
      BY <1>2, <2>5, <3>1, <3>2
    <3> QED
      BY <3>3
  <2>7. CASE ~short
    <3> HIDE DEF full
    <3>1. Place(e, path) = [server |-> c.server, bucket |-> Unescape(Before(full)), key |-> Unescape(After(full))]
      BY <2>1, <2>2, <2>4, <2>7 DEF Place, under
    <3> QED
      BY <1>2, <1>3, <2>5, <3>1
  <2> QED
    BY <2>6, <2>7
<1> QED
  BY <1>4, <1>5

LEMMA PlainSignedPath ==
  ASSUME NEW signer, NEW c \in Claims, NEW short \in BOOLEAN,
         Plain(c.key), c.bucket \in Buckets, c.server # Empty => c.server \in Aliases
  PROVE  SignedPath(signer, c, short) = ObjectPath(c, short)
<1>1. Plain(c.bucket \o <<"/">> \o c.key)
  BY NameIsPlain, PlainJoin
<1>2. Plain(ObjectPath(c, short))
  <2>1. CASE c.server = Empty
    BY <1>1, <2>1 DEF ObjectPath
  <2>2. CASE c.server # Empty
    <3>1. Plain(c.server)
      BY <2>2, NameIsPlain
    <3>2. Plain(c.server \o <<"/">> \o c.key) /\ Plain(c.server \o <<"/">> \o (c.bucket \o <<"/">> \o c.key))
      BY <1>1, <3>1, PlainJoin
    <3> QED
      BY <2>2, <3>2 DEF ObjectPath
  <2> QED
    BY <2>1, <2>2
<1>3. Escape(ObjectPath(c, short)) = ObjectPath(c, short)
  BY <1>2, PlainStays
<1> QED
  BY <1>3 DEF SignedPath

LEMMA UrlIsServed ==
  ASSUME AccessInv, Unchanged, issued.kind = "url", UrlIsGood, Escape(issued.claims.key) = issued.claims.key
  PROVE  verdict = 0
<1>1. issued # Nil /\ request = issued.request /\ verdict = PublicStatus(edge, request, now)
  BY DEF AccessInv, RequestInv, Unchanged, Verdict
<1>2. PICK signer \in {"signurl", "edgesign"}, c \in Claims, short \in BOOLEAN, secret \in {edge.secret, "other"} :
        ValidClaims(c.server # Empty, c) /\ issued = SignedUrl(signer, c, short, secret)
  <2>1. ASSUME NEW s, NEW secret, issued = SignedS3(s, secret) PROVE FALSE
    BY <2>1 DEF SignedS3
  <2> QED
    BY <1>1, <2>1 DEF AccessInv, IssuedInv
<1>3. /\ issued.claims = c /\ issued.short = short /\ issued.secret = secret
      /\ request = SignURL(signer, c, short, secret)
  BY <1>1, <1>2 DEF SignedUrl
<1>4. secret = edge.secret
  BY <1>3 DEF UrlIsGood
<1>5. /\ request.path = SignedPath(signer, c, short) /\ request.expires = c.expires /\ request.range = c.range
      /\ request.type = c.type /\ request.disposition = c.disposition
      /\ request.sig = Signature(c, edge.secret) /\ request.method = c.method /\ request.header = Empty
  BY <1>3, <1>4 DEF SignURL
<1>6. Plain(c.key) /\ c.bucket \in Buckets /\ (c.server # Empty => c.server \in Aliases) /\ ValidKey(c.key)
  BY <1>2, <1>3, KeyIsPlain DEF ValidClaims, ValidBucket
<1>7. request.path = ObjectPath(c, short)
  BY <1>5, <1>6, PlainSignedPath
<1>8. /\ edge.multi = (c.server # Empty)
      /\ IF short THEN DefaultBucketForServer(edge, c.server) = c.bucket
         ELSE DefaultBucketForServer(edge, c.server) = Nil
  BY <1>3 DEF UrlIsGood, LayoutFits
<1> DEFINE at == PublicPlace(edge, request.path)
           d == ClaimsFromURL(edge, request)
<1>9. at.server = c.server /\ at.bucket = c.bucket /\ at.key = c.key
  BY <1>6, <1>7, <1>8, PlaceOfPlain
<1>10. /\ d.method = c.method /\ d.server = c.server /\ d.bucket = c.bucket /\ d.key = c.key
       /\ d.range = c.range /\ d.type = c.type /\ d.disposition = c.disposition /\ d.expires = c.expires
       /\ [d EXCEPT !.method = "GET"].method = "GET" /\ [d EXCEPT !.method = "GET"].server = c.server
       /\ [d EXCEPT !.method = "GET"].bucket = c.bucket /\ [d EXCEPT !.method = "GET"].key = c.key
  <2> HIDE DEF at
  <2>1. d = [method |-> c.method, server |-> at.server, bucket |-> at.bucket, key |-> at.key, range |-> c.range,
             type |-> c.type, disposition |-> c.disposition, expires |-> c.expires]
    BY <1>5 DEF ClaimsFromURL, at
  <2> HIDE DEF d
  <2> QED
    BY <1>9, <2>1
<1> HIDE DEF at, d
<1>11. CanonicalString(d) = CanonicalString(c)
  BY <1>10 DEF CanonicalString
<1>12. c.expires \in Int /\ now \in Nat /\ now < c.expires
  <2>1. c.expires \in Expiries
    BY DEF Expiries
  <2> QED
    BY <1>3, <2>1, ClaimsAssumption DEF ClaimsAssumption, UrlIsGood, AccessInv
<1>13. ValidClaims(edge.multi, d) /\ ValidClaims(edge.multi, [d EXCEPT !.method = "GET"])
  <2>1. c.method \in {"GET", "HEAD"}
    BY <1>2 DEF ValidClaims
  <2> QED
    BY <1>6, <1>8, <1>10, <2>1 DEF ValidClaims, ValidBucket
<1>14. ValidateURL(edge, request, now)
  <2>1. request.sig # Nil /\ request.expires # Nil
    <3>1. Signature(c, edge.secret) # Nil
      BY SignedAssumption DEF SignedAssumption, AccessInv
    <3> QED
      BY <1>5, <1>12, <3>1, AbsentAssumption DEF AbsentAssumption
  <2>2. request.sig = Signature(d, edge.secret)
    BY <1>5, <1>11 DEF Signature
  <2>3. ExpiresAfter(d.expires, now)
    BY <1>10, <1>12 DEF ExpiresAfter
  <2> QED
    BY <1>13, <2>1, <2>2, <2>3 DEF ValidateURL, d
<1>15. EffectiveRange(edge, request) \in {Empty} \cup ByteRanges
  <2>1. c.range \in {Empty} \cup ByteRanges
    BY <1>3 DEF UrlIsGood
  <2> QED
    BY <1>5, <2>1 DEF EffectiveRange
<1>16. ValidatePublicRequest(edge, request, now) = 0
  BY <1>5, <1>13, <1>14, <1>15 DEF ValidatePublicRequest, d
<1>17. request.method \in {"GET", "HEAD"}
  BY <1>2, <1>5 DEF ValidClaims
<1> QED
  BY <1>1, <1>16, <1>17 DEF PublicStatus

(* What is signed with the edge's secrets for its own layout is served     *)
(* when it arrives unchanged and in time: SignURL and ValidateURL, and an  *)
(* S3 client and the verifier, make one canonical form of it.              *)
THEOREM SignedAreServed == Spec => []SignedIsServed
<1>1. AccessInv => SignedIsServed
  BY UrlIsServed, S3IsServed DEF SignedIsServed
<1> QED
  BY <1>1, AccessInvariant, PTL
=============================================================================
