--------------------------- MODULE MCPublicAccess ---------------------------
(* Small instances of PublicAccess for TLC: URLs for a key with and one    *)
(* without something to escape, for one server or several, with a default  *)
(* bucket or without; S3 requests that read and write, signed in a header  *)
(* or in the query, in time or not, for this edge or another.              *)
EXTENDS PublicAccess, TLC

MCBuckets == {<<"demo">>, <<"logs">>}
MCAliases == {<<"blue">>, <<"demo">>}
MCEnvSuffix == [a \in MCAliases |-> a]
MCByteRanges == {<<"r1">>, <<"r2">>}
MCDigits(time) == <<ToString(time)>>

None == [s \in {} |-> Empty]
OneServer == [s3api |-> TRUE, multi |-> FALSE, default |-> Nil, defaults |-> None, signing |-> TRUE, secret |-> "ours"]
MCEdges ==
  {OneServer, [OneServer EXCEPT !.default = <<"demo">>, !.s3api = FALSE], [OneServer EXCEPT !.signing = FALSE],
   [OneServer EXCEPT !.multi = TRUE, !.s3api = FALSE, !.defaults = (<<"blue">> :> <<"demo">>)]}

MCClaims ==
  [method : {"GET", "HEAD"}, server : {Empty} \cup MCAliases, bucket : {<<"demo">>},
   key : {<<"k">>, <<"k", " ", "j">>}, range : {Empty, <<"r1">>}, type : {<<"t">>, <<"t", "ctl", "r1">>}, disposition : {Empty},
   expires : {2}]

Plain ==
  [method |-> "GET", path |-> <<"demo", "/", "k">>, args |-> {}, host |-> "h", date |-> 1, sha |-> NoValue,
   authorization |-> NoValue, qAlgorithm |-> {}, qCredential |-> {}, qDate |-> {}, qExpires |-> {},
   qSignedHeaders |-> {}, qSignature |-> {}, qSha |-> {}]

Credential == [key |-> "ours", region |-> "here", date |-> 0]

Signing(method, sha, date, credential, headers, expires) ==
  [request |-> [Plain EXCEPT !.method = method, !.sha = sha, !.date = date],
   credential |-> credential, signedHeaders |-> headers, expires |-> expires]

MCUnsigned ==
  {Signing(m, sha, date, Credential, headers, expires) :
     m \in {"GET", "PUT"}, sha \in {NoValue, "unsigned", "signed"}, date \in 1..2,
     headers \in {{"host"}, {"host", "x-amz-content-sha256"}}, expires \in {0, 2}}
  \cup
  {Signing("GET", NoValue, date, credential, headers, expires) :
     date \in 0..2, headers \in {{"host"}, {"x-amz-date"}}, expires \in {0, 1, 4},
     credential \in {Credential, [Credential EXCEPT !.date = 1], [Credential EXCEPT !.key = "other"],
                     [Credential EXCEPT !.region = "there"]}}

MCChanges ==
  [url |->
    [method |-> {"HEAD", "PUT"}, sig |-> {Nil, <<>>}, expires |-> {3, Nil},
     path |-> {<<"k">>, <<"logs", "/", "k">>, <<"demo", "/", "k">>, <<"demo", "/", "k", "%20", "j">>,
               <<"demo", "/", "demo", "/", "k">>},
     range |-> {Empty, <<"r1">>, <<"r1", "ctl", "t">>}, type |-> {Empty, <<"r1">>, <<"t">>, <<"t", "ctl">>},
     disposition |-> {<<"t">>, <<"r1", "ctl">>}, header |-> {<<"r1">>, <<"r2">>}],
   s3 |->
    [method |-> {"PUT"}, path |-> {<<"logs", "/", "k">>}, args |-> {{<<"acl", "">>}}, host |-> {"g", NoValue},
     sha |-> {"signed", NoValue}, date |-> {0, 2, NoValue}, qSha |-> {{"unsigned"}, {"signed"}},
     qExpires |-> {{2}, {1, 2}}, qDate |-> {{2}}, qAlgorithm |-> {{}, {"AWS4-HMAC-SHA256"}},
     authorization |-> {NoValue}]]
=============================================================================
