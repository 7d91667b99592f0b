---------------------------- MODULE MCTicketPath ----------------------------
(* Requests and environments for TLC.  The paths have one to five words:   *)
(* with and without a bucket, a key, an escaped slash, space or percent    *)
(* sign, an empty or a dot segment, a control character.                   *)
EXTENDS TicketPath, TLC

MCBuckets == {<<"demo">>, <<"logs">>, <<"blue">>, <<"green">>}
MCConfigBuckets == MCBuckets \cup {<<"127.0.0.1">>}
MCFiles == {<<"ca">>, <<"cert">>, <<"key">>}
MCAliases == {<<"demo">>, <<"logs">>, <<"blue">>, <<"green">>, <<"Blue">>, <<"BLUE">>, <<"GREEN">>}
Upper == [blue |-> "BLUE", Blue |-> "BLUE", green |-> "GREEN", demo |-> "DEMO", logs |-> "LOGS"]
MCEnvSuffix == [a \in MCAliases |-> IF a[1] \in DOMAIN Upper THEN <<Upper[a[1]]>> ELSE a]

Paths ==
  {Empty, <<"demo">>, <<"demo", "/">>, <<"demo", "/", "k">>, <<"demo", "%2F", "k">>,
   <<"demo", "/", "k", "%2F", "j">>, <<"demo", "/", "%20", "%2520">>,
   <<"demo", "/", "k", "/", "/", "j">>, <<"demo", "/", "..">>, <<"demo", "/", "ctl">>, <<"blue">>, <<"blue", "/", "k">>, <<"blue", "/", "demo", "/", "k">>,
   <<"Blue", "/", "demo", "/", "k">>, <<"green", "/", "demo", "/", "k">>, <<"green", "/", "logs", "/", "k", "/", "j">>,
   <<"/", "demo", "/", "k">>}
ObjectPaths == {<<"demo", "/", "k">>, <<"blue", "/", "demo", "/", "k">>, <<"green", "/", "demo", "/", "k">>}

Plain ==
  [api |-> TRUE, auth |-> TRUE, method |-> "GET", path |-> <<"demo", "/", "k">>,
   uploads |-> FALSE, uploadID |-> Nil, part |-> Nil, flags |-> {}, list |-> Nil,
   range |-> Nil, queryRange |-> Nil, signature |-> Nil,
   hash |-> "unsigned", length |-> 0, decoded |-> Nil, markers |-> FALSE, contentType |-> Empty,
   sent |-> 0, parts |-> Nil]

With(r, f) == f @@ r
Sends(n) == [length |-> n, sent |-> n]

Id == <<"u1">>
Part(n) == [number |-> n, etag |-> <<"e">>]

(* Every operation, on every path.                                         *)
Asked ==
  {With(Plain, f) : f \in
     {[method |-> m] : m \in {"GET", "HEAD", "PUT", "POST", "DELETE", "PATCH"}}
     \cup {[method |-> "POST", uploads |-> TRUE, uploadID |-> i] : i \in {Nil, Id}}
     \cup {[method |-> "POST", uploadID |-> i, length |-> 2, sent |-> 2, parts |-> <<Part(2), Part(1)>>] : i \in {Empty, Id}}
     \cup {[method |-> "PUT", uploadID |-> i, part |-> n, length |-> 1, sent |-> 1] : i \in {Nil, Id}, n \in {0, 1, 3}}
     \cup {[method |-> "DELETE", uploadID |-> i] : i \in {Empty, Id}}}

Everywhere == {With(r, [path |-> p]) : r \in Asked, p \in Paths}

(* Uploads of every kind, whole, short, long or badly declared.            *)
Bodies ==
  {[method |-> "PUT", hash |-> h, length |-> n, sent |-> s] :
      h \in {"unsigned", "streaming"}, n \in 1..2, s \in 0..1}
  \cup {[method |-> "PUT", hash |-> "trailer", length |-> -1, decoded |-> d, sent |-> s] : d \in {Nil, 0, 1, 2}, s \in 0..2}
  \cup {[method |-> "PUT", hash |-> "signed", length |-> -1], [method |-> "PUT", hash |-> "signed", markers |-> TRUE],
        [method |-> "DELETE", hash |-> "signed"], [method |-> "DELETE", length |-> 1, sent |-> 1],
        [method |-> "PUT", contentType |-> <<"ctl">>], [method |-> "PUT", contentType |-> <<"t">>],
        [method |-> "POST", uploads |-> TRUE, contentType |-> <<"ctl">>],
        [method |-> "POST", uploads |-> TRUE, contentType |-> <<"t">>],
        [method |-> "PUT", uploadID |-> Id, part |-> 2, hash |-> "trailer", decoded |-> 1, sent |-> 2],
        [method |-> "PUT", flags |-> {"acl"}], [method |-> "DELETE", flags |-> {"versionId"}],
        [method |-> "PUT", uploadID |-> Id], [method |-> "PUT", uploads |-> TRUE]}
  \cup {[method |-> "POST", uploadID |-> Id, length |-> n, sent |-> s, parts |-> p] :
          n \in 2..3, s \in 1..2, p \in {Nil, Empty, <<Part(1)>>, <<Part(1), Part(1)>>, <<Part(3)>>,
                                         <<[number |-> 1, etag |-> Empty]>>}}
  \cup {[method |-> "POST", uploadID |-> Id, hash |-> "trailer", length |-> -1, decoded |-> 1, sent |-> s, parts |-> <<Part(1)>>] :
          s \in 0..2}
Uploading == {With(With(Plain, b), [path |-> p]) : b \in Bodies, p \in ObjectPaths}

Ranges == {[from |-> 1, to |-> Nil], [from |-> 1, to |-> 0], [from |-> Nil, to |-> Nil]}
Ranged == {With(Plain, [method |-> m, path |-> p, range |-> r]) :
             m \in {"GET", "HEAD", "DELETE"}, p \in ObjectPaths, r \in Ranges}

Unsigned == {With(Plain, [auth |-> FALSE, path |-> p]) : p \in ObjectPaths}

Lists == [prefix : {Empty, <<"demo">>, <<"demo", "/">>, <<"demo", "/", "p">>, <<"/", "p">>},
          delimiter : {Empty, <<"/">>}, startAfter : {Empty, <<"demo", "/", "k">>}, maxKeys : {1, 3}]
Listing == {With(Plain, [list |-> l, path |-> p]) :
              l \in Lists, p \in {<<"demo">>, <<"blue">>, <<"green">>, <<"demo", "/", "k">>}}

(* The public path, with URLs signed for what is asked or for another      *)
(* object, method or range.                                                *)
ClaimedObjects == {[server |-> s, bucket |-> <<"demo">>, key |-> <<"k">>] : s \in {Empty, <<"blue">>, <<"green">>}}
Claims == {Nil} \cup [method : {"GET", "HEAD"}, object : ClaimedObjects, range : {Nil, [from |-> 1, to |-> Nil]}]
Public ==
  {With(Plain, [api |-> FALSE, path |-> p, method |-> m, signature |-> c]) :
     p \in Paths, m \in {"GET", "PUT"}, c \in {Nil, [method |-> "GET", object |-> [server |-> Empty, bucket |-> <<"demo">>, key |-> <<"k">>], range |-> Nil]}}
  \cup {With(Plain, [api |-> FALSE, path |-> p, method |-> "HEAD", signature |-> c, range |-> r, queryRange |-> q]) :
          p \in ObjectPaths \cup {<<"blue", "/", "k">>, <<"k">>}, c \in Claims,
          r \in {Nil} \cup Ranges, q \in {Nil, [from |-> 1, to |-> Nil]}}

AllRequests == Everywhere \cup Uploading \cup Ranged \cup Unsigned \cup Listing \cup Public

(* The environments.  One server, with a default bucket and signed URLs or *)
(* without; several servers, with a default bucket for blue or without,    *)
(* green's S3 called by the edge itself.                                   *)
None == [s \in {} |-> Empty]
MTLS == [CA_FILE |-> <<"ca">>, CERT_FILE |-> <<"cert">>, KEY_FILE |-> <<"key">>]
Keys == [AIR3_S3_ACCESS_KEY_ID |-> <<"id">>, AIR3_S3_SECRET_ACCESS_KEY |-> <<"secret">>]
Gateway ==
  [AIR3_S3_API_ENABLED |-> True, AIR3_S3_API_ACCESS_KEY_ID |-> <<"id">>, AIR3_S3_API_SECRET_ACCESS_KEY |-> <<"secret">>,
   AIR3_SIGNING_DISABLED |-> True, MUTATIONS_ENABLED |-> True, AIR3_ALLOWED_BUCKETS |-> << <<"demo">>, <<"logs">>, <<"demo">> >>]
GreenS3 == [ALLOWED_BUCKETS |-> << <<"demo">> >>, ENDPOINT |-> <<"e">>, REGION |-> <<"r">>,
            ACCESS_KEY_ID |-> <<"id">>, SECRET_ACCESS_KEY |-> <<"secret">>]
Main(s) == [main |-> s, servers |-> None]
Green(s, g) == [main |-> s, servers |-> (<<"GREEN">> :> g)]

Signs == [AIR3_SIGNING_DISABLED |-> False, AIR3_SIGNING_SECRET |-> <<"secret">>]
Routed == With(Gateway, [AIR3_MULTI_SERVER |-> True, AIR3_DIRECT_SERVERS |-> << <<"green">> >>])
Demo1 == [BUCKET |-> <<"demo">>]
EdgeEnvs ==
  {Main(Gateway),
   Main(With(With(Gateway, Signs), [AIR3_S3_BUCKET |-> <<"demo">>, MUTATIONS_ENABLED |-> False, AIR3_S3_API_ENABLED |-> Empty])),
   Green(Routed, GreenS3),
   Green(With(With(Routed, Signs), [MUTATIONS_ENABLED |-> Empty]), GreenS3),
   [main |-> Routed, servers |-> (<<"BLUE">> :> Demo1) @@ (<<"GREEN">> :> With(GreenS3, Demo1))]}

(* Connectors of the one server, of blue, one of green that listens for    *)
(* blue's tickets, one that may not mutate.                                *)
Connector == With(Keys, [AIR3_MUTATIONS_ENABLED |-> True, AIR3_S3_ALLOWED_BUCKETS |-> << <<"demo">>, <<"logs">> >>])
Blue == [AIR3_SERVER_NAME |-> <<"blue">>]
ConnectorEnvs ==
  {Main(s) : s \in
     {Connector,
      With(Connector, [AIR3_ALLOWED_BUCKETS |-> << <<"logs">>, <<"demo">> >>, AIR3_S3_ALLOWED_BUCKETS |-> << <<"logs">> >>]),
      With(Connector, Blue), With(With(Connector, Blue), [AIR3_MUTATIONS_ENABLED |-> False]),
      With(Connector, [AIR3_SERVER_NAME |-> <<"green">>, AIR3_NATS_SUBJECT |-> <<"air3", ".", "blue">>])}}

Apart == [edge : EdgeEnvs, connectors : {ConnectorEnvs}]

(* One environment for both, with a setting or two set to something else,  *)
(* good or bad, each of which a few requests are made of.                  *)
Whole == With(With(Gateway, Keys), [AIR3_EDGE_MTLS |-> MTLS, AIR3_CONNECTOR_MTLS |-> MTLS,
                                    AIR3_EDGE_INGEST_TCP_ADDR |-> <<"t">>, AIR3_INGEST_TCP_ADDR |-> <<"t">>,
                                    AIR3_EDGE_INGEST_QUIC_ADDR |-> <<"q">>, AIR3_INGEST_QUIC_ADDR |-> <<"q">>])
Lists2 == {Empty, << <<"demo">> >>, << <<"logs">> >>, << <<"demo">>, <<"127.0.0.1">> >>, << <<"ctl">> >>, << <<"demo">>, Empty >>}
Flags == {Empty, True, False, <<"maybe">>}
Settings ==
  {[AIR3_INGEST_TRANSPORT |-> <<w>>] : w \in {"http", "http1", "http2", "http3", "tcp", "smux", "quic", "udp"}}
  \cup [AIR3_INGEST_TRANSPORT : {<<"http3">>, <<"tcp">>}, AIR3_EDGE_MTLS : {None, MTLS, [CERT_FILE |-> <<"cert">>], [CA_FILE |-> <<"gone">>]}]
  \cup {[AIR3_INGEST_TRANSPORT |-> <<"smux">>, AIR3_INGEST_TCP_ADDR |-> Empty],
        [AIR3_INGEST_TRANSPORT |-> <<"quic">>, AIR3_EDGE_INGEST_QUIC_ADDR |-> Empty]}
  \cup [AIR3_ALLOWED_BUCKETS : Lists2, AIR3_S3_BUCKET : {Empty, <<"demo">>, <<"logs">>, <<"127.0.0.1">>}, AIR3_S3_ALLOWED_BUCKETS : Lists2]
  \cup [AIR3_S3_BUCKET : {<<"demo">>, <<"logs">>}]
  \cup [MUTATIONS_ENABLED : Flags, AIR3_MUTATIONS_ENABLED : Flags]
  \cup {[AIR3_PENDING_TTL |-> <<"soon">>], [AIR3_CONNECTOR_WORKERS |-> <<"many">>], [AIR3_NATS_USER |-> <<"u">>],
        [AIR3_NATS_CREDS_FILE |-> <<"gone">>], [AIR3_NATS_QUEUE |-> Empty], [AIR3_NATS_QUEUE |-> <<"q", " ">>],
        [AIR3_EDGE_ALLOWED_CONNECTOR_IDENTITIES |-> << <<"c">>, Empty >>], [AIR3_SIGNING_DISABLED |-> Empty]}
  \cup [AIR3_NATS_SUBJECT : {Empty, <<"s">>, <<"s", ".", "*">>, <<"s", ".", ".", "t">>}]

RoutedSettings ==
  [AIR3_SERVER_NAME : {Empty, <<"blue">>, <<"BLUE">>, <<"no alias">>},
   AIR3_NATS_SUBJECT_TEMPLATE : {<<"{server}">>, <<"t", ".", "{server}">>, <<"t">>, <<"t", "{region}", "{server}">>, <<"{server}", ".">>}]
  \cup {[DIRECT_SERVERS |-> l] : l \in {Empty, << <<"green">> >>, << <<"blue">> >>}}
  \cup {[AIR3_DIRECT_SERVERS |-> l] : l \in {Empty, << <<"blue">>, <<"Blue">> >>, << <<"green">>, <<"no alias">> >>}}

Servers ==
  {(<<"GREEN">> :> With(GreenS3, f)) : f \in
     {Demo1, [BUCKET |-> <<"logs">>], [BUCKET |-> Empty], [REGION |-> Empty], [ALLOWED_BUCKETS |-> Empty], [USE_PATH_STYLE |-> <<"maybe">>]}}
  \cup {(<<"GREEN">> :> GreenS3) @@ (k :> [BUCKET |-> b]) : k \in {<<"BLUE">>, <<"blue">>, <<"green">>, <<"no alias">>}, b \in {<<"demo">>, <<"logs">>}}
  \cup {(<<"GREEN">> :> GreenS3) @@ (<<"BLUE">> :> Demo1) @@ (<<"blue">> :> [BUCKET |-> b]) : b \in {<<"demo">>, <<"logs">>}}

OneFile ==
  {Main(With(Whole, f)) : f \in Settings}
  \cup {Green(With(With(Whole, Routed), f), GreenS3) : f \in RoutedSettings}
  \cup {[main |-> With(With(With(Whole, Routed), Blue), [AIR3_S3_BUCKET |-> <<"demo">>]), servers |-> s] : s \in Servers}

MCDeployments == Apart \cup {[edge |-> e, connectors |-> {e}] : e \in OneFile}

FewRequests ==
  {With(Plain, [path |-> p] @@ f) :
     p \in {<<"demo", "/", "k">>, <<"127.0.0.1", "/", "k">>, <<"blue", "/", "k">>, <<"blue", "/", "demo", "/", "k">>, <<"green", "/", "k">>},
     f \in {[method |-> "GET"], [method |-> "PUT", length |-> 1, sent |-> 1]}}

MCRequests(d) == IF d \in Apart THEN AllRequests ELSE FewRequests
=============================================================================
