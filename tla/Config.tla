------------------------------- MODULE Config -------------------------------
(* What edge and connector make of their environment, or why they do not   *)
(* start: internal/config/config.go, with what natsclient and the edge's   *)
(* run ask of the result before they serve.                                *)
(*                                                                         *)
(* An environment is a record.  main is a function from the settings that  *)
(* are set to their texts (Empty: set to nothing); a list is a sequence of *)
(* texts, and a group of mTLS settings is a function under their prefix.   *)
(* servers has the settings S3_{SUFFIX}_* as functions by SUFFIX.  A       *)
(* number or a duration is <<"in range">> or not; files are named by       *)
(* texts.  A loader returns Nil for an error.                              *)
EXTENDS S3Requests

Seqs == INSTANCE SequencesExt

CONSTANTS
  ConfigBuckets,  \* texts the settings take for bucket names
  Files           \* the files there are

True == <<"true">>
False == <<"false">>
InRange == <<"in range">>
Http == <<"http">>
Demo == <<"demo">>
-----------------------------------------------------------------------------
Has(s, name) == name \in DOMAIN s
Get(s, name, fallback) == IF Has(s, name) THEN s[name] ELSE fallback
Group(s, name) == Get(s, name, <<>>)

Tuned(s, name) == Get(s, name, Empty) \in {Empty, InRange}
File(s, name) == Get(s, name, Empty) \in Files \cup {Empty}

Flag(s, name, fallback) ==
  LET t == Get(s, name, Empty)
  IN CASE t = Empty -> fallback [] t \in {True, False} -> t = True [] OTHER -> Nil

(* One flag under two names, which may both be set if they agree.          *)
FlagAlias(s, names) ==
  LET given == {Flag(s, n, Nil) : n \in {m \in names : Get(s, m, Empty) # Empty}}
  IN CASE given = {} -> FALSE [] given \in {{TRUE}, {FALSE}} -> given = {TRUE} [] OTHER -> Nil

Entries(list) == {list[i] : i \in DOMAIN list}

(* The buckets a setting lists; no buckets at all stand for an error.      *)
BucketList(s, name, fallback) ==
  LET buckets == Entries(Get(s, name, fallback))
  IN IF buckets \subseteq ConfigBuckets THEN buckets ELSE {}

ValidOptionalBucket(s, name) == Has(s, name) => s[name] \in ConfigBuckets
-----------------------------------------------------------------------------
(* mTLS: certificate and key come together, and named files exist.         *)
ValidMTLS(p) ==
  /\ (Get(p, "CERT_FILE", Empty) = Empty) = (Get(p, "KEY_FILE", Empty) = Empty)
  /\ \A n \in {"CA_FILE", "CERT_FILE", "KEY_FILE"} : File(p, n)
  /\ Flag(p, "INSECURE_SKIP_VERIFY", FALSE) # Nil

(* NATS: literal subjects, and templates that render to them.              *)
Words(t) == {t[i] : i \in DOMAIN t}

ValidNATSSubject(t) ==
  /\ t # Empty
  /\ Words(t) \cap {" ", "ctl", "*", ">"} = {}
  /\ t[1] # "." /\ t[Len(t)] # "."
  /\ \A i \in 1..(Len(t) - 1) : ~(t[i] = "." /\ t[i + 1] = ".")

Hole == "{server}"

Render(template, server) ==
  Seqs!FlattenSeq([i \in DOMAIN template |-> IF template[i] = Hole THEN server ELSE <<template[i]>>])

ValidTemplate(t) ==
  /\ Hole \in Words(t)
  /\ Words(t) \cap {"{", "}", "{region}"} = {}
  /\ ValidNATSSubject(Render(t, <<"sample">>))

DeriveNATSSubject(template, server) ==
  IF server \in Aliases /\ ValidTemplate(template) THEN Render(template, server) ELSE Nil

Template(s) == Get(s, "AIR3_NATS_SUBJECT_TEMPLATE", <<"air3", ".", Hole>>)

(* An explicit subject wins over the one a connector derives from its name *)
(* (Empty: the edge, or a connector without a name).                       *)
NATSSubject(s, template, server) ==
  CASE Has(s, "AIR3_NATS_SUBJECT") -> s["AIR3_NATS_SUBJECT"]
    [] ~Has(s, "AIR3_NATS_SUBJECT") /\ server # Empty -> DeriveNATSSubject(template, server)
    [] OTHER -> <<"air3", ".", "tickets">>

LoadNATS(s, server, queue) ==
  LET nats == [template |-> Template(s), subject |-> NATSSubject(s, Template(s), server),
               queue |-> Get(s, "AIR3_NATS_QUEUE", queue)]
  IN IF /\ ValidTemplate(Template(s))
        /\ ValidNATSSubject(nats.subject)
        /\ Get(s, "AIR3_NATS_URL", <<"nats">>) # Empty
        /\ (Get(s, "AIR3_NATS_USER", Empty) = Empty) = (Get(s, "AIR3_NATS_PASSWORD", Empty) = Empty)
        /\ File(s, "AIR3_NATS_CREDS_FILE") /\ File(s, "AIR3_NATS_NKEY_FILE")
        /\ ValidMTLS(Group(s, "AIR3_NATS_TLS"))
     THEN nats ELSE Nil

(* What the client asks of its configuration when it connects, and of a    *)
(* connector's when it subscribes.                                         *)
Connects(nats) == Words(nats.queue) \cap {" ", "ctl"} = {}
Subscribes(nats) == nats.queue # Empty
-----------------------------------------------------------------------------
(* The servers whose S3 the edge calls itself.                             *)
DirectNames == {"AIR3_DIRECT_SERVERS", "DIRECT_SERVERS"}
DirectAliases(s) == UNION {Entries(Get(s, n, Empty)) : n \in DirectNames}

ValidDirectAliases(s) ==
  /\ \A m, n \in DirectNames : Has(s, m) /\ Has(s, n) => s[m] = s[n]
  /\ DirectAliases(s) \subseteq Aliases
  /\ \A a, b \in DirectAliases(s) : EnvSuffix[a] = EnvSuffix[b] => a = b

DirectS3(env, alias) == BucketList(Group(env.servers, EnvSuffix[alias]), "ALLOWED_BUCKETS", Empty)

ValidDirectS3(env, alias) ==
  LET s == Group(env.servers, EnvSuffix[alias])
  IN /\ DirectS3(env, alias) # {}
     /\ Flag(s, "USE_PATH_STYLE", TRUE) # Nil /\ Flag(s, "INSECURE_SKIP_VERIFY", FALSE) # Nil
     /\ ValidOptionalBucket(s, "BUCKET")
     /\ \A n \in {"ENDPOINT", "REGION", "ACCESS_KEY_ID", "SECRET_ACCESS_KEY"} : Get(s, n, Empty) # Empty
     /\ Has(s, "BUCKET") => s["BUCKET"] \in DirectS3(env, alias)

(* Default buckets of the servers come from whatever keys are set, in      *)
(* upper case or not; two keys of one server must agree.                   *)
DefaultKeys(env) == {k \in DOMAIN env.servers : Has(env.servers[k], "BUCKET")}

ValidServerDefaults(env) ==
  /\ \A k \in DefaultKeys(env) : k \in Aliases /\ ValidOptionalBucket(env.servers[k], "BUCKET")
  /\ \A j, k \in DefaultKeys(env) : EnvSuffix[j] = EnvSuffix[k] => env.servers[j]["BUCKET"] = env.servers[k]["BUCKET"]

ServerDefaults(env) ==
  [x \in {EnvSuffix[k] : k \in DefaultKeys(env)} |->
     env.servers[CHOOSE k \in DefaultKeys(env) : EnvSuffix[k] = x]["BUCKET"]]
-----------------------------------------------------------------------------
(* How a connector's answers travel to the edge.                           *)
Transport(s) == Get(s, "AIR3_INGEST_TRANSPORT", Http)
HttpFamily == {Http, <<"http1">>, <<"http2">>}
OverTCP == {<<"tcp">>, <<"smux">>}

ValidTransport(s, tcpAddr, quicAddr) ==
  /\ Transport(s) \in HttpFamily \cup OverTCP \cup {<<"quic">>, <<"http3">>}
  /\ Transport(s) \in OverTCP => Get(s, tcpAddr, Empty) # Empty
  /\ Transport(s) = <<"quic">> => Get(s, quicAddr, Empty) # Empty

(* The private listeners of the edge; its HTTP server speaks HTTP/3 or the *)
(* older versions.  TLS is a must for all but the older ones.              *)
Listens(edge) ==
  CASE edge.transport = <<"http3">> -> {<<"http3">>}
    [] edge.transport \in HttpFamily -> {Http}
    [] OTHER -> {Http, edge.transport}

Carrier(connector) == IF connector.transport \in HttpFamily THEN Http ELSE connector.transport

ServerTLS(s) ==
  LET p == Group(s, "AIR3_EDGE_MTLS")
  IN Transport(s) \notin HttpFamily \/ Get(p, "CA_FILE", Empty) # Empty => Get(p, "CERT_FILE", Empty) # Empty
-----------------------------------------------------------------------------
Allowed(s) == BucketList(s, "AIR3_ALLOWED_BUCKETS", <<Demo>>)
S3Allowed(s) == BucketList(s, "AIR3_S3_ALLOWED_BUCKETS", Get(s, "AIR3_ALLOWED_BUCKETS", <<Demo>>))
Mutations(s) == FlagAlias(s, {"MUTATIONS_ENABLED", "AIR3_MUTATIONS_ENABLED"})

ValidS3API(s) ==
  /\ Flag(s, "AIR3_S3_API_ENABLED", FALSE) # Nil
  /\ Flag(s, "AIR3_S3_API_ENABLED", FALSE) =>
       /\ Get(s, "AIR3_S3_API_REGION", <<"us">>) # Empty
       /\ Get(s, "AIR3_S3_API_ACCESS_KEY_ID", Empty) # Empty /\ Get(s, "AIR3_S3_API_SECRET_ACCESS_KEY", Empty) # Empty

ValidSigning(s) ==
  /\ Flag(s, "AIR3_SIGNING_DISABLED", FALSE) # Nil /\ Tuned(s, "AIR3_SIGNING_TTL")
  /\ ~Flag(s, "AIR3_SIGNING_DISABLED", FALSE) => Get(s, "AIR3_SIGNING_SECRET", Empty) # Empty

ValidTimeouts(s) == Tuned(s, "AIR3_PENDING_TTL") /\ Tuned(s, "AIR3_STREAM_TIMEOUT")

(* The connector's S3: the default bucket must be one S3 may be asked for. *)
SlipValidS3(s) == S3Allowed(s) # {} /\ ValidOptionalBucket(s, "AIR3_S3_BUCKET")

ValidS3(s) ==
  /\ S3Allowed(s) # {} /\ ValidOptionalBucket(s, "AIR3_S3_BUCKET")
  /\ Has(s, "AIR3_S3_BUCKET") => s["AIR3_S3_BUCKET"] \in S3Allowed(s)
  /\ Flag(s, "AIR3_S3_USE_PATH_STYLE", TRUE) # Nil /\ Flag(s, "AIR3_S3_INSECURE_SKIP_VERIFY", FALSE) # Nil
  /\ Get(s, "AIR3_S3_ENDPOINT", <<"s3">>) # Empty /\ Get(s, "AIR3_S3_REGION", <<"us">>) # Empty
  /\ Get(s, "AIR3_S3_ACCESS_KEY_ID", Empty) # Empty /\ Get(s, "AIR3_S3_SECRET_ACCESS_KEY", Empty) # Empty

LoadEdge(env) ==
  LET s == env.main
      nats == LoadNATS(s, Empty, Empty)
      default == Get(s, "AIR3_S3_BUCKET", Nil)
  IN IF /\ Tuned(s, "AIR3_STREAM_COPY_BUFFER_BYTES")
        /\ Flag(s, "AIR3_MULTI_SERVER", FALSE) # Nil /\ Mutations(s) # Nil
        /\ ValidTransport(s, "AIR3_EDGE_INGEST_TCP_ADDR", "AIR3_EDGE_INGEST_QUIC_ADDR")
        /\ Allowed(s) # {} /\ ValidOptionalBucket(s, "AIR3_S3_BUCKET")
        /\ default # Nil /\ Has(s, "AIR3_ALLOWED_BUCKETS") => default \in Allowed(s)
        /\ Empty \notin Entries(Get(s, "AIR3_EDGE_ALLOWED_CONNECTOR_IDENTITIES", Empty))
        /\ ValidDirectAliases(s) /\ \A a \in DirectAliases(s) : ValidDirectS3(env, a)
        /\ ValidServerDefaults(env)
        /\ nats # Nil /\ ValidS3API(s) /\ ValidSigning(s)
        /\ ValidMTLS(Group(s, "AIR3_EDGE_MTLS")) /\ ValidTimeouts(s)
        /\ \A n \in {"AIR3_EDGE_PUBLIC_ADDR", "AIR3_EDGE_INGEST_ADDR", "AIR3_INGEST_URL"} : Get(s, n, <<"addr">>) # Empty
     THEN [multi |-> Flag(s, "AIR3_MULTI_SERVER", FALSE), mutations |-> Mutations(s), allowed |-> Allowed(s),
           default |-> default, defaults |-> ServerDefaults(env),
           direct |-> [a \in DirectAliases(s) |-> DirectS3(env, a)],
           signing |-> ~Flag(s, "AIR3_SIGNING_DISABLED", FALSE), s3api |-> Flag(s, "AIR3_S3_API_ENABLED", FALSE),
           transport |-> Transport(s), nats |-> nats]
     ELSE Nil

LoadConnector(env) ==
  LET s == env.main
      server == Get(s, "AIR3_SERVER_NAME", Empty)
      nats == LoadNATS(s, server, <<"air3-connectors">>)
  IN IF /\ Mutations(s) # Nil /\ Flag(s, "AIR3_INGEST_DISABLE_HTTP2", TRUE) # Nil
        /\ ValidTransport(s, "AIR3_INGEST_TCP_ADDR", "AIR3_INGEST_QUIC_ADDR")
        /\ Tuned(s, "AIR3_INGEST_POOL_SIZE") /\ Tuned(s, "AIR3_CONNECTOR_WORKERS")
        /\ server \in Aliases \cup {Empty}
        /\ Allowed(s) # {} /\ nats # Nil /\ ValidS3(s)
        /\ ValidMTLS(Group(s, "AIR3_CONNECTOR_MTLS")) /\ ValidTimeouts(s)
        /\ Get(s, "AIR3_INGEST_URL", <<"addr">>) # Empty
     THEN [server |-> server, nats |-> nats, allowed |-> Allowed(s), s3allowed |-> S3Allowed(s),
           mutations |-> Mutations(s), transport |-> Transport(s)]
     ELSE Nil

(* The configurations edge and connector serve with; Nil: they exit.       *)
EdgeOf(env) ==
  LET edge == LoadEdge(env)
  IN IF edge # Nil /\ Connects(edge.nats) /\ ServerTLS(env.main) THEN edge ELSE Nil

ConnectorOf(env) ==
  LET connector == LoadConnector(env)
  IN IF connector # Nil /\ Connects(connector.nats) /\ Subscribes(connector.nats) THEN connector ELSE Nil
=============================================================================
