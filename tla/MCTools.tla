------------------------------- MODULE MCTools -------------------------------
(***************************************************************************)
(* Startup and TopicAdmin side by side, for model checking: a behaviour is *)
(* one of either, chosen at the start.  They share no state, so that the   *)
(* states are those of the two added up.                                   *)
(***************************************************************************)
EXTENDS Startup, TopicAdmin

VARIABLE part  \* which of the two this behaviour is one of

-----------------------------------------------------------------------------
(* The files of config/, down to the keys a check or the library's commit  *)
(* machinery looks at, and what a user may put over them.                  *)

ShippedFiles ==
    [f \in {"cluster.properties", "consumer.properties", "producer.properties",
            "topic.properties"} |->
     CASE f = "cluster.properties" ->
            << [form |-> "comment"],
               Pair("bootstrap.servers", Ref("KAFKA_BOOTSTRAP_SERVERS")),
               Pair("security.protocol", Text("SASL_SSL")),
               Pair("sasl.username", Ref("KAFKA_API_KEY")),
               Pair("sasl.password", Ref("KAFKA_API_SECRET")) >>
       [] f = "consumer.properties" ->
            << Pair("enable.auto.commit", Text("true")),
               Pair("enable.auto.offset.store", Text("false")),
               Pair("app.mode", Text("manual")),
               Pair("app.output.transactional.id", Text("orders-eos-1")) >>
       [] f = "producer.properties" -> << Pair("app.mode", Text("async")) >>
       [] f = "topic.properties" ->
            << Pair("app.num.partitions", Text("6")),
               Pair("min.insync.replicas", Text("2")) >>]

\* config/local.properties, and some mistakes.
Local == << Pair("bootstrap.servers", Text("localhost")),
            Pair("security.protocol", Text("PLAINTEXT")),
            Pair("sasl.username", Blank),
            Pair("sasl.password", Blank) >>
SomeOverlays == { <<>>, Local, << [form |-> "noEquals"] >>, << [form |-> "emptyKey"] >>,
                  << Pair("security.protocol", Text("Sasl_Plaintext")) >>,
                  << [form |-> "blank"], Pair("sasl.password", Blank) >> }

SomeOverrides ==
    { [form |-> "noEquals"],
      Pair("sasl.password", Ref("KAFKA_API_SECRET")), Pair("sasl.password", Text("secret")),
      Pair("security.protocol", Text("PLAINTEXT")), Pair("security.protocol", Blank),
      Pair("min.insync.replicas", Ref("REPLICAS")),
      Pair("app.num.partitions", Text("many")), Pair("app.max.messages", Text("many")),
      Pair("app.message.count", Text("many")), Pair("transactional.id", Text("tx")),
      Pair("app.fail.rate", Text("0.5")), Pair("app.fail.rate", Text("many")),
      Pair("app.output.transactional.id", Blank) }
    \union {Pair("app.mode", Text(m)) :
              m \in {"AutoCommit", "atmostonce", "EOS", "Transactional", "unheardOf", ""}}
    \union {Pair("enable.auto.commit", Text(v)) : v \in {"false", "FALSE", "0", "no", ""}}
    \union {Pair("enable.auto.offset.store", Text(v)) : v \in {"true", "0", ""}}

SomeEnvironments == { {}, {"KAFKA_BOOTSTRAP_SERVERS"},
                      {"KAFKA_BOOTSTRAP_SERVERS", "KAFKA_API_KEY", "KAFKA_API_SECRET"} }

\* The words above that strings.ToLower and strings.ToUpper change or find.
LowerCase == [AutoCommit |-> "autocommit", EOS |-> "eos", Transactional |-> "transactional"]
SaslProtocols == {"SASL_SSL", "Sasl_Plaintext"}

-----------------------------------------------------------------------------

\* At most one file more than those of config/, or fewer.  One initial state of Startup
\* is enough for the behaviours of TopicAdmin.
Init ==
    /\ part \in {"startup", "admin"}
    /\ StartupInit
    /\ AdminInit
    /\ Len(unread[1] \o unread[2]) <= 3
    /\ part = "admin" =>
          program = "topicadmin" /\ exported = {} /\ overlay = <<>> /\ unread = << <<>>, <<>> >>

Next ==
    \/ part = "startup" /\ StartupNext /\ UNCHANGED <<part, admin>>
    \/ part = "admin" /\ AdminNext /\ UNCHANGED <<part, startup>>

Spec == Init /\ [][Next]_<<part, startup, admin>> /\ AdminFairness

TypeOK == StartupTypeOK /\ AdminTypeOK
=============================================================================
