------------------------------- MODULE Config -------------------------------
(***************************************************************************)
(* internal/config and the checks of internal/kclient, as operators: a     *)
(* configuration is a function from the keys seen so far to the winning    *)
(* value and where it came from (kv and src of the Config struct; order is *)
(* kept by the code for printing only).                                    *)
(*                                                                         *)
(* A value is its literal text and the environment references ${NAME}      *)
(* still in it.                                                            *)
(***************************************************************************)
CONSTANTS
    Lower,     \* word with a capital in it -> the word in lower case
    SaslWords  \* the words that start with SASL, in whatever case

Text(t) == [text |-> t, refs |-> {}]
Ref(name) == [text |-> "", refs |-> {name}]
Blank == Text("")

\* The two ways a line or an override is refused, and a well-formed one.
Pair(k, v) == [form |-> "pair", key |-> k, val |-> v]
Malformed == [form: {"noEquals", "emptyKey"}]
Ignored == [form: {"blank", "comment"}]

\* The keys under "app.", which never reach the client library.
AppKeys == {"app.topic", "app.mode", "app.max.messages", "app.message.count", "app.fail.rate",
            "app.output.transactional.id", "app.num.partitions"}

New == [k \in {} |-> [val |-> Blank, src |-> <<>>]]

Has(c, k) == k \in DOMAIN c
Get(c, k) == IF Has(c, k) THEN c[k].val ELSE Blank

\* Bug variants: the first line wins; a replaced value keeps its old source.
setOnce(c, k, v, s) ==
    [x \in DOMAIN c \union {k} |->
        IF x \in DOMAIN c THEN c[x] ELSE [val |-> v, src |-> s]]
setValueOnly(c, k, v, s) ==
    [x \in DOMAIN c \union {k} |->
        IF x = k THEN [val |-> v, src |-> IF Has(c, k) THEN c[k].src ELSE s] ELSE c[x]]

set(c, k, v, s) ==
    [x \in DOMAIN c \union {k} |->
        IF x = k THEN [val |-> v, src |-> s] ELSE c[x]]

\* References to variables that are set and not empty are replaced, the others stay.
expandEnv(v, exported) ==
    IF v.refs \intersect exported = {} THEN v
    ELSE [text |-> "exported", refs |-> v.refs \ exported]

\* Bug variant: the value is taken as it stands.
LayerRaw(c, line, s, exported) == set(c, line.key, line.val, s)

\* What a well-formed line or override does to the configuration.
Layer(c, line, s, exported) == set(c, line.key, expandEnv(line.val, exported), s)

Unresolved(c) == {k \in DOMAIN c : c[k].val.refs # {}}

Resolve(c) == Unresolved(c) = {}

Kafka(c) == {k \in DOMAIN c : k \notin AppKeys}

App(c, k, default) ==
    IF Get(c, k) # Blank THEN Get(c, k) ELSE Text(default)

\* The typed getters fail on a value that is there and cannot be parsed.
AppParses(c, k, unparsable) == App(c, k, "").text \notin unparsable

\* What the client library is given: an empty value is left at its default.
ConfigMap(c) ==
    [k \in {x \in Kafka(c) : Get(c, x) # Blank} |-> Get(c, k).text]

\* What a topic is created with: the same keys, empty values included.
topicEntries(c) == [k \in Kafka(c) |-> Get(c, k).text]

\* strings.ToLower.
ToLower(word) == IF word \in DOMAIN Lower THEN Lower[word] ELSE word

\* strings.ToUpper(security.protocol) starts with SASL.
Sasl(c) == Get(c, "security.protocol").text \in SaslWords

\* Bug variant: a key that is there will do, even with nothing in it.
HasCredentials(c) ==
    Sasl(c) => {"sasl.username", "sasl.password", "bootstrap.servers"} \subseteq DOMAIN c

RequireCloudCredentials(c) ==
    Sasl(c) => \A k \in {"sasl.username", "sasl.password", "bootstrap.servers"} :
                  Get(c, k) # Blank
=============================================================================
