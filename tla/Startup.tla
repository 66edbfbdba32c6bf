------------------------------- MODULE Startup -------------------------------
(***************************************************************************)
(* How the three programs get from their files, -set overrides and         *)
(* environment to a client, or refuse to (run in each main.go).            *)
(*                                                                         *)
(* The files are those of config/, with an overlay of the user's in either *)
(* of the two lists a program takes.  topicadmin keeps two configurations  *)
(* apart: the -cluster list makes the client, the -topic-config list and   *)
(* the overrides describe the topic.                                       *)
(***************************************************************************)
EXTENDS Config, Naturals, Sequences, SequencesExt

CONSTANTS
    Shipped,      \* name of a file of config/ -> its lines
    Overlays,     \* what the user's overlay may hold: sets of line sequences
    Overrides,    \* what may be given with -set
    MaxOverrides, \* how many of them are given at most
    Environments  \* the sets of variables that may be exported

Programs == {"consumer", "producer", "topicadmin"}
Own == [consumer |-> "consumer.properties", producer |-> "producer.properties",
        topicadmin |-> "topic.properties"]

ASSUME FilesAssumption ==
    /\ "cluster.properties" \in DOMAIN Shipped
    /\ \A p \in Programs : Own[p] \in DOMAIN Shipped
    /\ "overlay" \notin DOMAIN Shipped
    /\ MaxOverrides \in Nat

\* Keys and values are what LoadFile's Cut leaves of a line with a "=".
WellFormed(l) ==
    l.form = "pair" =>
        l = Pair(l.key, l.val) /\ l.val = [text |-> l.val.text, refs |-> l.val.refs]

ASSUME LinesAssumption ==
    /\ \A f \in DOMAIN Shipped : \A i \in 1..Len(Shipped[f]) : WellFormed(Shipped[f][i])
    /\ \A o \in Overlays : \A i \in 1..Len(o) : WellFormed(o[i])
    /\ \A o \in Overrides : WellFormed(o)

VARIABLES
    program,
    exported,  \* variables that are set and not empty
    overlay,   \* lines of the user's overlay file
    unread,    \* the lists still to be read, each a sequence of files
    line,      \* lines of the first file already read
    given,     \* number of overrides applied
    cfg,       \* the configuration of the client
    topicCfg,  \* topicadmin's configuration of the topic
    read,      \* history: [topic, key, val, src] of every pair, in order
    phase,     \* files, overrides, resolved, credentials, settings, client, ...
    client     \* the kafka.ConfigMap the client was created with

startup == <<program, exported, overlay, unread, line, given, cfg, topicCfg, read,
             phase, client>>
inputs == <<program, exported, overlay>>

Refusals == {"noFile", "malformed", "unresolved", "noCredentials", "badSetting",
             "clientRefused", "helpersRefused", "unknownMode", "unknownCommand"}
Phases == {"files", "overrides", "resolved", "credentials", "settings", "client",
           "started"} \union Refusals

\* A list may be empty, and name a file of the user's with the one of config/ or alone.
FileLists(file) ==
    {base \o more : base \in {<<>>, <<file>>}, more \in {<<>>, <<"overlay">>, <<"missing">>}}

StartupInit ==
    /\ program \in Programs
    /\ exported \in Environments
    /\ overlay \in Overlays
    /\ \E clusterList \in FileLists("cluster.properties"), ownList \in FileLists(Own[program]) :
          /\ "overlay" \notin ToSet(clusterList \o ownList) => overlay = <<>>
          /\ unread = <<clusterList, ownList>>
    /\ line = 0
    /\ given = 0
    /\ cfg = New
    /\ topicCfg = New
    /\ read = <<>>
    /\ phase = "files"
    /\ client = <<>>

-----------------------------------------------------------------------------
(* Reading *)

Exists(file) == file = "overlay" \/ file \in DOMAIN Shipped
Lines(file) == IF file = "overlay" THEN overlay ELSE Shipped[file]

Refuse(why) ==
    /\ phase' = why
    /\ UNCHANGED <<inputs, unread, line, given, cfg, topicCfg, read, client>>

\* The list and the file read now.
List == Head(unread)
File == Head(List)

\* LoadList of a list without a file.  The -config list of the consumer and the
\* producer is not read by it: nothing is missing when it is empty.
NoFileGiven ==
    /\ phase = "files"
    /\ List = <<>> /\ (program = "topicadmin" \/ Len(unread) = 2)
    /\ Refuse("noFile")

NoConfigList ==
    /\ phase = "files"
    /\ List = <<>> /\ program # "topicadmin" /\ Len(unread) = 1
    /\ unread' = <<>>
    /\ phase' = "overrides"
    /\ UNCHANGED <<inputs, line, given, cfg, topicCfg, read, client>>

OpenFails ==
    /\ phase = "files"
    /\ List # <<>> /\ ~Exists(File)
    /\ Refuse("noFile")

\* topicadmin's -cluster list is read; its -topic-config list and -set come after.
IntoTopic == program = "topicadmin" /\ Len(unread) < 2

\* A well-formed line or override wins over everything before it.
Take(l, file, n) ==
    LET src == <<file, n>>
    IN /\ cfg' = IF IntoTopic THEN cfg ELSE Layer(cfg, l, src, exported)
       /\ topicCfg' = IF IntoTopic THEN Layer(topicCfg, l, src, exported) ELSE topicCfg
       /\ read' = Append(read, [topic |-> IntoTopic, key |-> l.key, src |-> src,
                                val |-> expandEnv(l.val, exported)])

\* The file is open, its next line, and whether there is one.
Reading == phase = "files" /\ List # <<>> /\ Exists(File)
NextLine == Lines(File)[line + 1]
LineLeft == Reading /\ line < Len(Lines(File))

LoadPair ==
    /\ LineLeft
    /\ NextLine.form = "pair"
    /\ Take(NextLine, File, line + 1)
    /\ line' = line + 1
    /\ UNCHANGED <<inputs, unread, given, phase, client>>

LoadIgnored ==
    /\ LineLeft
    /\ NextLine \in Ignored
    /\ line' = line + 1
    /\ UNCHANGED <<inputs, unread, given, cfg, topicCfg, read, phase, client>>

LoadMalformed ==
    /\ LineLeft
    /\ NextLine \in Malformed
    /\ Refuse("malformed")

EndOfFile ==
    /\ Reading
    /\ line = Len(Lines(File))
    /\ unread' = IF Len(List) > 1 THEN <<Tail(List)>> \o Tail(unread) ELSE Tail(unread)
    /\ line' = 0
    /\ phase' = IF unread' = <<>> THEN "overrides" ELSE "files"
    /\ UNCHANGED <<inputs, given, cfg, topicCfg, read, client>>

ApplyPair ==
    /\ phase = "overrides"
    /\ given < MaxOverrides
    /\ \E o \in Overrides :
          /\ o.form = "pair"
          /\ Take(o, "-set", 0)
    /\ given' = given + 1
    /\ UNCHANGED <<inputs, unread, line, phase, client>>

ApplyMalformed ==
    /\ phase = "overrides"
    /\ given < MaxOverrides
    /\ \E o \in Overrides : o \in Malformed
    /\ Refuse("malformed")

-----------------------------------------------------------------------------
(* Checking *)

Proceed(next) ==
    /\ phase' = next
    /\ UNCHANGED <<inputs, unread, line, given, cfg, topicCfg, read, client>>

ResolveAll ==
    /\ phase = "overrides"
    /\ IF Resolve(cfg) /\ Resolve(topicCfg) THEN Proceed("resolved")
       ELSE Refuse("unresolved")

CheckCredentials ==
    /\ phase = "resolved"
    /\ IF RequireCloudCredentials(cfg) THEN Proceed("credentials")
       ELSE Refuse("noCredentials")

Unparsable == {"many"}
Modes == [consumer |-> {"manual", "autocommit", "atmostonce", "eos"},
          producer |-> {"async", "sync", "fireforget", "transactional"}]
Mode == ToLower(App(cfg, "app.mode", IF program = "consumer" THEN "manual" ELSE "async").text)

\* Bug variant: only an explicit "true" contradicts manual mode.
validateLeniently ==
    LET autoCommit == Get(cfg, "enable.auto.commit").text
        autoStore == Get(cfg, "enable.auto.offset.store").text
    IN /\ Mode \in Modes["consumer"]
       /\ Mode = "manual" => autoStore # "true"
       /\ Mode \in {"atmostonce", "eos"} => autoCommit = "false"

\* The comparisons are with the literal words, as in the code.
validateModeAgainstConfig ==
    LET autoCommit == Get(cfg, "enable.auto.commit").text
        autoStore == Get(cfg, "enable.auto.offset.store").text
    IN /\ Mode \in Modes["consumer"]
       /\ Mode = "manual" => autoStore = "false"
       /\ Mode = "autocommit" => autoCommit # "false" /\ autoStore # "false"
       /\ Mode \in {"atmostonce", "eos"} => autoCommit = "false"
       /\ Mode = "eos" => App(cfg, "app.output.transactional.id", "") # Blank

ConsumerSettings ==
    /\ AppParses(cfg, "app.max.messages", Unparsable)
    /\ AppParses(cfg, "app.fail.rate", Unparsable)
    /\ validateModeAgainstConfig

ProducerSettings ==
    /\ AppParses(cfg, "app.message.count", Unparsable)
    /\ Mode = "transactional" => Get(cfg, "transactional.id") # Blank

CheckSettings ==
    /\ phase = "credentials"
    /\ IF \/ program = "consumer" /\ ~ConsumerSettings
          \/ program = "producer" /\ ~ProducerSettings
       THEN Refuse("badSetting")
       ELSE Proceed("settings")

\* librdkafka takes "false" and "f", in whatever case, and "0" for false, and their
\* opposites for true.
FalseWords == {"false", "FALSE", "f", "F", "0"}
TrueWords == {"true", "TRUE", "t", "T", "1"}
Switches == {"enable.auto.commit", "enable.auto.offset.store"}
LibraryAccepts(map) ==
    \A k \in DOMAIN map \intersect Switches : map[k] \in FalseWords \union TrueWords

\* kafka.NewConsumer, NewProducer or NewAdminClient.
NewClient ==
    /\ phase = "settings"
    /\ LibraryAccepts(ConfigMap(cfg))
    /\ client' = ConfigMap(cfg)
    /\ phase' = "client"
    /\ UNCHANGED <<inputs, unread, line, given, cfg, topicCfg, read>>

ClientRefused ==
    /\ phase = "settings"
    /\ ~LibraryAccepts(ConfigMap(cfg))
    /\ Refuse("clientRefused")

Begin ==
    /\ phase = "client"
    /\ program = "producer" => Mode \in Modes["producer"]
    /\ Proceed("started")

\* The consumer's further producers: to the dead-letter topic if work may fail, and the
\* transactional one.
HelpersRefused ==
    /\ phase = "client" /\ program = "consumer"
    /\ Mode = "eos" \/ App(cfg, "app.fail.rate", "0").text # "0"
    /\ Refuse("helpersRefused")

\* The producer looks at an unknown mode only now.
ModeUnknown ==
    /\ phase = "client" /\ program = "producer"
    /\ Mode \notin Modes["producer"]
    /\ Refuse("unknownMode")

\* topicadmin's -cmd is unknown, or create does not understand its partition count.
CommandRefused ==
    /\ phase = "client" /\ program = "topicadmin"
    /\ \/ Refuse("unknownCommand")
       \/ ~AppParses(topicCfg, "app.num.partitions", Unparsable) /\ Refuse("badSetting")

StartupNext ==
    \/ NoFileGiven \/ NoConfigList \/ OpenFails
    \/ LoadPair \/ LoadIgnored \/ LoadMalformed \/ EndOfFile
    \/ ApplyPair \/ ApplyMalformed
    \/ ResolveAll \/ CheckCredentials \/ CheckSettings
    \/ NewClient \/ ClientRefused
    \/ Begin \/ HelpersRefused \/ ModeUnknown \/ CommandRefused

StartupSpec == StartupInit /\ [][StartupNext]_startup

-----------------------------------------------------------------------------
(* Properties *)

StartupTypeOK ==
    /\ program \in Programs
    /\ phase \in Phases
    /\ line \in Nat /\ given \in 0..MaxOverrides
    /\ \A c \in {cfg, topicCfg} : \A k \in DOMAIN c : c[k].val.refs \intersect exported = {}

\* The last pair read for a key, in the one or the other configuration.
Winner(topic, k) ==
    SelectLastInSeq(read, LAMBDA r : r.topic = topic /\ r.key = k)

\* Config.set and Config.Source: whatever the order of files, overlays and
\* overrides, the value of a key is the one of the last line that names it, and the
\* source that Dump prints is that line; no key of the one configuration leaks into
\* the other.
LastLineWins ==
    \A topic \in BOOLEAN :
        LET c == IF topic THEN topicCfg ELSE cfg
        IN /\ DOMAIN c = {r.key : r \in {x \in ToSet(read) : x.topic = topic}}
           /\ \A k \in DOMAIN c :
                 LET w == read[Winner(topic, k)]
                 IN c[k] = [val |-> w.val, src |-> w.src]

\* expandEnv and Resolve: a variable that is not exported stops a program only if
\* the line that needs it was not replaced by a later one; an overlay that blanks
\* the credentials makes the offline path usable.
OverlaysRescue ==
    phase = "unresolved" =>
        \E i \in DOMAIN read :
            /\ read[i].val.refs # {}
            /\ \A j \in DOMAIN read :
                  j > i => <<read[j].topic, read[j].key>> # <<read[i].topic, read[i].key>>

\* Resolve, RequireCloudCredentials and ConfigMap: once a client exists it was given
\* no reference in place of a value, and over SASL both credentials and a bootstrap
\* server, however the layers were put together.
ClientIsComplete ==
    phase \in {"client", "started"} =>
        /\ \A k \in DOMAIN client : client[k] # "" /\ cfg[k].val.refs = {}
        /\ ("security.protocol" \in DOMAIN client
              /\ client["security.protocol"] \in SaslWords) =>
              {"sasl.username", "sasl.password", "bootstrap.servers"} \subseteq DOMAIN client

\* What a switch of the client is: its default, true, when ConfigMap left it out.
On(k) == k \in DOMAIN client => client[k] \in TrueWords

\* validateModeAgainstConfig: a consumer that starts has the commit machinery its
\* mode needs, in the library's own reading of the values: nothing stored at
\* delivery in manual mode, no background committer in atmostonce and eos, both of
\* them in autocommit.  Autocommit's check looks for the word "false" alone: another
\* word for it, as in enable.auto.commit=0, passes and turns the machinery off.
ModeIsHonoured ==
    (program = "consumer" /\ phase \in {"client", "started"}) =>
        /\ Mode \in Modes["consumer"]
        /\ Mode = "manual" => ~On("enable.auto.offset.store")
        /\ Mode \in {"atmostonce", "eos"} => ~On("enable.auto.commit")
        /\ Mode = "autocommit" =>
              \A k \in Switches : On(k) \/ client[k] \in FalseWords \ {"false"}
=============================================================================
