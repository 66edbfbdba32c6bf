---------------------------- MODULE StartupProofs ----------------------------
(***************************************************************************)
(* Theorems about Startup, for any files, overlays, overrides and          *)
(* environments, however many lines and overrides there are.               *)
(*                                                                         *)
(* LastLineWins names the winning line by its place in all that was read;  *)
(* the invariant that is proved (Won) says that there is such a line and   *)
(* that no later one is for the same key of the same configuration.        *)
(***************************************************************************)
EXTENDS Startup, TLAPS

(***************************************************************************)
(* Type correctness.                                                       *)
(***************************************************************************)
LEMMA LayerExpands ==
  ASSUME NEW c, \A k \in DOMAIN c : c[k].val.refs \intersect exported = {}, NEW l, NEW src
  PROVE  LET d == Layer(c, l, src, exported)
         IN \A k \in DOMAIN d : d[k].val.refs \intersect exported = {}
<1>1. expandEnv(l.val, exported).refs \intersect exported = {}
  BY DEF expandEnv
<1> QED
  BY <1>1 DEF Layer, set

LEMMA StartupTypeStep ==
  ASSUME StartupTypeOK, [StartupNext]_startup
  PROVE  StartupTypeOK'
<1> DEFINE Expanded == \A c \in {cfg, topicCfg} : \A k \in DOMAIN c :
                         c[k].val.refs \intersect exported = {}
<1>1. ASSUME NEW l, NEW file, NEW n, Take(l, file, n), UNCHANGED exported PROVE Expanded'
  BY <1>1, LayerExpands DEF Take, StartupTypeOK
<1>2. CASE LoadPair
  BY <1>1, <1>2 DEF LoadPair, inputs, StartupTypeOK
<1>3. CASE ApplyPair
  BY <1>1, <1>3, FilesAssumption DEF ApplyPair, inputs, StartupTypeOK
<1>4. CASE UNCHANGED startup
  BY <1>4 DEF startup, StartupTypeOK
<1>5. CASE UNCHANGED <<inputs, cfg, topicCfg>> /\ ~LoadPair /\ ~ApplyPair /\ StartupNext
  <2>1. program' \in Programs /\ Expanded'
    BY <1>5 DEF inputs, StartupTypeOK
  <2>2. phase' \in Phases /\ line' \in Nat /\ given' \in 0 .. MaxOverrides
    BY <1>5, FilesAssumption
    DEF StartupNext, NoFileGiven, NoConfigList, OpenFails, LoadIgnored, LoadMalformed,
        EndOfFile, ApplyMalformed, ResolveAll, CheckCredentials, CheckSettings, NewClient,
        ClientRefused, Begin, HelpersRefused, ModeUnknown, CommandRefused, Refuse, Proceed,
        Phases, Refusals, StartupTypeOK
  <2> QED
    BY <2>1, <2>2 DEF StartupTypeOK
<1> QED
  BY <1>2, <1>3, <1>4, <1>5 DEF StartupNext, NoFileGiven, NoConfigList, OpenFails,
     LoadIgnored, LoadMalformed, EndOfFile, ApplyMalformed, ResolveAll, CheckCredentials,
     CheckSettings, NewClient, ClientRefused, Begin, HelpersRefused, ModeUnknown,
     CommandRefused, Refuse, Proceed

\* No reference to a variable that is set survives in either configuration, whatever is
\* read over what (config.go:112, 130, 151-159).
THEOREM StartupTypeCorrect == StartupSpec => []StartupTypeOK
<1>1. StartupInit => StartupTypeOK
  BY FilesAssumption DEF StartupInit, StartupTypeOK, Phases, New
<1> QED
  BY <1>1, StartupTypeStep, PTL DEF StartupSpec

(***************************************************************************)
(* The last line wins.                                                     *)
(***************************************************************************)
Conf(topic) == IF topic THEN topicCfg ELSE cfg

Names(r, topic, k) == r.topic = topic /\ r.key = k

IsLast(i, topic, k) ==
  /\ i \in 1 .. Len(read)
  /\ Names(read[i], topic, k)
  /\ \A j \in 1 .. Len(read) : j > i => ~Names(read[j], topic, k)

IsRead == \E S : read \in Seq(S)

Won ==
  \A topic \in BOOLEAN :
    /\ \A i \in 1 .. Len(read) : read[i].topic = topic => read[i].key \in DOMAIN Conf(topic)
    /\ \A k \in DOMAIN Conf(topic) : \E i \in 1 .. Len(read) :
         IsLast(i, topic, k) /\ Conf(topic)[k] = [val |-> read[i].val, src |-> read[i].src]

LEMMA WinnerIsLast ==
  ASSUME IsRead, NEW topic, NEW k, NEW i, IsLast(i, topic, k)
  PROVE  Winner(topic, k) = i
<1> DEFINE I == {j \in 1 .. Len(read) : Names(read[j], topic, k)}
<1>1. Len(read) \in Nat
  BY DEF IsRead
<1>2. i \in I /\ \A j \in I : i >= j
  BY <1>1 DEF IsLast
<1>3. Winner(topic, k) = Max(I)
  BY <1>2 DEF Winner, SelectLastInSeq, Names
<1>4. \A x \in I : (\A j \in I : x >= j) => x = i
  BY <1>1, <1>2
<1> HIDE DEF I
<1> QED
  BY <1>2, <1>3, <1>4 DEF Max

LEMMA WonIsLastLine == IsRead /\ Won => LastLineWins
<1> SUFFICES ASSUME IsRead, Won, NEW topic \in BOOLEAN
             PROVE  /\ DOMAIN Conf(topic) = {r.key : r \in {x \in ToSet(read) : x.topic = topic}}
                    /\ \A k \in DOMAIN Conf(topic) :
                         Conf(topic)[k] = [val |-> read[Winner(topic, k)].val,
                                           src |-> read[Winner(topic, k)].src]
  BY DEF LastLineWins, Conf
<1>1. DOMAIN read = 1 .. Len(read)
  BY DEF IsRead
<1>2. DOMAIN Conf(topic) = {r.key : r \in {x \in ToSet(read) : x.topic = topic}}
  <2>1. ASSUME NEW k \in DOMAIN Conf(topic)
        PROVE  \E x \in ToSet(read) : x.topic = topic /\ x.key = k
    BY <1>1 DEF Won, IsLast, Names, ToSet
  <2>2. ASSUME NEW x \in ToSet(read), x.topic = topic PROVE x.key \in DOMAIN Conf(topic)
    BY <1>1, <2>2 DEF Won, ToSet
  <2> QED
    BY <2>1, <2>2
<1>3. ASSUME NEW k \in DOMAIN Conf(topic)
      PROVE  Conf(topic)[k] = [val |-> read[Winner(topic, k)].val,
                               src |-> read[Winner(topic, k)].src]
  <2>1. PICK i \in 1 .. Len(read) :
          IsLast(i, topic, k) /\ Conf(topic)[k] = [val |-> read[i].val, src |-> read[i].src]
    BY DEF Won
  <2> QED
    BY <2>1, WinnerIsLast
<1> QED
  BY <1>2, <1>3

LEMMA TakeWins ==
  ASSUME IsRead, Won, NEW l, NEW file, NEW n, Take(l, file, n)
  PROVE  IsRead' /\ Won'
<1> DEFINE v == expandEnv(l.val, exported)
           r == [topic |-> IntoTopic, key |-> l.key, src |-> <<file, n>>, val |-> v]
<1>1. read' = Append(read, r)
  BY DEF Take
<1>2. /\ IsRead' /\ Len(read) \in Nat /\ Len(read') = Len(read) + 1
      /\ \A i \in 1 .. Len(read) : read'[i] = read[i]
      /\ read'[Len(read')] = r
  <2>1. PICK S : read \in Seq(S)
    BY DEF IsRead
  <2>2. read \in Seq(S \union {r}) /\ r \in S \union {r}
    BY <2>1
  <2> HIDE DEF r
  <2>3. read' \in Seq(S \union {r})
    BY <1>1, <2>2
  <2> QED
    BY <1>1, <2>2, <2>3 DEF IsRead
<1>3. /\ r.topic = IntoTopic /\ r.key = l.key /\ r.val = v /\ r.src = <<file, n>>
      /\ IntoTopic \in BOOLEAN
  BY DEF IntoTopic
<1>4. ASSUME NEW topic \in BOOLEAN
      PROVE  Conf(topic)' = IF topic = IntoTopic
                            THEN set(Conf(topic), l.key, v, <<file, n>>) ELSE Conf(topic)
  BY <1>3 DEF Take, Layer, Conf
<1> HIDE DEF r, v
<1>5. ASSUME NEW topic \in BOOLEAN, NEW i \in 1 .. Len(read'), read'[i].topic = topic
      PROVE  read'[i].key \in DOMAIN Conf(topic)'
  <2>1. CASE i = Len(read')
    BY <1>2, <1>3, <1>4, <1>5, <2>1 DEF set
  <2>2. CASE i # Len(read')
    <3>1. i \in 1 .. Len(read) /\ read'[i] = read[i]
      BY <1>2, <1>5, <2>2
    <3>2. read[i].key \in DOMAIN Conf(topic)
      BY <1>5, <3>1 DEF Won
    <3> QED
      BY <1>4, <3>1, <3>2 DEF set
  <2> QED
    BY <2>1, <2>2
<1>6. ASSUME NEW topic \in BOOLEAN, NEW k \in DOMAIN Conf(topic)'
      PROVE  \E i \in 1 .. Len(read') :
               IsLast(i, topic, k)' /\ Conf(topic)'[k] = [val |-> read'[i].val, src |-> read'[i].src]
  <2>1. CASE topic = IntoTopic /\ k = l.key
    <3>1. Conf(topic)'[k] = [val |-> v, src |-> <<file, n>>]
      BY <1>4, <1>6, <2>1 DEF set
    <3>2. PICK e \in Nat : e = Len(read')
      BY <1>2
    <3>3. IsLast(e, topic, k)'
      BY <1>2, <1>3, <2>1, <3>2 DEF IsLast, Names
    <3>4. e \in 1 .. Len(read') /\ read'[e] = r
      BY <1>2, <3>2
    <3> QED
      BY <1>3, <3>1, <3>3, <3>4
  <2>2. CASE ~(topic = IntoTopic /\ k = l.key)
    <3>1. k \in DOMAIN Conf(topic) /\ Conf(topic)'[k] = Conf(topic)[k]
      BY <1>4, <1>6, <2>2 DEF set
    <3>2. PICK i \in 1 .. Len(read) :
            IsLast(i, topic, k) /\ Conf(topic)[k] = [val |-> read[i].val, src |-> read[i].src]
      BY <3>1 DEF Won
    <3>3. ~Names(r, topic, k)
      BY <1>3, <2>2 DEF Names
    <3>4. IsLast(i, topic, k)'
      BY <1>2, <3>2, <3>3 DEF IsLast, Names
    <3> QED
      BY <1>2, <3>1, <3>2, <3>4
  <2> QED
    BY <2>1, <2>2
<1> QED
  BY <1>2, <1>5, <1>6 DEF Won

\* What reads nothing changes no configuration.
LEMMA ReadsOrKeeps ==
  ASSUME StartupNext
  PROVE  \/ UNCHANGED <<read, cfg, topicCfg>>
         \/ \E l, file, n : Take(l, file, n)
<1>1. CASE LoadPair
  BY <1>1 DEF LoadPair
<1>2. CASE ApplyPair
  BY <1>2 DEF ApplyPair
<1> QED
  BY <1>1, <1>2 DEF StartupNext, NoFileGiven, NoConfigList, OpenFails, LoadIgnored,
     LoadMalformed, EndOfFile, ApplyMalformed, ResolveAll, CheckCredentials, CheckSettings,
     NewClient, ClientRefused, Begin, HelpersRefused, ModeUnknown, CommandRefused, Refuse,
     Proceed

LEMMA WonStep ==
  ASSUME IsRead, Won, [StartupNext]_startup
  PROVE  IsRead' /\ Won'
<1>1. CASE UNCHANGED <<read, cfg, topicCfg>>
  BY <1>1 DEF IsRead, Won, Conf, IsLast
<1> QED
  BY <1>1, ReadsOrKeeps, TakeWins DEF startup

LEMMA WonStart == StartupInit => IsRead /\ Won
<1> SUFFICES ASSUME StartupInit PROVE IsRead /\ Won
  OBVIOUS
<1>1. read \in Seq({}) /\ Len(read) = 0
  BY DEF StartupInit
<1>2. \A topic \in BOOLEAN : DOMAIN Conf(topic) = {}
  BY DEF StartupInit, Conf, New
<1> QED
  BY <1>1, <1>2 DEF IsRead, Won

\* Config.set and Config.Source: a key has the value and the source of the last line or
\* override that names it in its own configuration (config.go:53-149).
THEOREM LastLinesWin == StartupSpec => []LastLineWins
<1>1. IsRead /\ Won /\ [StartupNext]_startup => (IsRead /\ Won)'
  BY WonStep
<1> QED
  BY <1>1, WonStart, WonIsLastLine, PTL DEF StartupSpec

(***************************************************************************)
(* What stops a program for want of a variable.                            *)
(***************************************************************************)
\* A refusal for a variable stands, and was one.
Wanted == phase = "unresolved" => ~(Resolve(cfg) /\ Resolve(topicCfg))

LEMMA WantedStep ==
  ASSUME Wanted, [StartupNext]_startup
  PROVE  Wanted'
<1>1. CASE ResolveAll
  BY <1>1 DEF ResolveAll, Proceed, Refuse, Wanted
<1>2. CASE phase' # "unresolved" \/ UNCHANGED <<phase, cfg, topicCfg>>
  BY <1>2 DEF Wanted
<1> QED
  BY <1>1, <1>2 DEF StartupNext, NoFileGiven, NoConfigList, OpenFails, LoadPair, LoadIgnored,
     LoadMalformed, EndOfFile, ApplyPair, ApplyMalformed, CheckCredentials, CheckSettings,
     NewClient, ClientRefused, Begin, HelpersRefused, ModeUnknown, CommandRefused, Refuse,
     Proceed, Reading, LineLeft, startup

\* expandEnv and Resolve: a variable that is not set is an error only for a line that no
\* later one replaced, in either configuration (config.go:151-180).
THEOREM OverlaysDoRescue == StartupSpec => []OverlaysRescue
<1>1. IsRead /\ Won /\ Wanted /\ [StartupNext]_startup => (IsRead /\ Won /\ Wanted)'
  BY WonStep, WantedStep
<1>2. StartupInit => IsRead /\ Won /\ Wanted
  BY WonStart DEF StartupInit, Wanted
<1>3. IsRead /\ Won /\ Wanted => OverlaysRescue
  <2> SUFFICES ASSUME IsRead, Won, ~(Resolve(cfg) /\ Resolve(topicCfg))
               PROVE  \E i \in DOMAIN read :
                        /\ read[i].val.refs # {}
                        /\ \A j \in DOMAIN read :
                             j > i => <<read[j].topic, read[j].key>> # <<read[i].topic, read[i].key>>
    BY DEF Wanted, OverlaysRescue
  <2>1. PICK topic \in BOOLEAN : ~Resolve(Conf(topic))
    BY DEF Conf
  <2>2. PICK k \in DOMAIN Conf(topic) : Conf(topic)[k].val.refs # {}
    BY <2>1 DEF Resolve, Unresolved
  <2>3. PICK i \in 1 .. Len(read) :
          IsLast(i, topic, k) /\ Conf(topic)[k] = [val |-> read[i].val, src |-> read[i].src]
    BY DEF Won
  <2>4. DOMAIN read = 1 .. Len(read)
    BY DEF IsRead
  <2> QED
    BY <2>2, <2>3, <2>4 DEF IsLast, Names
<1> QED
  BY <1>1, <1>2, <1>3, PTL DEF StartupSpec

(***************************************************************************)
(* What a client was checked for.                                          *)
(***************************************************************************)
USE LinesAssumption

\* A value is a text and its references.
IsValue(v) == v = [text |-> v.text, refs |-> v.refs]
ValuesAreTexts == \A k \in DOMAIN cfg : IsValue(cfg[k].val)

After(phases) == phase \in phases \union {"started"}

\* The checks a phase comes after still hold: nothing is read any more.
Checked ==
  /\ After({"resolved", "credentials", "settings", "client"}) => Resolve(cfg)
  /\ After({"credentials", "settings", "client"}) => RequireCloudCredentials(cfg)
  /\ After({"settings", "client"}) /\ program = "consumer" => ConsumerSettings
  /\ After({"client"}) => client = ConfigMap(cfg) /\ LibraryAccepts(client)

\* What is read is a line of a file, the overlay, or an override.
LayersAreLines ==
  /\ overlay \in Overlays
  /\ line \in Nat

StartInv == LayersAreLines /\ ValuesAreTexts /\ Checked

LEMMA LayerValue ==
  ASSUME ValuesAreTexts, NEW l, l.form = "pair", WellFormed(l), NEW src,
         cfg' = cfg \/ cfg' = Layer(cfg, l, src, exported)
  PROVE  ValuesAreTexts'
<1>1. IsValue(expandEnv(l.val, exported))
  BY DEF WellFormed, IsValue, expandEnv
<1> QED
  BY <1>1 DEF ValuesAreTexts, Layer, set

LEMMA NextLineIsWellFormed ==
  ASSUME LayersAreLines, LineLeft
  PROVE  WellFormed(NextLine)
<1>1. line + 1 \in 1 .. Len(Lines(File))
  BY DEF LineLeft, LayersAreLines
<1>2. Lines(File) = overlay \/ (File \in DOMAIN Shipped /\ Lines(File) = Shipped[File])
  BY DEF LineLeft, Reading, Exists, Lines
<1> QED
  BY <1>1, <1>2 DEF NextLine, LayersAreLines

LEMMA ValuesStep ==
  ASSUME StartInv, [StartupNext]_startup
  PROVE  ValuesAreTexts' /\ LayersAreLines'
<1>1. LayersAreLines'
  BY DEF StartInv, LayersAreLines, StartupNext, NoFileGiven, NoConfigList, OpenFails,
     LoadPair, LoadIgnored, LoadMalformed, EndOfFile, ApplyPair, ApplyMalformed, ResolveAll,
     CheckCredentials, CheckSettings, NewClient, ClientRefused, Begin, HelpersRefused,
     ModeUnknown, CommandRefused, Refuse, Proceed, inputs, startup
<1>2. CASE LoadPair
  <2>1. cfg' = cfg \/ \E src : cfg' = Layer(cfg, NextLine, src, exported)
    BY <1>2 DEF LoadPair, Take
  <2>2. WellFormed(NextLine) /\ NextLine.form = "pair"
    BY <1>2, NextLineIsWellFormed DEF LoadPair, StartInv
  <2> QED
    BY <1>1, <2>1, <2>2, LayerValue DEF StartInv
<1>3. CASE ApplyPair
  <2>1. PICK o \in Overrides : o.form = "pair" /\ Take(o, "-set", 0)
    BY <1>3 DEF ApplyPair
  <2>2. cfg' = cfg \/ \E src : cfg' = Layer(cfg, o, src, exported)
    BY <2>1 DEF Take
  <2> QED
    BY <1>1, <2>1, <2>2, LayerValue DEF StartInv
<1>4. CASE UNCHANGED cfg
  BY <1>1, <1>4 DEF StartInv, ValuesAreTexts
<1> QED
  BY <1>2, <1>3, <1>4 DEF StartupNext, NoFileGiven, NoConfigList, OpenFails, LoadIgnored,
     LoadMalformed, EndOfFile, ApplyMalformed, ResolveAll, CheckCredentials, CheckSettings,
     NewClient, ClientRefused, Begin, HelpersRefused, ModeUnknown, CommandRefused, Refuse,
     Proceed, startup

LEMMA CheckedStep ==
  ASSUME Checked, [StartupNext]_startup
  PROVE  Checked'
<1> DEFINE Same == UNCHANGED <<program, cfg, client>>
<1>0. Same => /\ Resolve(cfg)' = Resolve(cfg)
              /\ RequireCloudCredentials(cfg)' = RequireCloudCredentials(cfg)
              /\ ConsumerSettings' = ConsumerSettings
              /\ ConfigMap(cfg)' = ConfigMap(cfg)
              /\ LibraryAccepts(client)' = LibraryAccepts(client)
  BY DEF ConsumerSettings, validateModeAgainstConfig, Mode
<1>1. CASE phase' \in {"files", "overrides"} \union Refusals
  BY <1>1 DEF Checked, After, Refusals
<1>2. CASE ResolveAll
  BY <1>0, <1>2 DEF ResolveAll, Proceed, Refuse, inputs, Checked, After
<1>3. CASE CheckCredentials
  BY <1>0, <1>3 DEF CheckCredentials, Proceed, Refuse, inputs, Checked, After
<1>4. CASE CheckSettings
  BY <1>0, <1>4 DEF CheckSettings, Proceed, Refuse, inputs, Checked, After
<1>5. CASE NewClient
  <2>1. /\ UNCHANGED <<program, cfg>> /\ client' = ConfigMap(cfg)
        /\ LibraryAccepts(client)'
        /\ phase = "settings" /\ phase' = "client"
    BY <1>5 DEF NewClient, inputs, LibraryAccepts
  <2>2. /\ Resolve(cfg)' = Resolve(cfg)
        /\ RequireCloudCredentials(cfg)' = RequireCloudCredentials(cfg)
        /\ ConsumerSettings' = ConsumerSettings
        /\ ConfigMap(cfg)' = ConfigMap(cfg)
    BY <2>1 DEF ConsumerSettings, validateModeAgainstConfig, Mode
  <2> QED
    BY <2>1, <2>2 DEF Checked, After
<1>6. CASE Begin
  BY <1>0, <1>6 DEF Begin, Proceed, Refuse, inputs, Checked, After
<1>7. CASE UNCHANGED startup
  BY <1>0, <1>7 DEF startup, Checked, After
<1> QED
  BY <1>1, <1>2, <1>3, <1>4, <1>5, <1>6, <1>7
     DEF StartupNext, NoFileGiven, NoConfigList, OpenFails, LoadPair, LoadIgnored,
         LoadMalformed, EndOfFile, ApplyPair, ApplyMalformed, ClientRefused, HelpersRefused,
         ModeUnknown, CommandRefused, Refuse, Refusals, Reading, LineLeft

LEMMA StartInvHolds == StartupSpec => []StartInv
<1>1. StartupInit => StartInv
  BY DEF StartupInit, StartInv, LayersAreLines, ValuesAreTexts, Checked, After, New
<1>2. StartInv /\ [StartupNext]_startup => StartInv'
  BY ValuesStep, CheckedStep DEF StartInv
<1> QED
  BY <1>1, <1>2, PTL DEF StartupSpec

\* Resolve, RequireCloudCredentials and ConfigMap: what the client is created with has
\* no empty value and no reference in it, and over SASL the credentials and a server
\* (kclient.go:39-56, 119-141, config.go:164-180).
THEOREM ClientsAreComplete == StartupSpec => []ClientIsComplete
<1>1. StartInv => ClientIsComplete
  <2> SUFFICES ASSUME StartInv, phase \in {"client", "started"}
               PROVE  /\ \A k \in DOMAIN client : client[k] # "" /\ cfg[k].val.refs = {}
                      /\ ("security.protocol" \in DOMAIN client
                           /\ client["security.protocol"] \in SaslWords) =>
                           {"sasl.username", "sasl.password", "bootstrap.servers"}
                             \subseteq DOMAIN client
    BY DEF ClientIsComplete
  <2>1. client = ConfigMap(cfg) /\ Resolve(cfg) /\ RequireCloudCredentials(cfg) /\ ValuesAreTexts
    BY DEF StartInv, Checked, After
  <2>2. ASSUME NEW k \in DOMAIN client PROVE client[k] # "" /\ cfg[k].val.refs = {}
    <3>1. /\ k \in DOMAIN cfg /\ Get(cfg, k) = cfg[k].val /\ cfg[k].val # Blank
          /\ client[k] = cfg[k].val.text
      BY <2>1 DEF ConfigMap, Kafka, Get, Has
    <3>2. cfg[k].val.refs = {}
      BY <2>1, <3>1 DEF Resolve, Unresolved
    <3>3. cfg[k].val = [text |-> cfg[k].val.text, refs |-> cfg[k].val.refs]
      BY <2>1, <3>1 DEF ValuesAreTexts, IsValue
    <3> QED
      BY <3>1, <3>2, <3>3 DEF Blank, Text
  <2>3. ASSUME "security.protocol" \in DOMAIN client,
               client["security.protocol"] \in SaslWords,
               NEW k \in {"sasl.username", "sasl.password", "bootstrap.servers"}
        PROVE  k \in DOMAIN client
    <3>1. Sasl(cfg)
      BY <2>1, <2>3 DEF ConfigMap, Sasl
    <3>2. Get(cfg, k) # Blank
      BY <2>1, <3>1 DEF RequireCloudCredentials
    <3>3. k \in Kafka(cfg)
      BY <3>2 DEF Get, Has, Kafka, AppKeys
    <3> QED
      BY <2>1, <3>2, <3>3 DEF ConfigMap
  <2> QED
    BY <2>2, <2>3
<1> QED
  BY <1>1, StartInvHolds, PTL

\* What a client has of a switch that is not at its default.
LEMMA SwitchSet ==
  ASSUME client = ConfigMap(cfg), NEW k \in Switches
  PROVE  /\ Get(cfg, k).text = "false" => k \in DOMAIN client /\ client[k] = "false"
         /\ k \in DOMAIN client => client[k] = Get(cfg, k).text
<1>1. Blank.text = ""
  BY DEF Blank, Text
<1>2. Get(cfg, k) # Blank => k \in Kafka(cfg)
  BY DEF Get, Has, Kafka, AppKeys, Switches
<1> QED
  BY <1>1, <1>2 DEF ConfigMap

\* validateModeAgainstConfig: no consumer starts with the library storing at delivery in
\* manual mode, or committing in the background in atmostonce and eos, by the library's
\* reading of the words, nor, but for a word that the library reads as false and the
\* check does not, with either of the two off in autocommit (consumer/main.go:221-255).
THEOREM ModesAreHonoured == StartupSpec => []ModeIsHonoured
<1>1. StartInv => ModeIsHonoured
  <2> SUFFICES ASSUME StartInv, program = "consumer", phase \in {"client", "started"}
               PROVE  /\ Mode \in Modes["consumer"]
                      /\ Mode = "manual" => ~On("enable.auto.offset.store")
                      /\ Mode \in {"atmostonce", "eos"} => ~On("enable.auto.commit")
                      /\ Mode = "autocommit" =>
                           \A k \in Switches : On(k) \/ client[k] \in FalseWords \ {"false"}
    BY DEF ModeIsHonoured
  <2>1. client = ConfigMap(cfg) /\ LibraryAccepts(client) /\ validateModeAgainstConfig
    BY DEF StartInv, Checked, After, ConsumerSettings
  <2>2. ASSUME NEW k \in Switches, Get(cfg, k).text = "false" PROVE ~On(k)
    BY <2>1, <2>2, SwitchSet DEF On, TrueWords
  <2>3. ASSUME NEW k \in Switches, Get(cfg, k).text # "false"
        PROVE  On(k) \/ client[k] \in FalseWords \ {"false"}
    BY <2>1, <2>3, SwitchSet DEF On, LibraryAccepts
  <2> QED
    BY <2>1, <2>2, <2>3 DEF validateModeAgainstConfig, Switches
<1> QED
  BY <1>1, StartInvHolds, PTL

=============================================================================
