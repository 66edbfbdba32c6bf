-------------------------- MODULE TopicAdminProofs --------------------------
(***************************************************************************)
(* Theorems about TopicAdmin, for any number of brokers, config entries,   *)
(* partitions, messages and commands.                                      *)
(***************************************************************************)
EXTENDS TopicAdmin, TLAPS

USE AdminAssumption

(***************************************************************************)
(* A request of create, alter, partitions or delete, answered or not.      *)
(***************************************************************************)
Changes ==
  \/ CreateTopics \/ IncrementalAlterConfigs \/ CreatePartitions \/ DeleteTopics
  \/ UNCHANGED <<topic, layouts>>

Asked ==
  /\ pc = "request"
  /\ Changes
  /\ pc' \in {"idle", "waitForTopic", "waitForPartitions", "describe"}
  /\ pc' = "waitForTopic" => job.cmd = "create"
  /\ pc' = "waitForPartitions" => job.cmd = "partitions"
  /\ pc' = "describe" => job.cmd = "alter"
  /\ UNCHANGED <<view, lo, hi, job, printed, runs>>

LEMMA RequestsAsk ==
  ASSUME \/ create \/ CreateSkips \/ alter \/ addPartitions \/ deleteTopic \/ RequestFails
  PROVE  Asked
<1>1. CASE create
  BY <1>1 DEF create, CreateTopics, Continues, Asked, Changes
<1>2. CASE CreateSkips
  BY <1>2 DEF CreateSkips, Continues, Asked, Changes
<1>3. CASE alter
  BY <1>3 DEF alter, IncrementalAlterConfigs, Continues, Asked, Changes
<1>4. CASE addPartitions
  BY <1>4 DEF addPartitions, CreatePartitions, Continues, Asked, Changes
<1>5. CASE deleteTopic
  BY <1>5 DEF deleteTopic, Continues, Asked, Changes
<1>6. CASE RequestFails
  BY <1>6 DEF RequestFails, Continues, Asked, Changes
<1> QED
  BY <1>1, <1>2, <1>3, <1>4, <1>5, <1>6

(***************************************************************************)
(* Type correctness.                                                       *)
(***************************************************************************)
\* Between its two lookups offsets holds the first one's result; while the topic is
\* there its first retained offset only moves up.
LookedUp ==
  pc = "latest" => low >= 0 /\ (topic.state # "absent" => low <= lo)

\* The last layout is that of the controller's topic.
InStep == Len(layouts) > 0 /\ (topic.state = "absent" <=> Last(layouts) = 0)

AdminInv == AdminTypeOK /\ LookedUp /\ InStep

LEMMA JobType ==
  ASSUME job \in Jobs
  PROVE  job.want \in 0 .. MaxParts
<1>1. PICK cmds, drys, wants, entries :
        wants \subseteq 0 .. MaxParts /\ job \in JobsOf(cmds, drys, wants, entries)
  BY DEF Jobs
<1> QED
  BY <1>1 DEF JobsOf

LEMMA AlteredType ==
  ASSUME NEW conf \in [Entries -> Values \union {"default"}], NEW entries \in NamedEntries
  PROVE  Altered(conf, entries) \in [Entries -> Values \union {"default"}]
<1>1. PICK E \in SUBSET Entries : entries \in [E -> Values]
  BY DEF NamedEntries
<1> QED
  BY <1>1 DEF Altered

LEMMA AskedType ==
  ASSUME AdminInv, Asked
  PROVE  /\ topic' \in [state: {"absent", "present", "deleting"},
                        conf: [Entries -> Values \union {"default"}]]
         /\ \/ layouts' = layouts /\ (topic'.state = "absent" <=> topic.state = "absent")
            \/ /\ topic'.state # "absent"
               /\ \E n \in 1 .. MaxParts : n > Last(layouts) /\ layouts' = Append(layouts, n)
<1>0. /\ topic \in [state: {"absent", "present", "deleting"},
                    conf: [Entries -> Values \union {"default"}]]
      /\ layouts \in Seq(0 .. MaxParts) /\ Len(layouts) > 0 /\ job \in Jobs
      /\ topic.state = "absent" <=> Last(layouts) = 0
  BY DEF AdminInv, AdminTypeOK, InStep
<1>1. CASE CreateTopics
  <2>1. job.entries \in NamedEntries /\ job.want \in 1 .. MaxParts
    BY <1>0, <1>1 DEF CreateTopics, Jobs, JobsOf
  <2>2. Altered(AllDefault, job.entries) \in [Entries -> Values \union {"default"}]
    BY <2>1, AlteredType DEF AllDefault
  <2>3. CASE ValidateOnly
    BY <1>0, <1>1, <2>3 DEF CreateTopics
  <2>4. CASE ~ValidateOnly
    BY <1>0, <1>1, <2>1, <2>2, <2>4 DEF CreateTopics
  <2> QED
    BY <2>3, <2>4
<1>2. CASE IncrementalAlterConfigs
  <2>1. job.entries \in NamedEntries
    BY <1>0, <1>2 DEF IncrementalAlterConfigs, Jobs, JobsOf
  <2>2. Altered(topic.conf, job.entries) \in [Entries -> Values \union {"default"}]
    BY <1>0, <2>1, AlteredType
  <2> QED
    BY <1>0, <1>2, <2>2 DEF IncrementalAlterConfigs
<1>3. CASE CreatePartitions
  <2>1. job.want \in 0 .. MaxParts /\ Last(layouts) \in 0 .. MaxParts
    BY <1>0, JobType DEF Last
  <2> QED
    BY <1>0, <1>3, <2>1 DEF CreatePartitions
<1>4. CASE DeleteTopics
  BY <1>0, <1>4 DEF DeleteTopics
<1>5. CASE UNCHANGED <<topic, layouts>>
  BY <1>0, <1>5
<1> QED
  BY <1>1, <1>2, <1>3, <1>4, <1>5 DEF Asked, Changes

LEMMA AppendKeeps ==
  ASSUME AdminInv, NEW n \in 0 .. MaxParts, layouts' = Append(layouts, n)
  PROVE  /\ layouts' \in Seq(0 .. MaxParts) /\ Len(layouts') = Len(layouts) + 1
         /\ Last(layouts') = n
         /\ view \in [Brokers -> 1 .. Len(layouts')]
<1>1. layouts \in Seq(0 .. MaxParts) /\ Len(layouts) \in Nat
  BY DEF AdminInv, AdminTypeOK
<1>2. layouts' \in Seq(0 .. MaxParts) /\ Len(layouts') = Len(layouts) + 1
  BY <1>1
<1>3. Last(layouts') = n
  BY <1>1, <1>2 DEF Last
<1>4. view \in [Brokers -> 1 .. Len(layouts')]
  BY <1>1, <1>2 DEF AdminInv, AdminTypeOK
<1> QED
  BY <1>2, <1>3, <1>4

LEMMA AdminStep ==
  ASSUME AdminInv, [AdminNext]_admin
  PROVE  AdminInv'
<1>0. /\ topic \in [state: {"absent", "present", "deleting"},
                    conf: [Entries -> Values \union {"default"}]]
      /\ layouts \in Seq(0 .. MaxParts) /\ Len(layouts) > 0
      /\ view \in [Brokers -> 1 .. Len(layouts)]
      /\ lo \in 0 .. MaxOffset /\ hi \in 0 .. MaxOffset /\ lo <= hi
      /\ low \in -1 .. MaxOffset
  BY DEF AdminInv, AdminTypeOK, InStep
<1> DEFINE Rest == <<pc, job, printed, runs>>
<1>1. CASE Invoke
  <2>1. runs' \in 0 .. MaxRuns /\ total' \in -MaxOffset .. MaxOffset
    BY <1>1 DEF Invoke, AdminInv, AdminTypeOK
  <2>2. noted' \in BOOLEAN /\ shown' \in -1 .. MaxParts /\ low' \in -1 .. MaxOffset
    <3>1. noted' = FALSE /\ shown' = -1 /\ low' = -1
      BY <1>1 DEF Invoke
    <3>2. noted' \in BOOLEAN
      BY <3>1
    <3>3. shown' \in -1 .. MaxParts
      BY <3>1
    <3>4. low' \in -1 .. MaxOffset
      BY <3>1
    <3> QED
      BY <3>2, <3>3, <3>4
  <2>3. pc' \in {"describe", "offsets", "list", "request"}
    BY <1>1 DEF Invoke
  <2>4. job' \in Jobs /\ UNCHANGED cluster
    BY <1>1 DEF Invoke
  <2> QED
    BY <1>0, <2>1, <2>2, <2>3, <2>4 DEF cluster, AdminInv, AdminTypeOK, LookedUp, InStep
<1>2. CASE RefuseFlags
  BY <1>0, <1>2 DEF RefuseFlags, Ends, cluster, printed, AdminInv, AdminTypeOK, LookedUp, InStep
<1>3. CASE Asked
  <2>1. /\ topic' \in [state: {"absent", "present", "deleting"},
                       conf: [Entries -> Values \union {"default"}]]
        /\ layouts' \in Seq(0 .. MaxParts)
        /\ view \in [Brokers -> 1 .. Len(layouts')]
        /\ InStep'
    <3>1. CASE layouts' = layouts /\ (topic'.state = "absent" <=> topic.state = "absent")
      BY <1>0, <1>3, <3>1, AskedType DEF AdminInv, InStep
    <3>2. ASSUME NEW n \in 1 .. MaxParts, layouts' = Append(layouts, n), topic'.state # "absent"
          PROVE  /\ layouts' \in Seq(0 .. MaxParts)
                 /\ view \in [Brokers -> 1 .. Len(layouts')]
                 /\ InStep'
      BY <1>0, <3>2, AppendKeeps DEF InStep
    <3> QED
      BY <1>3, <3>1, <3>2, AskedType
  <2> QED
    BY <1>0, <1>3, <2>1 DEF Asked, printed, AdminInv, AdminTypeOK, LookedUp
<1>4. CASE WaitForTopicExpires
  BY <1>0, <1>4 DEF WaitForTopicExpires, Ends, cluster, printed, AdminInv, AdminTypeOK, LookedUp,
     InStep
<1>5. CASE WaitForPartitionsExpires
  BY <1>0, <1>5 DEF WaitForPartitionsExpires, cluster, AdminInv, AdminTypeOK, LookedUp, InStep
<1>6. CASE DescribeConfigs \/ QueryFails
  BY <1>0, <1>6 DEF DescribeConfigs, QueryFails, Ends, cluster, printed, AdminInv, AdminTypeOK,
     LookedUp, InStep
<1>7. CASE EarliestOffsets
  BY <1>0, <1>7 DEF EarliestOffsets, cluster, AdminInv, AdminTypeOK, LookedUp, InStep
<1>8. CASE LatestOffsets \/ LatestFails
  <2>1. total' \in -MaxOffset .. MaxOffset
    BY <1>0, <1>8 DEF LatestOffsets, LatestFails, Retained, AdminInv, LookedUp
  <2> QED
    BY <1>0, <1>8, <2>1 DEF LatestOffsets, LatestFails, Ends, cluster, AdminInv, AdminTypeOK,
       LookedUp, InStep
<1>9. ASSUME NEW b \in Brokers,
             WaitEnds(b) \/ ShowLayout(b) \/ Unknown(b) \/ ListPartitions(b)
      PROVE  AdminInv'
  <2>1. Seen(b) \in 0 .. MaxParts
    BY <1>0 DEF Seen
  <2>2. CASE WaitEnds(b) \/ ListPartitions(b)
    BY <1>0, <2>2 DEF WaitEnds, ListPartitions, cluster, printed, AdminInv, AdminTypeOK, LookedUp,
       InStep
  <2>3. CASE ShowLayout(b) \/ Unknown(b)
    <3>1. shown' \in -1 .. MaxParts /\ pc' \in {"idle", "describeConfigs"}
      BY <2>1, <2>3 DEF ShowLayout, Unknown, Ends
    <3> QED
      BY <1>0, <2>3, <3>1 DEF ShowLayout, Unknown, Ends, cluster, AdminInv, AdminTypeOK, LookedUp,
         InStep
  <2> QED
    BY <1>9, <2>2, <2>3
<1>10. CASE DeletionDone
  <2>1. /\ layouts' \in Seq(0 .. MaxParts) /\ Len(layouts') = Len(layouts) + 1
        /\ Last(layouts') = 0 /\ view \in [Brokers -> 1 .. Len(layouts')]
    BY <1>10, AppendKeeps DEF DeletionDone
  <2>2. topic'.state = "absent" /\ topic'.conf \in [Entries -> Values \union {"default"}]
        /\ topic' = [state |-> topic'.state, conf |-> topic'.conf]
    BY <1>10 DEF DeletionDone, NoTopic, AllDefault
  <2> QED
    BY <1>0, <1>10, <2>1, <2>2 DEF DeletionDone, printed, AdminInv, AdminTypeOK, LookedUp, InStep
<1>11. CASE Write \/ Retention
  <2>1. hi' \in 0 .. MaxOffset /\ lo' \in 0 .. hi' /\ lo <= lo'
    BY <1>0, <1>11 DEF Write, Retention
  <2>2. UNCHANGED <<topic, layouts, view, pc, job, printed, runs>>
    BY <1>11 DEF Write, Retention
  <2>3. pc = "latest" => low >= 0 /\ (topic.state # "absent" => low <= lo')
    BY <1>0, <2>1 DEF AdminInv, LookedUp
  <2> QED
    BY <1>0, <2>1, <2>2, <2>3 DEF printed, AdminInv, AdminTypeOK, LookedUp, InStep
<1>12. ASSUME NEW b \in Brokers, Propagate(b) PROVE AdminInv'
  <2>1. view' \in [Brokers -> 1 .. Len(layouts)]
    BY <1>0, <1>12 DEF Propagate
  <2> QED
    BY <1>0, <1>12, <2>1 DEF Propagate, printed, AdminInv, AdminTypeOK, LookedUp, InStep
<1>13. CASE UNCHANGED admin
  BY <1>0, <1>13 DEF admin, printed, AdminInv, AdminTypeOK, LookedUp, InStep
<1> QED
  BY <1>1, <1>2, <1>3, <1>4, <1>5, <1>6, <1>7, <1>8, <1>9, <1>10, <1>11, <1>12, <1>13, RequestsAsk
     DEF AdminNext, Step

LEMMA AdminStart == AdminInit => AdminInv
<1> SUFFICES ASSUME AdminInit PROVE AdminInv
  OBVIOUS
<1>1. layouts \in Seq(0 .. MaxParts) /\ Len(layouts) = 1 /\ Last(layouts) = 0
  BY DEF AdminInit, Last
<1>2. job \in Jobs
  BY DEF AdminInit, Jobs, JobsOf
<1>3. topic \in [state: {"absent", "present", "deleting"},
                 conf: [Entries -> Values \union {"default"}]]
  BY DEF AdminInit, NoTopic, AllDefault
<1>4. view \in [Brokers -> 1 .. Len(layouts)]
  BY <1>1 DEF AdminInit
<1>5. total \in -MaxOffset .. MaxOffset
  BY DEF AdminInit
<1>6. noted \in BOOLEAN /\ shown \in -1 .. MaxParts /\ low \in -1 .. MaxOffset
  <2>1. noted = FALSE /\ shown = -1 /\ low = -1
    BY DEF AdminInit
  <2>2. noted \in BOOLEAN
    BY <2>1
  <2>3. shown \in -1 .. MaxParts
    BY <2>1
  <2>4. low \in -1 .. MaxOffset
    BY <2>1
  <2> QED
    BY <2>2, <2>3, <2>4
<1>7. AdminTypeOK
  BY <1>1, <1>2, <1>3, <1>4, <1>5, <1>6 DEF AdminInit, AdminTypeOK
<1> QED
  BY <1>1, <1>7 DEF AdminInit, AdminInv, LookedUp, InStep, NoTopic

\* Every variable keeps its type, the count of retained messages included, which is
\* negative when the second lookup fails (topicadmin/main.go:535).
THEOREM AdminTypeCorrect == AdminSpec => []AdminTypeOK
<1>1. AdminInv => AdminTypeOK
  BY DEF AdminInv
<1> QED
  BY <1>1, AdminStart, AdminStep, PTL DEF AdminSpec

(***************************************************************************)
(* What offsets counts.                                                    *)
(***************************************************************************)
\* offsets looks the earliest offset up first, so that what is written or expires
\* meanwhile adds to the count and takes nothing away (topicadmin/main.go:503-540).
THEOREM RetainedIsCounted == AdminSpec => RetainedIsNotUnderstated
<1>1. AdminInv /\ [AdminNext]_admin => [LatestOffsets => total' >= hi - lo]_admin
  <2> SUFFICES ASSUME AdminInv, LatestOffsets PROVE total' >= hi - lo
    OBVIOUS
  <2>1. low <= lo
    BY DEF AdminInv, LookedUp, LatestOffsets
  <2>2. low \in Int /\ lo \in Int /\ hi \in Int /\ total' = hi - low
    BY DEF LatestOffsets, Retained, AdminInv, AdminTypeOK
  <2> QED
    BY <2>1, <2>2
<1> QED
  BY <1>1, AdminStart, AdminStep, PTL DEF AdminSpec, RetainedIsNotUnderstated

(***************************************************************************)
(* What create and partitions show.                                        *)
(***************************************************************************)
\* A topic that was never deleted only grows.
Grows ==
  NeverDeleted => \A i, j \in 1 .. Len(layouts) : i <= j => layouts[i] <= layouts[j]

ByCommand ==
  /\ pc \in {"list", "offsets"} => job.cmd = pc
  /\ pc = "waitForTopic" => job.cmd = "create"
  /\ pc = "waitForPartitions" => job.cmd = "partitions"

KnownInv == AdminInv /\ ByCommand /\ Grows /\ SomeBrokerKnows

LEMMA UndeletedGrows ==
  ASSUME AdminInv, Grows, NEW n \in 0 .. MaxParts, layouts' = Append(layouts, n),
         n > Last(layouts) \/ n = 0
  PROVE  /\ Grows'
         /\ NeverDeleted' => NeverDeleted
         /\ \A i \in 1 .. Len(layouts) : layouts'[i] = layouts[i]
<1>0. layouts \in Seq(0 .. MaxParts) /\ Len(layouts) \in Nat \ {0}
  BY DEF AdminInv, AdminTypeOK, InStep
<1>1. Len(layouts') = Len(layouts) + 1 /\ layouts'[Len(layouts) + 1] = n
  BY <1>0
<1>2. \A i \in 1 .. Len(layouts) : layouts'[i] = layouts[i] /\ layouts[i] \in 0 .. MaxParts
  BY <1>0
<1>3. NeverDeleted' => NeverDeleted
  BY <1>0, <1>1, <1>2 DEF NeverDeleted
<1>4. ASSUME NeverDeleted', NEW i \in 1 .. Len(layouts'), NEW j \in 1 .. Len(layouts'), i <= j
      PROVE  layouts'[i] <= layouts'[j]
  <2>1. n > Last(layouts)
    <3>1. layouts'[Len(layouts')] # 0
      BY <1>0, <1>1, <1>4 DEF NeverDeleted
    <3> QED
      BY <1>1, <3>1
  <2>2. \A k \in 1 .. Len(layouts) : layouts[k] <= Last(layouts)
    BY <1>0, <1>3, <1>4 DEF Grows, Last
  <2>3. CASE j \in 1 .. Len(layouts)
    BY <1>0, <1>2, <1>3, <1>4, <2>3 DEF Grows
  <2>4. CASE j = Len(layouts) + 1
    <3>1. CASE i = j
      BY <1>1, <2>4, <3>1
    <3>2. CASE i # j
      <4>1. i \in 1 .. Len(layouts)
        BY <1>0, <1>1, <1>4, <2>4, <3>2
      <4>2. layouts[i] <= Last(layouts) /\ Last(layouts) \in Int
        BY <1>0, <2>2, <4>1 DEF Last
      <4>3. layouts'[i] \in Int /\ layouts'[i] <= Last(layouts)
        BY <1>2, <4>1, <4>2
      <4> QED
        BY <1>1, <2>1, <2>4, <4>2, <4>3
    <3> QED
      BY <3>1, <3>2
  <2> QED
    BY <1>0, <1>1, <1>4, <2>3, <2>4
<1> QED
  BY <1>2, <1>3, <1>4 DEF Grows

\* Whatever is added to the layouts and replayed, no broker's topic gets smaller.
LEMMA SeenGrows ==
  ASSUME KnownInv, AdminInv', NeverDeleted', NEW b \in Brokers,
         view'[b] \in view[b] .. Len(layouts),
         \/ UNCHANGED layouts
         \/ \E n \in 0 .. MaxParts : (n > Last(layouts) \/ n = 0) /\ layouts' = Append(layouts, n)
  PROVE  NeverDeleted /\ Seen(b) \in Nat /\ Seen(b)' \in Nat /\ Seen(b) <= Seen(b)'
<1>1. /\ layouts \in Seq(0 .. MaxParts) /\ Len(layouts) \in Nat
      /\ view[b] \in 1 .. Len(layouts) /\ view'[b] \in 1 .. Len(layouts)
      /\ view[b] <= view'[b]
  BY DEF KnownInv, AdminInv, AdminTypeOK
<1>2. NeverDeleted /\ \A i \in 1 .. Len(layouts) : layouts'[i] = layouts[i]
  <2>1. CASE UNCHANGED layouts
    BY <2>1 DEF NeverDeleted
  <2>2. CASE ~UNCHANGED layouts
    BY <2>2, UndeletedGrows DEF KnownInv
  <2> QED
    BY <2>1, <2>2
<1>3. layouts[view[b]] <= layouts[view'[b]]
  BY <1>1, <1>2 DEF KnownInv, Grows
<1> QED
  BY <1>1, <1>2, <1>3 DEF Seen

\* While the command takes no step that ends its wait, what some broker knows stays
\* known.
LEMMA KnownStays ==
  ASSUME KnownInv, AdminInv', WaitIsOver' => WaitIsOver /\ Need' = Need,
         \A b \in Brokers : view'[b] \in view[b] .. Len(layouts),
         \/ UNCHANGED layouts
         \/ \E n \in 0 .. MaxParts : (n > Last(layouts) \/ n = 0) /\ layouts' = Append(layouts, n)
  PROVE  Grows' /\ SomeBrokerKnows'
<1>1. Grows'
  <2>1. CASE UNCHANGED layouts
    BY <2>1 DEF KnownInv, Grows, NeverDeleted
  <2>2. CASE ~UNCHANGED layouts
    BY <2>2, UndeletedGrows DEF KnownInv
  <2> QED
    BY <2>1, <2>2
<1>2. ASSUME WaitIsOver', NeverDeleted' PROVE \E b \in Brokers : Seen(b)' >= Need'
  <2>1. \A b \in Brokers :
          NeverDeleted /\ Seen(b) \in Nat /\ Seen(b)' \in Nat /\ Seen(b) <= Seen(b)'
    BY <1>2, SeenGrows
  <2>2. WaitIsOver /\ Need' = Need
    BY <1>2
  <2>3. PICK b \in Brokers : Seen(b) >= Need
    BY <1>2, <2>1, <2>2 DEF KnownInv, SomeBrokerKnows
  <2>4. Need \in Nat
    <3>1. job.want \in 0 .. MaxParts
      BY JobType DEF KnownInv, AdminInv, AdminTypeOK
    <3> QED
      BY <3>1 DEF Need
  <2>5. Seen(b)' >= Need'
    BY <2>1, <2>2, <2>3, <2>4
  <2> QED
    BY <2>5
<1> QED
  BY <1>1, <1>2 DEF SomeBrokerKnows

LEMMA KnownStep ==
  ASSUME KnownInv, [AdminNext]_admin
  PROVE  KnownInv'
<1>0. AdminInv'
  BY AdminStep DEF KnownInv
<1>c. ByCommand'
  BY RequestsAsk DEF AdminNext, Step, Invoke, RefuseFlags, Asked, WaitForTopicExpires,
     WaitForPartitionsExpires, DescribeConfigs, QueryFails, EarliestOffsets, LatestOffsets,
     LatestFails, WaitEnds, ShowLayout, Unknown, ListPartitions, DeletionDone, Write, Retention,
     Propagate, Ends, admin, KnownInv, ByCommand
<1> DEFINE Good == Grows' /\ SomeBrokerKnows'
<1> SUFFICES Good
  BY <1>0, <1>c DEF KnownInv
<1>v. \A b \in Brokers : view[b] \in view[b] .. Len(layouts)
  BY DEF KnownInv, AdminInv, AdminTypeOK
<1>s. ASSUME UNCHANGED <<layouts, view>>, WaitIsOver' => WaitIsOver /\ Need' = Need PROVE Good
  BY <1>0, <1>v, <1>s, KnownStays
<1>1. CASE Invoke
  <2>1. ~WaitIsOver' /\ UNCHANGED <<layouts, view>>
    BY <1>1 DEF Invoke, cluster, WaitIsOver
  <2> QED
    BY <1>s, <2>1
<1>2. CASE \/ RefuseFlags \/ WaitForTopicExpires \/ DescribeConfigs \/ QueryFails
           \/ EarliestOffsets \/ LatestOffsets \/ LatestFails
  <2>1. pc' \in {"idle", "latest"} /\ UNCHANGED <<layouts, view, job, noted, shown>>
    BY <1>2 DEF RefuseFlags, WaitForTopicExpires, DescribeConfigs, QueryFails, EarliestOffsets,
       LatestOffsets, LatestFails, Ends, cluster, printed
  <2> QED
    BY <1>s, <2>1 DEF WaitIsOver, Need
<1>3. CASE WaitForPartitionsExpires
  <2>1. noted' /\ UNCHANGED <<layouts, view>>
    BY <1>3 DEF WaitForPartitionsExpires, cluster
  <2> QED
    BY <1>s, <2>1 DEF WaitIsOver
<1>4. CASE Asked
  <2>1. \/ layouts' = layouts
        \/ \E n \in 1 .. MaxParts : n > Last(layouts) /\ layouts' = Append(layouts, n)
    BY <1>4, AskedType DEF KnownInv
  <2>2. WaitIsOver' => WaitIsOver /\ Need' = Need
    BY <1>4 DEF Asked, printed, WaitIsOver, Need
  <2>3. UNCHANGED view
    BY <1>4 DEF Asked
  <2> QED
    BY <1>0, <1>v, <2>1, <2>2, <2>3, KnownStays
<1>5. ASSUME NEW b \in Brokers, WaitEnds(b) PROVE Good
  <2>1. UNCHANGED <<layouts, view, job>>
    BY <1>5 DEF WaitEnds, cluster
  <2>2. \/ pc = "waitForTopic" /\ Seen(b) >= 1
        \/ pc = "waitForPartitions" /\ Seen(b) >= job.want
    BY <1>5 DEF WaitEnds, CaughtUp, Seen, KnownInv, AdminInv, AdminTypeOK
  <2>3. Seen(b)' >= Need'
    BY <2>1, <2>2 DEF Need, Seen, KnownInv, ByCommand
  <2>4. Grows'
    BY <2>1 DEF KnownInv, Grows, NeverDeleted
  <2> QED
    BY <2>3, <2>4 DEF SomeBrokerKnows
<1>6. ASSUME NEW b \in Brokers, ShowLayout(b) \/ Unknown(b) \/ ListPartitions(b) PROVE Good
  <2>1. UNCHANGED <<layouts, view, job, noted>> /\ pc' \in {"idle", "describeConfigs", "earliest"}
    BY <1>6 DEF ShowLayout, Unknown, ListPartitions, Ends, cluster, printed
  <2>2. job.cmd \in {"create", "partitions"} => pc = "describe"
    BY <1>6 DEF ShowLayout, Unknown, ListPartitions, KnownInv, ByCommand
  <2> QED
    BY <1>s, <2>1, <2>2 DEF WaitIsOver, Need
<1>7. CASE DeletionDone
  <2>1. WaitIsOver' => WaitIsOver /\ Need' = Need
    BY <1>7 DEF DeletionDone, printed, WaitIsOver, Need
  <2> QED
    BY <1>0, <1>7, <1>v, <2>1, KnownStays DEF DeletionDone
<1>8. CASE Write \/ Retention \/ UNCHANGED admin
  BY <1>8, <1>s DEF Write, Retention, admin, printed, WaitIsOver, Need
<1>9. ASSUME NEW b \in Brokers, Propagate(b) PROVE Good
  <2>1. UNCHANGED layouts /\ (WaitIsOver' => WaitIsOver /\ Need' = Need)
    BY <1>9 DEF Propagate, printed, WaitIsOver, Need
  <2>2. \A c \in Brokers : view'[c] \in view[c] .. Len(layouts)
    BY <1>9 DEF Propagate, KnownInv, AdminInv, AdminTypeOK
  <2> QED
    BY <1>0, <2>1, <2>2, KnownStays
<1> QED
  BY <1>1, <1>2, <1>3, <1>4, <1>5, <1>6, <1>7, <1>8, <1>9, RequestsAsk DEF AdminNext, Step

\* waitForTopic and waitForPartitions, on any number of brokers: what create and
\* partitions go on to describe is known to some broker, and stays known, unless they
\* say that the metadata lags (topicadmin/main.go:213-258, 459-477).
THEOREM WaitsAreForSomething == AdminSpec => []SomeBrokerKnows
<1>1. AdminInit => KnownInv
  <2>1. AdminInit => Grows
    BY DEF AdminInit, Grows
  <2>2. AdminInit => ByCommand /\ SomeBrokerKnows
    BY DEF AdminInit, ByCommand, SomeBrokerKnows, WaitIsOver
  <2> QED
    BY <2>1, <2>2, AdminStart DEF KnownInv
<1>2. KnownInv /\ [AdminNext]_admin => KnownInv'
  BY KnownStep
<1>3. KnownInv => SomeBrokerKnows
  BY DEF KnownInv
<1> QED
  BY <1>1, <1>2, <1>3, PTL DEF AdminSpec

=============================================================================
