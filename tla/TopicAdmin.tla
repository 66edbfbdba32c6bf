----------------------------- MODULE TopicAdmin -----------------------------
(***************************************************************************)
(* cmd/topicadmin: a series of admin commands, each a process of its own,  *)
(* against a topic whose controller and brokers do not agree at once.      *)
(*                                                                         *)
(* The controller's topic is changed as soon as it accepts a request.      *)
(* Brokers replay what it did to the layout in order, each at its own      *)
(* pace, and answer metadata queries from where they are.  One partition   *)
(* stands for all in the offsets command, which treats each of them alike  *)
(* and apart.                                                              *)
(***************************************************************************)
EXTENDS Integers, Sequences, SequencesExt, FiniteSets

CONSTANTS
    Brokers,    \* brokers a metadata request may be answered by
    Entries,    \* names of topic config entries
    Values,     \* what an entry may be set to
    MaxParts,   \* partition counts asked for
    MaxOffset,  \* messages ever written to the partition
    MaxRuns     \* commands given in all

ASSUME AdminAssumption ==
    /\ Brokers # {} /\ IsFiniteSet(Brokers)
    /\ "default" \notin Values
    /\ MaxParts \in Nat \ {0} /\ MaxOffset \in Nat /\ MaxRuns \in Nat

VARIABLES
    topic,    \* the controller's: [state, conf]
    layouts,  \* the partition counts the name has had, 0 while it did not exist
    view,     \* broker -> how many of them it knows
    lo, hi,   \* first retained offset and next offset of the partition
    pc,       \* where the command is
    job,      \* the command: [cmd, dry, want, entries]
    noted,    \* waitForPartitions gave up and said so
    shown,    \* partitions printed, 0 for "does not exist", -1 for nothing yet
    low,      \* the earliest lookup's result, -1 before
    total,    \* messages retained, as printed
    runs      \* commands given

admin == <<topic, layouts, view, lo, hi, pc, job, noted, shown, low, total, runs>>
cluster == <<topic, layouts, view, lo, hi>>
printed == <<noted, shown, low, total>>

AllDefault == [e \in Entries |-> "default"]
NoTopic == [state |-> "absent", conf |-> AllDefault]
Seen(b) == layouts[view[b]]

\* What the flags and topic.properties can ask for; -to is checked by the command.
NoEntries == [e \in {} |-> "default"]
NamedEntries == UNION {[E -> Values] : E \in SUBSET Entries}
JobsOf(cmds, drys, wants, entries) ==
    [cmd: cmds, dry: drys, want: wants, entries: entries]
Jobs ==
    JobsOf({"describe", "offsets", "list"}, {FALSE}, {0}, {NoEntries})
      \union JobsOf({"create"}, BOOLEAN, 1..MaxParts, NamedEntries)
      \union JobsOf({"alter"}, BOOLEAN, {0}, NamedEntries)
      \union JobsOf({"partitions"}, BOOLEAN, 0..MaxParts, {NoEntries})
      \union JobsOf({"delete"}, BOOLEAN, {0}, {NoEntries})

AdminInit ==
    /\ topic = NoTopic
    /\ layouts = <<0>>
    /\ view = [b \in Brokers |-> 1]
    /\ lo = 0 /\ hi = 0
    /\ pc = "idle"
    /\ job = [cmd |-> "list", dry |-> FALSE, want |-> 0, entries |-> NoEntries]
    /\ noted = FALSE /\ shown = -1 /\ low = -1 /\ total = 0
    /\ runs = 0

-----------------------------------------------------------------------------
(* The cluster *)

\* A broker replays the next change.
Propagate(b) ==
    /\ view[b] < Len(layouts)
    /\ view' = [view EXCEPT ![b] = @ + 1]
    /\ UNCHANGED <<topic, layouts, lo, hi, pc, job, printed, runs>>

\* Deletion is asynchronous: until it is done the topic lingers and its name is taken.
DeletionDone ==
    /\ topic.state = "deleting"
    /\ topic' = NoTopic
    /\ layouts' = Append(layouts, 0)
    /\ lo' = 0 /\ hi' = 0
    /\ UNCHANGED <<view, pc, job, printed, runs>>

Write ==
    /\ topic.state = "present"
    /\ hi < MaxOffset
    /\ hi' = hi + 1
    /\ UNCHANGED <<topic, layouts, view, lo, pc, job, printed, runs>>

Retention ==
    /\ topic.state = "present"
    /\ lo < hi
    /\ lo' = lo + 1
    /\ UNCHANGED <<topic, layouts, view, hi, pc, job, printed, runs>>

-----------------------------------------------------------------------------
(* Requests that change the topic *)

Invoke ==
    /\ pc = "idle"
    /\ runs < MaxRuns
    /\ job' \in Jobs
    /\ pc' = IF job'.cmd \in {"describe", "offsets", "list"} THEN job'.cmd ELSE "request"
    /\ runs' = runs + 1
    /\ noted' = FALSE /\ shown' = -1 /\ low' = -1 /\ total' = 0
    /\ UNCHANGED cluster

Ends == pc' = "idle" /\ UNCHANGED <<job, runs>>

\* -to missing, or an alter with nothing to set: refused before any request.
BadFlags ==
    \/ job.cmd = "partitions" /\ job.want = 0
    \/ job.cmd = "alter" /\ job.entries = NoEntries

RefuseFlags ==
    /\ pc = "request"
    /\ BadFlags
    /\ Ends
    /\ UNCHANGED <<cluster, printed>>

\* SetAdminValidateOnly, for create and alter.
ValidateOnly == job.dry

\* The incremental form of alter: entries that are not named keep their value.
Altered(conf, entries) ==
    [e \in Entries |-> IF e \in DOMAIN entries THEN entries[e] ELSE conf[e]]

\* What the controller does with each request it accepts.
CreateTopics ==
    /\ job.cmd = "create"
    /\ topic.state = "absent"
    /\ IF ValidateOnly THEN UNCHANGED <<topic, layouts>>
       ELSE /\ topic' = [state |-> "present", conf |-> Altered(AllDefault, job.entries)]
            /\ layouts' = Append(layouts, job.want)

IncrementalAlterConfigs ==
    /\ job.cmd = "alter"
    /\ topic.state = "present"
    /\ topic' = IF ValidateOnly THEN topic
                ELSE [topic EXCEPT !.conf = Altered(@, job.entries)]
    /\ UNCHANGED layouts

CreatePartitions ==
    /\ job.cmd = "partitions"
    /\ topic.state = "present"
    /\ job.want > Last(layouts)
    /\ layouts' = Append(layouts, job.want)
    /\ UNCHANGED topic

DeleteTopics ==
    /\ job.cmd = "delete"
    /\ topic.state = "present"
    /\ topic' = [topic EXCEPT !.state = "deleting"]
    /\ UNCHANGED layouts

\* The request succeeded, and the command goes on there.
Continues(next) ==
    /\ pc = "request"
    /\ ~BadFlags
    /\ pc' = next
    /\ UNCHANGED <<view, lo, hi, job, printed, runs>>

create == CreateTopics /\ Continues(IF job.dry THEN "idle" ELSE "waitForTopic")

\* create of a topic whose name is taken is no error.
CreateSkips ==
    /\ job.cmd = "create"
    /\ topic.state # "absent"
    /\ UNCHANGED <<topic, layouts>>
    /\ Continues(IF job.dry THEN "idle" ELSE "waitForTopic")

alter == IncrementalAlterConfigs /\ Continues(IF job.dry THEN "idle" ELSE "describe")

\* partitions and delete do not look at -dry-run.
addPartitions == CreatePartitions /\ Continues("waitForPartitions")
deleteTopic == DeleteTopics /\ Continues("idle")

\* The controller says no, or its answer never comes, with the change made or not.
RequestFails ==
    /\ \/ CreateTopics \/ IncrementalAlterConfigs \/ CreatePartitions \/ DeleteTopics
       \/ UNCHANGED <<topic, layouts>>
    /\ Continues("idle")

-----------------------------------------------------------------------------
(* Waiting for the metadata, and describing *)

\* Bug variant: the first answer is enough.
Answered(b) == pc \in {"waitForTopic", "waitForPartitions"}

\* A poll that finds what it waits for; one that does not changes nothing.
CaughtUp(b) ==
    \/ pc = "waitForTopic" /\ Seen(b) > 0
    \/ pc = "waitForPartitions" /\ Seen(b) >= job.want

WaitEnds(b) ==
    /\ CaughtUp(b)
    /\ pc' = "describe"
    /\ UNCHANGED <<cluster, job, printed, runs>>

\* Bug variant: the deadline is never looked at.
WaitForever == FALSE

\* The deadline: create fails, partitions prints a note and goes on.
WaitForTopicExpires ==
    /\ pc = "waitForTopic"
    /\ Ends
    /\ UNCHANGED <<cluster, printed>>

WaitForPartitionsExpires ==
    /\ pc = "waitForPartitions"
    /\ noted' = TRUE
    /\ pc' = "describe"
    /\ UNCHANGED <<cluster, job, shown, low, total, runs>>

\* describe and list print what the metadata says.
ShowLayout(b) ==
    /\ pc \in {"describe", "list"}
    /\ pc = "describe" => Seen(b) > 0
    /\ shown' = Seen(b)
    /\ pc' = IF pc = "describe" THEN "describeConfigs" ELSE "idle"
    /\ UNCHANGED <<cluster, job, noted, low, total, runs>>

\* describe and offsets of a topic this broker does not know.
Unknown(b) ==
    /\ pc \in {"describe", "offsets"}
    /\ Seen(b) = 0
    /\ shown' = 0
    /\ Ends
    /\ UNCHANGED <<cluster, noted, low, total>>

ListPartitions(b) ==
    /\ pc = "offsets"
    /\ Seen(b) > 0
    /\ pc' = "earliest"
    /\ UNCHANGED <<cluster, job, printed, runs>>

\* The entries are printed, or the query fails.
DescribeConfigs ==
    /\ pc = "describeConfigs"
    /\ Ends
    /\ UNCHANGED <<cluster, printed>>

QueryFails ==
    /\ pc \in {"describe", "list", "offsets", "earliest", "latest"}
    /\ Ends
    /\ UNCHANGED <<cluster, printed>>

-----------------------------------------------------------------------------
(* offsets: two lookups, one after the other *)

\* Bug variant: both requests ask for the latest offset.
LatestTwice ==
    /\ pc = "earliest"
    /\ topic.state # "absent"
    /\ low' = hi
    /\ pc' = "latest"
    /\ UNCHANGED <<cluster, job, noted, shown, total, runs>>

EarliestOffsets ==
    /\ pc = "earliest"
    /\ topic.state # "absent"
    /\ low' = lo
    /\ pc' = "latest"
    /\ UNCHANGED <<cluster, job, noted, shown, total, runs>>

Retained(latest, earliest) == latest - earliest

LatestOffsets ==
    /\ pc = "latest"
    /\ topic.state # "absent"
    /\ total' = Retained(hi, low)
    /\ Ends
    /\ UNCHANGED <<cluster, noted, shown, low>>

\* Only the first lookup's error is looked at: a partition whose second lookup
\* failed is counted up to offset zero.
LatestFails ==
    /\ pc = "latest"
    /\ total' = Retained(0, low)
    /\ Ends
    /\ UNCHANGED <<cluster, noted, shown, low>>

-----------------------------------------------------------------------------

Step ==
    \/ RefuseFlags \/ create \/ CreateSkips \/ alter \/ addPartitions \/ deleteTopic
    \/ RequestFails
    \/ WaitForTopicExpires \/ WaitForPartitionsExpires
    \/ DescribeConfigs \/ QueryFails
    \/ EarliestOffsets \/ LatestOffsets \/ LatestFails
    \/ \E b \in Brokers :
          WaitEnds(b) \/ ShowLayout(b) \/ Unknown(b) \/ ListPartitions(b)

AdminNext ==
    \/ Invoke \/ Step
    \/ DeletionDone \/ Write \/ Retention
    \/ \E b \in Brokers : Propagate(b)

\* A command runs on, and its requests and waits have deadlines.
AdminFairness == WF_admin(Step)

AdminSpec == AdminInit /\ [][AdminNext]_admin /\ AdminFairness

-----------------------------------------------------------------------------
(* Properties *)

AdminTypeOK ==
    /\ topic \in [state: {"absent", "present", "deleting"},
                  conf: [Entries -> Values \union {"default"}]]
    /\ layouts \in Seq(0..MaxParts)
    /\ view \in [Brokers -> 1..Len(layouts)]
    /\ hi \in 0..MaxOffset /\ lo \in 0..hi
    /\ pc \in {"idle", "request", "waitForTopic", "waitForPartitions", "describe",
               "describeConfigs", "list", "offsets", "earliest", "latest"}
    /\ job \in Jobs
    /\ noted \in BOOLEAN
    /\ shown \in -1..MaxParts
    /\ low \in -1..MaxOffset
    /\ total \in -MaxOffset..MaxOffset
    /\ runs \in 0..MaxRuns

\* The partitions a command that waits was promised.
Need == IF job.cmd = "partitions" THEN job.want ELSE 1

\* The wait of create or partitions is over and neither has said that it failed.
WaitIsOver ==
    /\ job.cmd \in {"create", "partitions"}
    /\ pc \in {"describe", "describeConfigs"} \/ shown # -1
    /\ ~noted

NeverDeleted == \A i \in 2..Len(layouts) : layouts[i] # 0

\* waitForTopic and waitForPartitions: when create or partitions goes on to describe,
\* after a request, a SKIP or a second try, some broker knows what was asked for, and
\* goes on knowing it, unless the command has said that the metadata has not caught
\* up.  No more than that: describe may be answered by another broker and show less,
\* and the view of a topic that was deleted since can end the wait (README).
SomeBrokerKnows ==
    WaitIsOver /\ NeverDeleted => \E b \in Brokers : Seen(b) >= Need

\* offsets asks for the earliest offset before the latest, so that what is written
\* or expires between the two lookups never makes it print fewer messages than the
\* topic retains at the latest lookup; if both are answered.
RetainedIsNotUnderstated ==
    [][LatestOffsets => total' >= hi - lo]_admin

\* Every command comes back, whatever the cluster's metadata does.
CommandEnds == (pc # "idle") ~> (pc = "idle")
=============================================================================
