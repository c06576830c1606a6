----------------------------- MODULE Collection -----------------------------
(***************************************************************************)
(* One collection of the infrastructure snapshot, with the Substrate       *)
(* changing under it.  The reads go to the Kubernetes Provider             *)
(* (internal/provider/kubernetes) or, where it declares nothing or there   *)
(* is none, to the Oracle Cloud sources (internal/infra/ocisources.go) as  *)
(* far as they are configured; the collector (collect.go) runs them all at *)
(* once, each under its own deadline, and assembles what came back.        *)
(*                                                                         *)
(* The Kubernetes API, metrics-server, Oracle's APIs and the bucket are    *)
(* external: they answer from the world as it is at the moment of a call.  *)
(***************************************************************************)
EXTENDS InfraSnapshot

CONSTANTS
    Sources,     \* the reads that are made; the code makes all of AllSources
    Nodes,       \* machine names
    Ampere,      \* machines whose shape isAmpere
    NodeStates,  \* states a machine may be in: here, ready, cap, used
    Objects,     \* backup objects: key, stream, size, modified
    Limit,       \* objects in one page of a listing
    Samples,     \* what Oracle may answer of one machine or backend set
    Configs,     \* deployments: kubernetes, and the identifiers set
    MaxChanges,  \* bound: changes of the world during the collection
    Nothing      \* no snapshot yet

ASSUME CollectionConstants ==
    /\ Sources \subseteq AllSources
    /\ IsFiniteSet(Nodes) /\ Nodes \subseteq STRING \ {""}
    /\ NodeStates \subseteq [here : BOOLEAN, ready : BOOLEAN, cap : Nat, used : Nat]
    /\ IsFiniteSet(Objects)
    /\ Objects \subseteq [key : Nat \ {0}, stream : STRING, size : Nat, modified : Nat]
    /\ \A o, p \in Objects : o.key = p.key => o = p
    /\ Samples \subseteq Seq([key : STRING, points : Seq([at : Nat \cup {Null}, value : Nat \cup {Null}])])
    /\ Configs \subseteq [kubernetes : BOOLEAN, ids : SUBSET STRING]
    /\ Limit \in Nat \ {0} /\ MaxChanges \in Nat

VARIABLES
    config,    \* which sources there are
    nodes,     \* machine -> its state
    bucket,    \* the objects in the bucket
    past,      \* the worlds there have been since the collection began
    call,      \* source -> where its call is, and what it has so far
    res,       \* collectResult: source -> what it returned
    ok,        \* collectResult.ok
    warned,    \* the sources collectResult.warnings names
    answered,  \* source -> the items Oracle answered
    changes,   \* changes of the world so far
    snap       \* what Collect returned

vars == <<config, nodes, bucket, past, call, res, ok, warned, answered, changes, snap>>
world == <<nodes, bucket, past, changes>>

\* A collectResult's fields before anything is stored in them.
Zero(s) == IF s \in {"instances", "alarms"} THEN {}
           ELSE IF s = "ingress" THEN "" ELSE <<>>

(***************************************************************************)
(* Wiring.                                                                 *)
(***************************************************************************)
\* The Kubernetes Provider's Capabilities, by the reads they answer.
KubernetesServes == MetricSources \cup {"instances", "ingress"}

\* newSourcesWithProvider: what the configured identifiers make readable.
OciServes(ids) ==
    (IF "compartment" \in ids THEN MetricSources \cup {"instances", "alarms"} ELSE {})
      \cup (IF "nlb" \in ids THEN {"ingress"} ELSE {})
      \cup (IF {"namespace", "bucket"} \subseteq ids THEN {"backups"} ELSE {})

By(s) == IF config.kubernetes /\ s \in KubernetesServes THEN "kubernetes"
         ELSE IF s \in OciServes(config.ids) THEN "oci" ELSE "nobody"

Init ==
    /\ config \in Configs
    /\ nodes \in [Nodes -> NodeStates]
    /\ bucket \in SUBSET Objects
    /\ past = {[nodes |-> nodes, bucket |-> bucket]}
    /\ call = [s \in Sources |-> [pc |-> "start", got |-> <<>>]]
    /\ res = [s \in AllSources |-> Zero(s)]
    /\ ok = {} /\ warned = {}
    /\ answered = [s \in Sources |-> <<>>]
    /\ changes = 0
    /\ snap = Nothing

-----------------------------------------------------------------------------
Going(s, by, pc) == By(s) = by /\ call[s].pc = pc

Proceed(s, pc, got) == call' = [call EXCEPT ![s] = [pc |-> pc, got |-> got]]

\* succeed, after the value is stored.
Succeed(s, value) ==
    /\ Proceed(s, "done", <<>>)
    /\ res' = [res EXCEPT ![s] = value]
    /\ ok' = ok \cup {s}
    /\ UNCHANGED warned

\* Mutant of Fail: the goroutine does not return after it.
FailFallsThrough(s) ==
    /\ Proceed(s, "done", <<>>)
    /\ warned' = warned \cup {s} /\ ok' = ok \cup {s}
    /\ UNCHANGED res

Fail(s) ==
    /\ Proceed(s, "done", <<>>)
    /\ warned' = warned \cup {s}
    /\ UNCHANGED <<res, ok>>

\* Nobody serves the read: a nil source, or the stub for an unserved Capability.
NoSource(s) ==
    /\ Going(s, "nobody", "start")
    /\ Fail(s)
    /\ UNCHANGED <<config, world, answered, snap>>

\* The call's deadline passes, or the Substrate fails under it; but once Oracle
\* has listed the instances, no failure is returned any more.
CallFails(s) ==
    /\ By(s) # "nobody"
    /\ call[s].pc \in (IF s = "instances" THEN {"start"} ELSE {"start", "second"})
    /\ Fail(s)
    /\ UNCHANGED <<config, world, answered, snap>>

(***************************************************************************)
(* The Kubernetes Provider.                                                *)
(***************************************************************************)
Here == {n \in Nodes : nodes[n].here}

Machine(n, state, ip) ==
    [name |-> n, state |-> state, ip |-> ip, ocpus |-> nodes[n].cap, ampere |-> n \in Ampere]

\* Instances and instanceFromNode.
KubernetesInstances ==
    /\ Going("instances", "kubernetes", "start")
    /\ Succeed("instances",
               {Machine(n, IF nodes[n].ready THEN "RUNNING" ELSE "NOT_READY", "ip") : n \in Here})
    /\ UNCHANGED <<config, world, answered, snap>>

\* Metric: a metric a cluster has no equivalent of, or no metrics-server, is no
\* series and no failure; otherwise usage is read first.
KubernetesUsage(s) ==
    /\ s \in MetricSources /\ Going(s, "kubernetes", "start")
    /\ \/ Succeed(s, <<>>)
       \/ /\ s \in {"cpu-metrics", "memory-metrics"}
          /\ Proceed(s, "second", [n \in Here |-> nodes[n].used])
          /\ UNCHANGED <<res, ok, warned>>
    /\ UNCHANGED <<config, world, answered, snap>>

Percent(used, total) == (used * 100) \div total

\* Mutant of UsageSeries: a machine without a capacity uses nothing of it.
UsageSeriesZero(usage) ==
    LET known == SetToSeq({n \in DOMAIN usage : nodes[n].here})
    IN [i \in DOMAIN known |->
          [key |-> known[i], at |-> 0,
           value |-> IF nodes[known[i]].cap = 0 THEN 0
                     ELSE Percent(usage[known[i]], nodes[known[i]].cap)]]

\* Usage against capacity, of the machines that are there and have one.
UsageSeries(usage) ==
    LET known == SetToSeq({n \in DOMAIN usage : nodes[n].here /\ nodes[n].cap > 0})
    IN [i \in DOMAIN known |->
          [key |-> known[i], at |-> 0, value |-> Percent(usage[known[i]], nodes[known[i]].cap)]]

\* Then the nodes are listed, which may have changed.
KubernetesCapacity(s) ==
    /\ s \in MetricSources /\ Going(s, "kubernetes", "second")
    /\ Succeed(s, UsageSeries(call[s].got))
    /\ UNCHANGED <<config, world, answered, snap>>

\* IngressAddress: no controller, or one without an address, is the empty string.
KubernetesIngress ==
    /\ Going("ingress", "kubernetes", "start")
    /\ \E address \in {"", "address"} : Succeed("ingress", address)
    /\ UNCHANGED <<config, world, answered, snap>>

(***************************************************************************)
(* The Oracle Cloud sources.                                               *)
(***************************************************************************)
\* ListInstances: every page of what is not terminated.  The pages are read here
\* as if the machines did not change between two of them.
OciInstances ==
    /\ Going("instances", "oci", "start")
    /\ Proceed("instances", "second",
               {Machine(n, IF nodes[n].ready THEN "RUNNING" ELSE "STOPPED", "") : n \in Here})
    /\ UNCHANGED <<config, world, res, ok, warned, answered, snap>>

\* attachPrivateIPs: the lookups that fail leave the address empty.
OciAddresses ==
    /\ Going("instances", "oci", "second")
    /\ \E found \in SUBSET Nodes :
         Succeed("instances", {[i EXCEPT !.ip = IF i.name \in found THEN "ip" ELSE ""] :
                                 i \in call["instances"].got})
    /\ UNCHANGED <<config, world, answered, snap>>

\* QueryMetric.
OciMetric(s) ==
    /\ s \in MetricSources /\ Going(s, "oci", "start")
    /\ \E items \in Samples :
         /\ answered' = [answered EXCEPT ![s] = items]
         /\ Succeed(s, OciSeries(items))
    /\ UNCHANGED <<config, world, snap>>

OciAlarms ==
    /\ Going("alarms", "oci", "start")
    /\ \E firing \in BOOLEAN : Succeed("alarms", IF firing THEN {"FIRING"} ELSE {"OK"})
    /\ UNCHANGED <<config, world, answered, snap>>

\* IngressPublicIP: the first public address; to have none is an error here.
OciIngress ==
    /\ Going("ingress", "oci", "start")
    /\ Succeed("ingress", "address") \/ Fail("ingress")
    /\ UNCHANGED <<config, world, answered, snap>>

\* The external listing: the first Limit objects from start on, and the key to
\* go on from.  Their order within a page makes no difference to the summary.
Page(start) ==
    LET rest == {o \in bucket : o.key >= start}
        first == {o \in rest : Cardinality({p \in rest : p.key < o.key}) < Limit}
    IN [objects |-> SetToSeq(first),
        next |-> IF rest = first THEN 0 ELSE Min({o.key : o \in rest \ first})]

\* Mutant of ListObjects: the walk goes on behind the key it is to start with.
ListObjectsSkips ==
    /\ By("backups") = "oci" /\ call["backups"].pc \in {"start", "second"}
    /\ LET walk == call["backups"]
           page == Page(IF walk.pc = "start" THEN 1 ELSE walk.got.start + 1)
           out == IF walk.pc = "start" THEN page.objects ELSE walk.got.out \o page.objects
       IN IF page.next = 0 THEN Succeed("backups", out)
          ELSE /\ Proceed("backups", "second", [start |-> page.next, out |-> out])
               /\ UNCHANGED <<res, ok, warned>>
    /\ UNCHANGED <<config, world, answered, snap>>

\* ListObjects: one page of the walk.
ListObjects ==
    /\ By("backups") = "oci" /\ call["backups"].pc \in {"start", "second"}
    /\ LET walk == call["backups"]
           page == Page(IF walk.pc = "start" THEN 1 ELSE walk.got.start)
           out == IF walk.pc = "start" THEN page.objects ELSE walk.got.out \o page.objects
       IN IF page.next = 0 THEN Succeed("backups", out)
          ELSE /\ Proceed("backups", "second", [start |-> page.next, out |-> out])
               /\ UNCHANGED <<res, ok, warned>>
    /\ UNCHANGED <<config, world, answered, snap>>

-----------------------------------------------------------------------------
\* Collect returns once every call has.
Assemble ==
    /\ snap = Nothing
    /\ \A s \in Sources : call[s].pc = "done"
    /\ snap' = assemble(res, ok, warned)
    /\ UNCHANGED <<config, world, call, res, ok, warned, answered>>

\* The Substrate changes while the collection runs.
WorldChanges ==
    /\ snap = Nothing /\ changes < MaxChanges
    /\ \/ /\ \E n \in Nodes, state \in NodeStates : nodes' = [nodes EXCEPT ![n] = state]
          /\ UNCHANGED bucket
       \/ /\ \E o \in Objects : bucket' = IF o \in bucket THEN bucket \ {o} ELSE bucket \cup {o}
          /\ UNCHANGED nodes
    /\ past' = past \cup {[nodes |-> nodes', bucket |-> bucket']}
    /\ changes' = changes + 1
    /\ UNCHANGED <<config, call, res, ok, warned, answered, snap>>

\* The calls that read one Capability.
Reads ==
    \/ "instances" \in Sources /\ (KubernetesInstances \/ OciInstances \/ OciAddresses)
    \/ \E s \in Sources : KubernetesUsage(s) \/ KubernetesCapacity(s) \/ OciMetric(s)
    \/ "ingress" \in Sources /\ (KubernetesIngress \/ OciIngress)
    \/ "alarms" \in Sources /\ OciAlarms
    \/ "backups" \in Sources /\ ListObjects

Next ==
    \/ Reads \/ Assemble \/ WorldChanges
    \/ \E s \in Sources : NoSource(s) \/ CallFails(s)

Spec == Init /\ [][Next]_vars

-----------------------------------------------------------------------------
\* A read is answered or warned of, never both.
TypeOK ==
    /\ nodes \in [Nodes -> NodeStates]
    /\ bucket \subseteq Objects
    /\ [nodes |-> nodes, bucket |-> bucket] \in past
    /\ \A s \in Sources : call[s].pc \in {"start", "second", "done"}
    /\ ok \cup warned \subseteq Sources /\ ok \cap warned = {}
    /\ changes \in 0..MaxChanges

Done == snap # Nothing

\* "A missing metric must not arrive at the UI as a confident zero": a partial
\* snapshot explains its own gaps.  What no read returned is null and its source
\* is named; a null whose source is not named is a metric the source had no
\* value of.
GapsAreNamed ==
    Done =>
      /\ snap.warnings = Sources \ ok
      /\ "instances" \in Sources => (snap.ocpuUsed = Null <=> "instances" \in snap.warnings)
      /\ "backups" \in Sources => (snap.backups.count = Null <=> "backups" \in snap.warnings)
      /\ snap.storageUsed = snap.backups.size
      /\ snap.healthy # Null => res["healthy-backends"] # <<>> /\ "healthy-backends" \notin snap.warnings
      /\ \A node \in snap.nodes : node.cpu # Null => "cpu-metrics" \notin snap.warnings

\* Although usage and capacity are read one after the other, and the machines at
\* another time still: every machine shown was there, and a utilisation shown
\* is some usage of that machine against some capacity it had.
ShownWasMeasured ==
    Done /\ config.kubernetes =>
      /\ "instances" \in ok => \E w \in past : {n.name : n \in snap.nodes} = {n \in Nodes : w.nodes[n].here}
      /\ \A node \in snap.nodes :
           node.cpu # Null =>
             \E v, w \in past :
               /\ v.nodes[node.name].here /\ w.nodes[node.name].here /\ w.nodes[node.name].cap > 0
               /\ node.cpu = Percent(v.nodes[node.name].used, w.nodes[node.name].cap)

\* Of all the complete datapoints Oracle answered for a machine, the utilisation
\* shown is one that none is newer than.
NewestIsShown ==
    Done /\ ~config.kubernetes =>
      \A node \in snap.nodes :
        LET items == answered["cpu-metrics"]
            points == UNION {{items[i].points[j] : j \in DOMAIN items[i].points} :
                               i \in {i \in DOMAIN items : items[i].key = node.name}}
            complete == {p \in points : p.value # Null /\ p.at # Null}
        IN IF "cpu-metrics" \in ok /\ complete # {}
           THEN \E p \in complete : p.value = node.cpu /\ \A q \in complete : q.at <= p.at
           ELSE node.cpu = Null

\* "ListObjects walks the whole backup bucket": the bucket may change between two
\* pages, but what was in it all along is counted, in its stream too, and
\* nothing is counted that never was, or twice.
WalkIsComplete ==
    Done /\ "backups" \in ok =>
      LET always == {o \in Objects : \A w \in past : o \in w.bucket}
          ever == {o \in Objects : \E w \in past : o \in w.bucket}
          In(S, p) == {o \in S : o.stream = p}
      IN /\ snap.backups.count \in Cardinality(always)..Cardinality(ever)
         /\ \A p \in BackupPrefixes :
              /\ snap.backups.streams[p].count \in Cardinality(In(always, p))..Cardinality(In(ever, p))
              /\ \A o \in In(always, p) :
                   o.modified > 0 => snap.backups.streams[p].newest >= o.modified
=============================================================================
