--------------------------- MODULE InfraSnapshot ----------------------------
(***************************************************************************)
(* How the collector turns what its nine reads returned into the snapshot  *)
(* of /v1/infra (internal/infra: assemble and its helpers), and the Oracle *)
(* side's reduction of a metric's datapoints to one series.                *)
(*                                                                         *)
(* A number is a natural; null is Null.  A backend count is in halves, so  *)
(* that rounding shows.  A list whose order the code only sorts for the    *)
(* screen is a set.                                                        *)
(***************************************************************************)
EXTENDS Integers, Sequences, SequencesExt, FiniteSets, FiniteSetsExt

Null == -1

MetricSources == {"cpu-metrics", "memory-metrics", "healthy-backends",
                  "unhealthy-backends", "uptime-metrics"}
AllSources == MetricSources \cup {"instances", "alarms", "ingress", "backups"}

\* The streams of DefaultConfig's BackupPrefixes.
BackupPrefixes == {"sqlite", "gitops", "coordinator"}

-----------------------------------------------------------------------------
\* newestDatapoint: incomplete points are passed over, the first of the newest
\* wins; <<>> if there is none.
newestDatapoint(points) ==
    FoldLeft(LAMBDA best, p :
               IF \/ p.value = Null \/ p.at = Null
                  \/ (best # <<>> /\ p.at <= best[1].at)
               THEN best ELSE <<p>>,
             <<>>, points)

\* The loop of QueryMetric over the items Oracle answered; key is the dimension
\* the contract names, "" if the item does not carry it.
OciSeries(items) ==
    FoldLeft(LAMBDA series, i :
               LET latest == newestDatapoint(i.points)
               IN IF latest = <<>> THEN series
                  ELSE Append(series, [key |-> i.key, at |-> latest[1].at,
                                       value |-> latest[1].value]),
             <<>>, items)

Stored(out, s) == [k \in DOMAIN out \cup {s.key} |-> IF k = s.key THEN s ELSE out[k]]

\* Mutant of latestByDimension: the last series of a node wins.
latestByDimensionLast(series) ==
    FoldLeft(LAMBDA out, s : IF s.key = "" THEN out ELSE Stored(out, s), <<>>, series)

\* latestByDimension, and summariseUptime's newest: what has no key is passed
\* over, a later series replaces one only if it is newer.
latestByDimension(series) ==
    FoldLeft(LAMBDA out, s :
               IF s.key = "" \/ (s.key \in DOMAIN out /\ s.at <= out[s.key].at)
               THEN out ELSE Stored(out, s),
             <<>>, series)

ValueOf(out, key) == IF key \in DOMAIN out THEN out[key].value ELSE Null

maxAcrossSeries(series) ==
    IF series = <<>> THEN Null
    ELSE (Max({series[i].value : i \in DOMAIN series}) + 1) \div 2

summariseUptime(series) ==
    LET out == latestByDimension(series)
    IN {[monitor |-> k, availability |-> out[k].value] : k \in DOMAIN out}

\* summariseBackups: the zero time is no modification time.
summariseBackups(objects) ==
    LET In(p) == {i \in DOMAIN objects : objects[i].stream = p}
        Times(p) == {objects[i].modified : i \in In(p)} \ {0}
    IN [count |-> Len(objects),
        size |-> FoldLeft(LAMBDA sum, o : sum + o.size, 0, objects),
        streams |-> [p \in BackupPrefixes |->
                       [count |-> Cardinality(In(p)),
                        newest |-> IF Times(p) = {} THEN Null ELSE Max(Times(p))]]]

\* The sum over the machines whose shape isAmpere.
ampereOCPU(machines) ==
    MapThenSumSet(LAMBDA i : IF i.ampere THEN i.ocpus ELSE 0, machines)

NoBackups == [count |-> Null, size |-> Null, streams |-> <<>>]

-----------------------------------------------------------------------------
\* Mutant of assemble: a read that failed is taken for one that found nothing.
assembleIgnoringOk(res, ok, warnings) ==
    [nodes |-> {[name |-> i.name, state |-> i.state, ip |-> i.ip,
                 cpu |-> ValueOf(latestByDimension(res["cpu-metrics"]), i.name),
                 memory |-> ValueOf(latestByDimension(res["memory-metrics"]), i.name)] :
                 i \in res["instances"]},
     ocpuUsed |-> ampereOCPU(res["instances"]),
     alarms |-> res["alarms"],
     publicIP |-> res["ingress"],
     healthy |-> maxAcrossSeries(res["healthy-backends"]),
     unhealthy |-> maxAcrossSeries(res["unhealthy-backends"]),
     backups |-> summariseBackups(res["backups"]),
     storageUsed |-> summariseBackups(res["backups"]).size,
     uptime |-> summariseUptime(res["uptime-metrics"]),
     warnings |-> warnings]

\* assemble: ok holds the sources that answered.
assemble(res, ok, warnings) ==
    LET Known(s, value) == IF s \in ok THEN value ELSE Null
        byNode(s, name) == Known(s, ValueOf(latestByDimension(res[s]), name))
        backups == IF "backups" \in ok THEN summariseBackups(res["backups"]) ELSE NoBackups
    IN [nodes |-> {[name |-> i.name, state |-> i.state, ip |-> i.ip,
                    cpu |-> byNode("cpu-metrics", i.name),
                    memory |-> byNode("memory-metrics", i.name)] : i \in res["instances"]},
        ocpuUsed |-> Known("instances", ampereOCPU(res["instances"])),
        alarms |-> res["alarms"],
        publicIP |-> res["ingress"],
        healthy |-> Known("healthy-backends", maxAcrossSeries(res["healthy-backends"])),
        unhealthy |-> Known("unhealthy-backends", maxAcrossSeries(res["unhealthy-backends"])),
        backups |-> backups,
        storageUsed |-> backups.size,
        uptime |-> IF "uptime-metrics" \in ok THEN summariseUptime(res["uptime-metrics"]) ELSE {},
        warnings |-> warnings]
=============================================================================
