----------------------------- MODULE Detection ------------------------------
(***************************************************************************)
(* Revenue detection: detect (backend/detection/engine.py) finds the hours *)
(* in which a payment method fails far more often than normally and merges *)
(* neighbours into outages; scan_and_persist (detection/repository.py)     *)
(* keeps one incident row for each, scan after scan, while payments arrive *)
(* and failed ones are captured.                                           *)
(*                                                                         *)
(* A window is a method and an hour.  Of its payments only the numbers     *)
(* matter: how many there are and how many of them failed.  Every payment  *)
(* has the same amount, so that the revenue at risk is the failures.       *)
(***************************************************************************)
EXTENDS Integers, Sequences, FiniteSets, Sums

CONSTANTS
  Methods,
  LastHour,           \* hours are 0 .. LastHour
  MinFailures,        \* DetectionConfig.min_failures
  MinVolume,          \* min_volume
  MinRate,            \* min_absolute_rate, <<numerator, denominator>>
  MinMultiple,        \* min_multiple
  LostTies,           \* rates <<f, t, bf, bt>> at exactly min_multiple times the
                      \* baseline that floating point puts below it
  InitialCounts,      \* what the payments table may hold at first
  MaxChanges,         \* bound: payments that arrive or are captured later
  None

Hours == 0 .. LastHour
Windows == Methods \X Hours
Counts == [failed : Nat, total : Nat]

ASSUME ThresholdsAssumption ==
  /\ LastHour \in Nat
  /\ MinFailures \in Nat /\ MinVolume \in Nat \ {0} /\ MinMultiple \in Nat
  /\ MinRate \in Nat \X (Nat \ {0}) /\ MinRate[1] <= MinRate[2]

\* A lost tie is one, and its rounding depends on the rates alone: n / n is 1
\* for every n.
ASSUME TiesAssumption ==
  /\ LostTies \subseteq Nat \X (Nat \ {0}) \X Nat \X (Nat \ {0})
  /\ \A x \in LostTies :
       /\ x[1] * x[4] = MinMultiple * x[3] * x[2]
       /\ x[1] = x[2] /\ x[1] > 1 => <<x[1] - 1, x[2] - 1, x[3], x[4]>> \in LostTies

ASSUME CountsAssumption ==
  /\ InitialCounts \subseteq [Windows -> Counts]
  /\ \A c \in InitialCounts : \A w \in Windows : c[w].failed <= c[w].total

ASSUME DetectionBounds == IsFiniteSet(Methods) /\ MaxChanges \in Nat

Outage == [method : Methods, start : Hours, end : Hours]

ASSUME DetectionNone == None \notin Outage /\ None \notin [Windows -> Counts]

VARIABLES
  count,      \* payments, counted by window
  changes,    \* how many changed since the start
  pc,         \* next statement of the scan
  loaded,     \* the payments it read
  flagged,    \* the anomalous windows
  left,       \* flagged windows not merged yet
  group,      \* the outage being merged
  incidents,  \* the outages found
  todo,       \* those of them not persisted yet
  rows,       \* revenue_incidents, by id
  scanned     \* the payments of the last scan that ended

scanVars == <<pc, loaded, flagged, left, group, incidents, todo>>
vars == <<count, changes, scanVars, rows, scanned>>

TypeOK ==
  /\ count \in [Windows -> Counts]
  /\ changes \in 0 .. MaxChanges
  /\ pc \in {"idle", "merge", "persist"}
  /\ loaded \in [Windows -> Counts] \cup {None}
  /\ pc # "idle" => loaded # None
  /\ flagged \subseteq Windows
  /\ left \subseteq Windows
  /\ group \in Outage \cup {None}
  /\ incidents \subseteq Outage
  /\ todo \subseteq incidents
  /\ scanned \in [Windows -> Counts] \cup {None}

-----------------------------------------------------------------------------
(* detect: which windows are anomalous.                                    *)

\* The rate of a window is at least num/den.
RateAtLeast(c, num, den) == c.failed * den >= num * c.total

\* Pass 1: enough payments, and an anomalous absolute rate.
Suspect(c) ==
  {w \in Windows : c[w].total >= MinVolume /\ RateAtLeast(c[w], MinRate[1], MinRate[2])}

SumOf(f) == Total(f, DOMAIN f)

\* One pass only: the baseline is drawn from every window of the method.
MutantNormal(c, m) == {w \in Windows : w[1] = m}

\* The windows of a method that its baseline is drawn from.
Normal(c, m) == {w \in Windows : w[1] = m} \ Suspect(c)

\* Pass 2: the pooled rate of the windows pass 1 did not flag.
Baseline(c, m) ==
  [failed |-> SumOf([w \in Normal(c, m) |-> c[w].failed]),
   total |-> SumOf([w \in Normal(c, m) |-> c[w].total])]

\* A product of floats may exceed a rate that it equals.
FarAbove(c, base) ==
  /\ c.failed * base.total >= MinMultiple * base.failed * c.total
  /\ <<c.failed, c.total, base.failed, base.total>> \notin LostTies

AboveBaseline(c, base) == base.failed > 0 => FarAbove(c, base)

Flagged(c) ==
  {w \in Suspect(c) : c[w].failed >= MinFailures /\ AboveBaseline(c[w], Baseline(c, w[1]))}

-----------------------------------------------------------------------------
Init ==
  /\ count \in InitialCounts
  /\ changes = 0
  /\ pc = "idle"
  /\ loaded = None
  /\ flagged = {}
  /\ left = {}
  /\ group = None
  /\ incidents = {} /\ todo = {}
  /\ rows = <<>>
  /\ scanned = None

\* load_payments, and both passes of detect.
Load ==
  /\ pc = "idle"
  /\ loaded' = count
  /\ flagged' = Flagged(count)
  /\ left' = flagged'
  /\ group' = None
  /\ incidents' = {} /\ todo' = {}
  /\ pc' = "merge"
  /\ UNCHANGED <<count, changes, rows, scanned>>

OfMethod(m) == {w \in left : w[1] = m}

\* The hours of a method are merged in their order, one method after another.
Earliest(w) ==
  /\ w \in left
  /\ \A v \in OfMethod(w[1]) : w[2] <= v[2]

Begin(w) == [method |-> w[1], start |-> w[2], end |-> w[2]]

\* The next hour begins a group of its own.
MutantAdjacent(w) == w[2] - group.end < 1

\* The next hour is not more than an hour after the last one.
Adjacent(w) == w[2] - group.end <= 1

\* The loop over the windows of a method: it ends a group before a gap.
MergeWindow(w) ==
  /\ pc = "merge" /\ Earliest(w)
  /\ \/ /\ group = None
        /\ group' = Begin(w)
        /\ UNCHANGED incidents
     \/ /\ group # None /\ group.method = w[1] /\ Adjacent(w)
        /\ group' = [group EXCEPT !.end = w[2]]
        /\ UNCHANGED incidents
     \/ /\ group # None /\ group.method = w[1] /\ ~Adjacent(w)
        /\ group' = Begin(w)
        /\ incidents' = incidents \cup {group}
  /\ left' = left \ {w}
  /\ UNCHANGED <<count, changes, pc, loaded, flagged, todo, rows, scanned>>

\* The flush after the loop.
FlushMethod ==
  /\ pc = "merge" /\ group # None /\ OfMethod(group.method) = {}
  /\ incidents' = incidents \cup {group}
  /\ group' = None
  /\ UNCHANGED <<count, changes, pc, loaded, flagged, left, todo, rows, scanned>>

MergeDone ==
  /\ pc = "merge" /\ group = None /\ left = {}
  /\ pc' = "persist"
  /\ todo' = incidents
  /\ UNCHANGED <<count, changes, loaded, flagged, left, group, incidents, rows, scanned>>

-----------------------------------------------------------------------------
(* scan_and_persist.                                                       *)

WindowsOf(o) == {<<o.method, h>> : h \in o.start .. o.end}

\* affected_count and, amounts being equal, revenue_at_risk_minor.
FailuresIn(o, c) == SumOf([w \in WindowsOf(o) |-> c[w].failed])

Failures(o) == FailuresIn(o, loaded)

\* The row is looked up by the end of the outage.
MutantExisting(o) == {n \in DOMAIN rows : rows[n].method = o.method /\ rows[n].start = o.end}

\* Identity is the merchant, the method (by its title) and window_start.
Existing(o) == {n \in DOMAIN rows : rows[n].method = o.method /\ rows[n].start = o.start}

\* The figures of an existing row are left as they were.
MutantRefresh(o) == rows' = rows

Refresh(o) ==
  rows' = [n \in DOMAIN rows |->
    IF n = Min(Existing(o)) THEN [rows[n] EXCEPT !.affected = Failures(o)] ELSE rows[n]]

Insert(o) ==
  rows' = Append(rows, [method |-> o.method, start |-> o.start, affected |-> Failures(o)])

\* persist_incident, the largest revenue at risk first.
PersistIncident(o) ==
  /\ pc = "persist"
  /\ o \in todo /\ \A p \in todo : Failures(p) <= Failures(o)
  /\ IF Existing(o) # {} THEN Refresh(o) ELSE Insert(o)
  /\ todo' = todo \ {o}
  /\ UNCHANGED <<count, changes, pc, loaded, flagged, left, group, incidents, scanned>>

ScanDone ==
  /\ pc = "persist" /\ todo = {}
  /\ pc' = "idle"
  /\ scanned' = loaded
  /\ UNCHANGED <<count, changes, loaded, flagged, left, group, incidents, todo, rows>>

\* Every row is committed by itself.
Crash ==
  /\ pc # "idle"
  /\ pc' = "idle"
  /\ loaded' = None
  /\ flagged' = {} /\ left' = {} /\ group' = None /\ incidents' = {} /\ todo' = {}
  /\ UNCHANGED <<count, changes, rows, scanned>>

-----------------------------------------------------------------------------
(* What happens to the payments meanwhile.                                 *)

Change(w, failed, total) ==
  /\ changes < MaxChanges
  /\ changes' = changes + 1
  /\ count' = [count EXCEPT ![w] = [failed |-> @.failed + failed, total |-> @.total + total]]
  /\ UNCHANGED <<scanVars, rows, scanned>>

PaymentFails(w) == Change(w, 1, 1)

PaymentSucceeds(w) == Change(w, 0, 1)

\* A failed payment is recovered, or captured late.
PaymentCaptured(w) == count[w].failed > 0 /\ Change(w, -1, 0)

Next ==
  \/ Load \/ FlushMethod \/ MergeDone \/ ScanDone \/ Crash
  \/ \E w \in Windows : MergeWindow(w)
  \/ \E o \in todo : PersistIncident(o)
  \/ \E w \in Windows : PaymentFails(w) \/ PaymentSucceeds(w) \/ PaymentCaptured(w)

Spec == Init /\ [][Next]_vars

-----------------------------------------------------------------------------
(* Properties.                                                             *)

\* A maximal interval of flagged hours.
IsOutage(o, F) ==
  /\ o.start <= o.end
  /\ \A h \in o.start .. o.end : <<o.method, h>> \in F
  /\ <<o.method, o.start - 1>> \notin F
  /\ <<o.method, o.end + 1>> \notin F

Outages(F) == {o \in Outage : IsOutage(o, F)}

\* A scan finds every outage once and whole: an incident is a maximal interval
\* of flagged hours, so none is reported in pieces, none twice, and no two
\* incidents share a payment or touch ("a three-hour outage is one incident to
\* act on, not three", engine.py).
IncidentsAreOutages == pc = "persist" => incidents = Outages(flagged)

OneMoreFailure(c, w) == [c EXCEPT ![w] = [failed |-> @.failed + 1, total |-> @.total + 1]]

\* An anomaly does not hide itself: one more failure in a flagged hour leaves it
\* and every other flagged hour flagged, because it is not part of the baseline
\* it is compared with (the two passes of engine.py).
MoreFailuresHideNothing ==
  pc = "idle" => \A w \in Flagged(count) : Flagged(count) \subseteq Flagged(OneMoreFailure(count, w))

\* A scan of payments that have not changed since the last complete scan
\* writes nothing new ("re-running detection must not create duplicate
\* incidents", repository.py).
RescanChangesNothing == [][loaded = scanned => rows' = rows]_vars

\* After a complete scan each outage has one row, with its present figures,
\* whatever scans were cut off before and whatever changed between them
\* ("a re-scan refreshes the figures on the existing incident", repository.py).
RowsAreCurrent ==
  pc = "idle" /\ loaded # None =>
    \A o \in incidents :
      /\ Cardinality(Existing(o)) = 1
      /\ \A n \in Existing(o) : rows[n].affected = Failures(o)

-----------------------------------------------------------------------------
(* Why the incidents are outages: where the merging stands.                *)

Within(w, o) == w[1] = o.method /\ w[2] \in o.start .. o.end

\* Nothing flagged is lost: a window waits, is in the group or in an incident.
NothingIsLost(F) ==
  \A w \in F :
    \/ w \in left
    \/ group # None /\ Within(w, group)
    \/ \E o \in incidents : Within(w, o)

\* An incident is whole, and nothing of it waits.
IncidentsAreWhole(F) ==
  \A o \in incidents : IsOutage(o, F) /\ \A w \in left : ~Within(w, o)

\* The group begins an outage, and its method goes on after it.
GroupIsBegun(F) ==
  group # None =>
    /\ group.start <= group.end
    /\ \A h \in group.start .. group.end : <<group.method, h>> \in F
    /\ <<group.method, group.start - 1>> \notin F
    /\ \A w \in left : w[1] = group.method => group.end < w[2]
    /\ \A o \in incidents, h \in group.start .. group.end : ~Within(<<group.method, h>>, o)

MergesRight(F) ==
  left \subseteq F /\ NothingIsLost(F) /\ IncidentsAreWhole(F) /\ GroupIsBegun(F)

-----------------------------------------------------------------------------
(* Why the rows are current: an outage has one row, and payments never     *)
(* come back to what they were.                                            *)

RowsAreDistinct ==
  \A i, j \in DOMAIN rows :
    rows[i].method = rows[j].method /\ rows[i].start = rows[j].start => i = j

\* Payments are only added, and failed ones only captured.
NotAfter(c, d) ==
  \A w \in Windows :
    \/ c[w].total < d[w].total
    \/ c[w].total = d[w].total /\ d[w].failed <= c[w].failed

ScansAreOrdered ==
  /\ scanned # None => NotAfter(scanned, count)
  /\ loaded # None => NotAfter(loaded, count)
  /\ scanned # None /\ loaded # None => NotAfter(scanned, loaded)

Recorded(o, c) == \E n \in Existing(o) : rows[n].affected = FailuresIn(o, c)

\* What is persisted stays so while the payments may still be those of the scan.
ScansAreRecorded ==
  /\ pc = "idle" => todo = {}
  /\ pc # "idle" => flagged = Flagged(loaded)
  /\ pc # "merge" /\ loaded # None => \A o \in incidents \ todo : Recorded(o, loaded)
  /\ scanned # None /\ scanned \in {count, loaded} =>
       \A o \in Outages(Flagged(scanned)) : Recorded(o, scanned)

Inductive ==
  /\ TypeOK
  /\ pc = "merge" => MergesRight(flagged)
  /\ IncidentsAreOutages
  /\ RowsAreDistinct
  /\ ScansAreOrdered
  /\ ScansAreRecorded
=============================================================================
