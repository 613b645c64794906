-------------------------- MODULE DetectionProofs ---------------------------
(***************************************************************************)
(* The incidents of a scan are the outages, whatever the payments, the     *)
(* thresholds, the methods and the hours: most of the proof is about how   *)
(* detect merges the flagged windows and how their rows are kept, its last *)
(* part about which windows are flagged.                                   *)
(***************************************************************************)
EXTENDS Detection, SequenceTheorems, SumProofs

(* The flagged windows of any payments are windows.                        *)
LEMMA FlaggedAreWindows ==
  ASSUME NEW c
  PROVE  Flagged(c) \subseteq Windows
BY DEF Flagged, Suspect

(* The types of a scan.                                                    *)
LEMMA OutageShape ==
  ASSUME NEW o \in Outage
  PROVE  /\ o.method \in Methods
         /\ o.start \in Int /\ o.end \in Int
         /\ o = [method |-> o.method, start |-> o.start, end |-> o.end]
BY ThresholdsAssumption DEF Outage, Hours

LEMMA WindowShape ==
  ASSUME NEW w \in Windows
  PROVE  w[1] \in Methods /\ w[2] \in Hours /\ w[2] \in Int /\ w = <<w[1], w[2]>>
BY ThresholdsAssumption DEF Windows, Hours

(* A flagged hour next to, or in, an outage is part of it.                 *)
LEMMA OutageIsClosed ==
  ASSUME NEW F, NEW o \in Outage, IsOutage(o, F), NEW h \in Int,
         <<o.method, h>> \in F, h >= o.start - 1, h <= o.end + 1
  PROVE  Within(<<o.method, h>>, o)
<1>1. h # o.start - 1 /\ h # o.end + 1
  BY DEF IsOutage
<1>2. h \in o.start .. o.end
  BY <1>1, OutageShape
<1> QED
  BY <1>2 DEF Within

(* Two outages that share an hour are one.                                 *)
LEMMA OutagesAreApart ==
  ASSUME NEW F, NEW o \in Outage, NEW p \in Outage, IsOutage(o, F), IsOutage(p, F),
         Within(<<p.method, p.start>>, o)
  PROVE  o = p
<1>1. /\ o.method = p.method
      /\ o.start \in Int /\ o.end \in Int /\ p.start \in Int /\ p.end \in Int
      /\ o.start <= p.start /\ p.start <= o.end
      /\ p.start <= p.end /\ o.start <= o.end
  BY OutageShape DEF Within, IsOutage
<1>2. o.start = p.start
  <2> SUFFICES ASSUME o.start < p.start
               PROVE  FALSE
    BY <1>1
  <2>1. p.start - 1 \in o.start .. o.end
    BY <1>1
  <2> QED
    BY <1>1, <2>1 DEF IsOutage
<1>3. o.end = p.end
  <2>1. ASSUME o.end < p.end
        PROVE  FALSE
    <3>1. o.end + 1 \in p.start .. p.end
      BY <1>1, <2>1
    <3> QED
      BY <1>1, <3>1 DEF IsOutage
  <2>2. ASSUME p.end < o.end
        PROVE  FALSE
    <3>1. p.end + 1 \in o.start .. o.end
      BY <1>1, <2>2
    <3> QED
      BY <1>1, <3>1 DEF IsOutage
  <2> QED
    BY <1>1, <2>1, <2>2
<1> QED
  BY <1>1, <1>2, <1>3, OutageShape

-----------------------------------------------------------------------------
(* The merging, one action at a time.                                      *)

(* The hour before the earliest waiting window is not flagged, unless it   *)
(* is the last hour of the group.                                          *)
LEMMA NothingBefore ==
  ASSUME TypeOK, NEW F, MergesRight(F), NEW w, Earliest(w),
         group = None \/ ~Within(<<w[1], w[2] - 1>>, group)
  PROVE  <<w[1], w[2] - 1>> \notin F
<1> SUFFICES ASSUME <<w[1], w[2] - 1>> \in F
             PROVE  FALSE
  OBVIOUS
<1>1. w \in left /\ w \in F /\ w \in Windows
  BY DEF Earliest, MergesRight, TypeOK
<1>2. <<w[1], w[2] - 1>> \notin left
  <2>1. ASSUME <<w[1], w[2] - 1>> \in left
        PROVE  FALSE
    <3>1. w[2] <= w[2] - 1
      BY <2>1 DEF Earliest, OfMethod
    <3> QED
      BY <1>1, <3>1, WindowShape
  <2> QED
    BY <2>1
<1>3. PICK o \in incidents : Within(<<w[1], w[2] - 1>>, o)
  BY <1>2 DEF MergesRight, NothingIsLost
<1>4. o \in Outage /\ IsOutage(o, F) /\ ~Within(w, o)
  BY <1>1, <1>3 DEF MergesRight, IncidentsAreWhole, TypeOK
<1>5. o.method = w[1] /\ w[2] - 1 >= o.start /\ w[2] - 1 <= o.end
  BY <1>1, <1>3, <1>4, WindowShape, OutageShape DEF Within
<1>6. w[2] >= o.start - 1 /\ w[2] <= o.end + 1 /\ w[2] \in Int
  BY <1>1, <1>4, <1>5, WindowShape, OutageShape
<1>7. <<o.method, w[2]>> = w
  BY <1>1, <1>5, WindowShape
<1> QED
  BY <1>1, <1>4, <1>6, <1>7, OutageIsClosed

(* A group that nothing flagged follows is an outage.                      *)
LEMMA GroupIsOutage ==
  ASSUME TypeOK, NEW F, MergesRight(F), group # None,
         <<group.method, group.end + 1>> \notin left
  PROVE  IsOutage(group, F)
<1>1. group \in Outage
  BY DEF TypeOK
<1>2. <<group.method, group.end + 1>> \notin F
  <2> SUFFICES ASSUME <<group.method, group.end + 1>> \in F
               PROVE  FALSE
    OBVIOUS
  <2>1. ~Within(<<group.method, group.end + 1>>, group)
    BY <1>1, OutageShape DEF Within
  <2>2. PICK o \in incidents : Within(<<group.method, group.end + 1>>, o)
    BY <2>1 DEF MergesRight, NothingIsLost
  <2>3. o \in Outage /\ IsOutage(o, F) /\ o.method = group.method
    BY <2>2 DEF MergesRight, IncidentsAreWhole, TypeOK, Within
  <2>4. group.end \in Int /\ group.end >= o.start - 1 /\ group.end <= o.end + 1
    BY <1>1, <2>2, <2>3, OutageShape DEF Within
  <2>5. group.end \in group.start .. group.end /\ <<o.method, group.end>> \in F
    BY <1>1, <2>3, OutageShape DEF MergesRight, GroupIsBegun
  <2>6. Within(<<o.method, group.end>>, o)
    BY <2>3, <2>4, <2>5, OutageIsClosed
  <2> QED
    BY <2>2, <2>3, <2>5, <2>6 DEF MergesRight, GroupIsBegun
<1> QED
  BY <1>2 DEF MergesRight, GroupIsBegun, IsOutage

(* A window is merged.                                                     *)
LEMMA MergeWindowKeeps ==
  ASSUME TypeOK, NEW F, MergesRight(F), NEW w, MergeWindow(w)
  PROVE  MergesRight(F)'
<1>1. w \in left /\ w \in F /\ w \in Windows /\ left' = left \ {w}
  BY DEF MergeWindow, Earliest, MergesRight, TypeOK
<1>2. w[1] \in Methods /\ w[2] \in Hours /\ w[2] \in Int /\ w = <<w[1], w[2]>>
  BY <1>1, WindowShape
<1>3. \A v \in left' : v[1] = w[1] => w[2] < v[2]
  <2> SUFFICES ASSUME NEW v \in left', v[1] = w[1]
               PROVE  w[2] < v[2]
    OBVIOUS
  <2>1. v \in left /\ v \in Windows /\ v # w
    BY <1>1 DEF TypeOK
  <2>2. w[2] <= v[2] /\ w[2] # v[2]
    BY <1>2, <2>1, WindowShape DEF MergeWindow, Earliest, OfMethod
  <2> QED
    BY <1>2, <2>1, <2>2, WindowShape
<1>4. \A o \in incidents : o \in Outage /\ IsOutage(o, F) /\ ~Within(w, o)
  BY <1>1 DEF MergesRight, IncidentsAreWhole, TypeOK
<1>5. CASE group # None /\ group.method = w[1] /\ Adjacent(w)
  <2>1. group' = [group EXCEPT !.end = w[2]] /\ UNCHANGED incidents
    BY <1>5 DEF MergeWindow
  <2>2. group \in Outage /\ group.end < w[2] /\ group.start <= group.end
    BY <1>1, <1>5 DEF TypeOK, MergesRight, GroupIsBegun
  <2>3. /\ group.method = w[1] /\ group.start \in Int /\ group.end \in Int
        /\ w[2] = group.end + 1
    BY <1>2, <1>5, <2>2, OutageShape DEF Adjacent
  <2>4. /\ group' # None
        /\ group'.method = w[1] /\ group'.start = group.start /\ group'.end = group.end + 1
    BY <1>2, <2>1, <2>2, <2>3, DetectionNone DEF Outage
  <2>5. \A h \in group'.start .. group'.end : h \in group.start .. group.end \/ h = w[2]
    BY <2>3, <2>4
  <2>6. \A v : Within(v, group) => Within(v, group')
    BY <2>3, <2>4 DEF Within
  <2>7. Within(w, group')
    BY <1>2, <2>2, <2>3, <2>4 DEF Within
  <2>8. NothingIsLost(F)'
    BY <1>1, <2>1, <2>4, <2>6, <2>7 DEF MergesRight, NothingIsLost, Within
  <2>9. IncidentsAreWhole(F)'
    BY <1>1, <2>1 DEF MergesRight, IncidentsAreWhole, Within, IsOutage
  <2>10. GroupIsBegun(F)'
    <3>1. group'.start <= group'.end
      BY <2>2, <2>3, <2>4
    <3>2. \A h \in group'.start .. group'.end : <<group'.method, h>> \in F
      BY <1>1, <1>2, <1>5, <2>3, <2>4, <2>5 DEF MergesRight, GroupIsBegun
    <3>3. <<group'.method, group'.start - 1>> \notin F
      BY <1>5, <2>3, <2>4 DEF MergesRight, GroupIsBegun
    <3>4. \A v \in left' : v[1] = group'.method => group'.end < v[2]
      BY <1>3, <1>2, <2>3, <2>4
    <3>5. \A o \in incidents', h \in group'.start .. group'.end : ~Within(<<group'.method, h>>, o)
      BY <1>2, <1>4, <1>5, <2>1, <2>3, <2>4, <2>5 DEF MergesRight, GroupIsBegun
    <3> QED
      BY <3>1, <3>2, <3>3, <3>4, <3>5 DEF GroupIsBegun, Within
  <2> QED
    BY <1>1, <2>8, <2>9, <2>10 DEF MergesRight
<1>6. CASE /\ group' = Begin(w)
           /\ \/ group = None /\ UNCHANGED incidents
              \/ group # None /\ group.method = w[1] /\ ~Adjacent(w) /\ incidents' = incidents \cup {group}
  <2>1. /\ group' # None
        /\ group'.method = w[1] /\ group'.start = w[2] /\ group'.end = w[2]
    <3>1. group' \in Outage
      BY <1>2, <1>6 DEF Begin, Outage
    <3> QED
      BY <1>6, <3>1, DetectionNone DEF Begin
  <2>2. Earliest(w)
    BY DEF MergeWindow
  <2>3. group # None =>
          /\ group \in Outage /\ group.method = w[1] /\ ~Adjacent(w)
          /\ group.end < w[2] /\ group.end + 1 < w[2]
          /\ incidents' = incidents \cup {group}
    <3> SUFFICES ASSUME group # None
                 PROVE  /\ group \in Outage /\ group.method = w[1] /\ ~Adjacent(w)
                        /\ group.end < w[2] /\ group.end + 1 < w[2]
                        /\ incidents' = incidents \cup {group}
      OBVIOUS
    <3>1. group \in Outage /\ group.method = w[1] /\ ~Adjacent(w) /\ incidents' = incidents \cup {group}
      BY <1>6 DEF TypeOK
    <3>2. group.end \in Int
      BY <3>1, OutageShape
    <3> QED
      BY <1>2, <3>1, <3>2 DEF Adjacent
  <2>4. <<w[1], w[2] - 1>> \notin F
    <3>1. group # None => ~Within(<<w[1], w[2] - 1>>, group)
      BY <1>2, <2>3, OutageShape DEF Within
    <3> QED
      BY <2>2, <3>1, NothingBefore
  <2>5. group # None => IsOutage(group, F)
    <3> SUFFICES ASSUME group # None
                 PROVE  IsOutage(group, F)
      OBVIOUS
    <3>1. <<group.method, group.end + 1>> \notin left
      <4> SUFFICES ASSUME <<group.method, group.end + 1>> \in left
                   PROVE  FALSE
        OBVIOUS
      <4>1. w[2] <= group.end + 1
        BY <2>2, <2>3 DEF Earliest, OfMethod
      <4> QED
        BY <1>2, <2>3, <4>1, OutageShape
    <3> QED
      BY <3>1, GroupIsOutage
  <2>6. group # None => ~Within(w, group)
    BY <1>2, <2>3, OutageShape DEF Within
  <2>7. NothingIsLost(F)'
    <3>1. Within(w, group')
      BY <1>2, <2>1 DEF Within
    <3>2. \A o \in incidents : o \in incidents'
      BY <1>6
    <3>3. group # None => group \in incidents'
      BY <1>6
    <3> SUFFICES ASSUME NEW v \in F
                 PROVE  \/ v \in left'
                        \/ group' # None /\ Within(v, group')
                        \/ \E o \in incidents' : Within(v, o)
      BY DEF NothingIsLost, Within
    <3> QED
      BY <1>1, <2>1, <3>1, <3>2, <3>3 DEF MergesRight, NothingIsLost
  <2>8. IncidentsAreWhole(F)'
    <3>1. \A v \in left' : group # None => ~Within(v, group)
      <4> SUFFICES ASSUME NEW v \in left', group # None, Within(v, group)
                   PROVE  FALSE
        OBVIOUS
      <4>1. v \in Windows /\ v[1] = w[1] /\ w[2] < v[2] /\ v[2] \in group.start .. group.end
        BY <1>1, <1>3, <2>3 DEF Within, TypeOK
      <4> QED
        BY <1>2, <2>3, <4>1, WindowShape, OutageShape
    <3>2. \A o \in incidents' : o \in incidents \/ (group # None /\ o = group)
      <4>1. CASE group = None
        BY <1>6, <4>1
      <4>2. CASE group # None
        BY <2>3, <4>2
      <4> QED
        BY <4>1, <4>2
    <3> SUFFICES ASSUME NEW o \in incidents'
                 PROVE  IsOutage(o, F) /\ \A v \in left' : ~Within(v, o)
      BY DEF IncidentsAreWhole, IsOutage, Within
    <3>3. CASE o \in incidents
      BY <1>1, <3>3 DEF MergesRight, IncidentsAreWhole
    <3>4. CASE group # None /\ o = group
      BY <2>5, <3>1, <3>4
    <3> QED
      BY <3>2, <3>3, <3>4
  <2>9. GroupIsBegun(F)'
    <3>1. group'.start .. group'.end = {w[2]}
      BY <1>2, <2>1
    <3>2. \A v \in left' : v[1] = group'.method => group'.end < v[2]
      BY <1>3, <2>1
    <3>3. \A o \in incidents', h \in group'.start .. group'.end : ~Within(<<group'.method, h>>, o)
      BY <1>2, <1>4, <1>6, <2>1, <2>6, <3>1
    <3> QED
      BY <1>1, <1>2, <2>1, <2>4, <3>1, <3>2, <3>3 DEF GroupIsBegun, Within
  <2> QED
    BY <1>1, <2>7, <2>8, <2>9 DEF MergesRight
<1> QED
  BY <1>5, <1>6 DEF MergeWindow

(* The group of a method that has no more windows is an incident.          *)
LEMMA FlushMethodKeeps ==
  ASSUME TypeOK, NEW F, MergesRight(F), FlushMethod
  PROVE  MergesRight(F)'
<1>1. /\ group # None /\ group' = None /\ incidents' = incidents \cup {group}
      /\ left' = left /\ \A w \in left : w[1] # group.method
  BY DEF FlushMethod, OfMethod
<1>2. IsOutage(group, F)
  BY <1>1, GroupIsOutage
<1>3. \A w \in left : ~Within(w, group)
  BY <1>1 DEF Within
<1>4. NothingIsLost(F)'
  BY <1>1 DEF MergesRight, NothingIsLost, Within
<1>5. IncidentsAreWhole(F)'
  BY <1>1, <1>2, <1>3 DEF MergesRight, IncidentsAreWhole, IsOutage, Within
<1>6. GroupIsBegun(F)'
  BY <1>1 DEF GroupIsBegun
<1> QED
  BY <1>1, <1>4, <1>5, <1>6 DEF MergesRight

(* When nothing is left to merge, the incidents are the outages.           *)
LEMMA MergedIsRight ==
  ASSUME TypeOK, NEW F, F \subseteq Windows, MergesRight(F), group = None, left = {}
  PROVE  incidents = Outages(F)
<1>1. incidents \subseteq Outages(F)
  BY DEF MergesRight, IncidentsAreWhole, TypeOK, Outages
<1>2. ASSUME NEW p \in Outages(F)
      PROVE  p \in incidents
  <2>1. p \in Outage /\ IsOutage(p, F)
    BY <1>2 DEF Outages
  <2>2. p.start \in p.start .. p.end
    BY <2>1, OutageShape DEF IsOutage
  <2>3. <<p.method, p.start>> \in F
    BY <2>1, <2>2 DEF IsOutage
  <2>4. PICK o \in incidents : Within(<<p.method, p.start>>, o)
    BY <2>3 DEF MergesRight, NothingIsLost
  <2>5. o \in Outage /\ IsOutage(o, F)
    BY <1>1, <2>4 DEF Outages
  <2> QED
    BY <2>1, <2>4, <2>5, OutagesAreApart
<1> QED
  BY <1>1, <1>2

-----------------------------------------------------------------------------
(* The invariant.                                                          *)

(* A scan keeps its types.                                                 *)
LEMMA StepKeepsTypes ==
  ASSUME TypeOK, [Next]_vars
  PROVE  TypeOK'
<1> USE DEF TypeOK
<1>1. CASE Load
  <2>1. flagged' = Flagged(count) /\ flagged' \subseteq Windows
    BY <1>1, FlaggedAreWindows DEF Load
  <2>2. loaded' \in [Windows -> Counts] /\ loaded' # None
    BY <1>1, DetectionNone DEF Load
  <2> QED
    BY <1>1, <2>1, <2>2 DEF Load
<1>2. CASE FlushMethod
  BY <1>2 DEF FlushMethod
<1>3. CASE MergeDone
  BY <1>3 DEF MergeDone
<1>4. CASE ScanDone
  BY <1>4 DEF ScanDone
<1>5. CASE Crash
  BY <1>5 DEF Crash
<1>6. ASSUME NEW w \in Windows, MergeWindow(w)
      PROVE  TypeOK'
  <2>1. Begin(w) \in Outage
    BY WindowShape DEF Begin, Outage
  <2>2. group # None => [group EXCEPT !.end = w[2]] \in Outage
    BY WindowShape DEF Outage
  <2>3. group' \in Outage /\ incidents' \subseteq Outage /\ todo' \subseteq incidents'
    BY <1>6, <2>1, <2>2 DEF MergeWindow
  <2> QED
    BY <1>6, <2>3 DEF MergeWindow
<1>7. ASSUME NEW o \in todo, PersistIncident(o)
      PROVE  TypeOK'
  BY <1>7 DEF PersistIncident
<1>8. ASSUME NEW w \in Windows, PaymentFails(w) \/ PaymentSucceeds(w) \/ PaymentCaptured(w)
      PROVE  TypeOK'
  <2>1. count[w] \in Counts /\ count[w].failed \in Nat /\ count[w].total \in Nat
    BY <1>8 DEF Counts
  <2>2. changes' \in 0 .. MaxChanges
    BY <1>8, DetectionBounds DEF PaymentFails, PaymentSucceeds, PaymentCaptured, Change
  <2>3. \E c \in Counts : count' = [count EXCEPT ![w] = c]
    <3>1. CASE PaymentFails(w)
      <4>1. [failed |-> count[w].failed + 1, total |-> count[w].total + 1] \in Counts
        BY <2>1 DEF Counts
      <4> QED
        BY <3>1, <4>1 DEF PaymentFails, Change
    <3>2. CASE PaymentSucceeds(w)
      <4>1. [failed |-> count[w].failed + 0, total |-> count[w].total + 1] \in Counts
        BY <2>1 DEF Counts
      <4> QED
        BY <3>2, <4>1 DEF PaymentSucceeds, Change
    <3>3. CASE PaymentCaptured(w)
      <4>1. [failed |-> count[w].failed + (-1), total |-> count[w].total + 0] \in Counts
        BY <2>1, <3>3 DEF PaymentCaptured, Counts
      <4> QED
        BY <3>3, <4>1 DEF PaymentCaptured, Change
    <3> QED
      BY <1>8, <3>1, <3>2, <3>3
  <2>4. count' \in [Windows -> Counts]
    BY <1>8, <2>3
  <2>5. UNCHANGED <<scanVars, rows, scanned>>
    BY <1>8 DEF PaymentFails, PaymentSucceeds, PaymentCaptured, Change
  <2> QED
    BY <2>2, <2>4, <2>5 DEF scanVars
<1>9. CASE UNCHANGED vars
  BY <1>9 DEF vars, scanVars
<1> QED
  BY <1>1, <1>2, <1>3, <1>4, <1>5, <1>6, <1>7, <1>8, <1>9 DEF Next

(* Merging that is under way, or begins, keeps its order.                  *)
LEMMA StepMergesRight ==
  ASSUME TypeOK, pc = "merge" => MergesRight(flagged), [Next]_vars, pc' = "merge"
  PROVE  MergesRight(flagged)'
<1>1. CASE Load
  <2>1. left' = flagged' /\ group' = None /\ incidents' = {}
    BY <1>1 DEF Load
  <2> QED
    BY <2>1 DEF MergesRight, NothingIsLost, IncidentsAreWhole, GroupIsBegun
<1>2. ASSUME pc = "merge", flagged' = flagged,
             FlushMethod \/ \E w \in Windows : MergeWindow(w)
      PROVE  MergesRight(flagged)'
  <2>1. PICK F : F = flagged
    OBVIOUS
  <2>2. MergesRight(F)
    BY <1>2, <2>1
  <2>3. MergesRight(F)'
    BY <1>2, <2>2, FlushMethodKeeps, MergeWindowKeeps
  <2> QED
    BY <1>2, <2>1, <2>3 DEF MergesRight, NothingIsLost, IncidentsAreWhole, GroupIsBegun
<1>3. CASE FlushMethod
  BY <1>2, <1>3 DEF FlushMethod
<1>4. ASSUME NEW w \in Windows, MergeWindow(w)
      PROVE  MergesRight(flagged)'
  BY <1>2, <1>4 DEF MergeWindow
<1>5. ASSUME UNCHANGED <<pc, flagged, left, group, incidents>>
      PROVE  MergesRight(flagged)'
  BY <1>5 DEF MergesRight, NothingIsLost, IncidentsAreWhole, GroupIsBegun, Within, IsOutage
<1>6. CASE MergeDone \/ ScanDone \/ Crash \/ (\E o \in todo : PersistIncident(o))
  BY <1>6 DEF MergeDone, ScanDone, Crash, PersistIncident
<1>7. CASE \E w \in Windows : PaymentFails(w) \/ PaymentSucceeds(w) \/ PaymentCaptured(w)
  BY <1>5, <1>7 DEF PaymentFails, PaymentSucceeds, PaymentCaptured, Change, scanVars
<1>8. CASE UNCHANGED vars
  BY <1>5, <1>8 DEF vars, scanVars
<1> QED
  BY <1>1, <1>3, <1>4, <1>6, <1>7, <1>8 DEF Next

(* Incidents are the outages when they are persisted, and stay so.         *)
LEMMA StepFindsOutages ==
  ASSUME Inductive, [Next]_vars
  PROVE  IncidentsAreOutages'
<1> SUFFICES ASSUME pc' = "persist"
             PROVE  incidents' = Outages(flagged')
  BY DEF IncidentsAreOutages
<1>1. CASE MergeDone
  <2>1. /\ pc = "merge" /\ group = None /\ left = {}
        /\ incidents' = incidents /\ flagged' = flagged
    BY <1>1 DEF MergeDone
  <2>2. incidents = Outages(flagged)
    BY <2>1, MergedIsRight DEF Inductive, TypeOK
  <2> QED
    BY <2>1, <2>2
<1>2. ASSUME UNCHANGED <<pc, flagged, incidents>>
      PROVE  incidents' = Outages(flagged')
  BY <1>2 DEF Inductive, IncidentsAreOutages
<1>3. CASE Load \/ ScanDone \/ Crash
  BY <1>3 DEF Load, ScanDone, Crash
<1>4. CASE FlushMethod \/ (\E w \in Windows : MergeWindow(w))
  BY <1>4 DEF FlushMethod, MergeWindow
<1>5. CASE \E o \in todo : PersistIncident(o)
  BY <1>2, <1>5 DEF PersistIncident
<1>6. CASE \E w \in Windows : PaymentFails(w) \/ PaymentSucceeds(w) \/ PaymentCaptured(w)
  BY <1>2, <1>6 DEF PaymentFails, PaymentSucceeds, PaymentCaptured, Change, scanVars
<1>7. CASE UNCHANGED vars
  BY <1>2, <1>7 DEF vars, scanVars
<1> QED
  BY <1>1, <1>3, <1>4, <1>5, <1>6, <1>7 DEF Next

-----------------------------------------------------------------------------
(* Payments never come back to what they were.                             *)

LEMMA CountShape ==
  ASSUME NEW c \in [Windows -> Counts], NEW w \in Windows
  PROVE  c[w] \in Counts /\ c[w].failed \in Nat /\ c[w].total \in Nat
BY DEF Counts

LEMMA NotAfterItself ==
  ASSUME NEW c \in [Windows -> Counts]
  PROVE  NotAfter(c, c)
BY CountShape DEF NotAfter

LEMMA NotAfterThen ==
  ASSUME NEW c \in [Windows -> Counts], NEW d \in [Windows -> Counts],
         NEW e \in [Windows -> Counts], NotAfter(c, d), NotAfter(d, e)
  PROVE  NotAfter(c, e)
<1> SUFFICES ASSUME NEW w \in Windows
             PROVE  \/ c[w].total < e[w].total
                    \/ c[w].total = e[w].total /\ e[w].failed <= c[w].failed
  BY DEF NotAfter
<1>1. \/ c[w].total < d[w].total
      \/ c[w].total = d[w].total /\ d[w].failed <= c[w].failed
  BY DEF NotAfter
<1>2. \/ d[w].total < e[w].total
      \/ d[w].total = e[w].total /\ e[w].failed <= d[w].failed
  BY DEF NotAfter
<1> QED
  BY <1>1, <1>2, CountShape

LEMMA NotAfterEachOther ==
  ASSUME NEW c \in [Windows -> Counts], NEW d \in [Windows -> Counts],
         NotAfter(c, d), NotAfter(d, c)
  PROVE  c = d
<1>1. ASSUME NEW w \in Windows
      PROVE  c[w] = d[w]
  <2>1. c[w].total = d[w].total /\ c[w].failed = d[w].failed
    BY CountShape DEF NotAfter
  <2>2. /\ c[w] = [failed |-> c[w].failed, total |-> c[w].total]
        /\ d[w] = [failed |-> d[w].failed, total |-> d[w].total]
    BY DEF Counts
  <2> QED
    BY <2>1, <2>2
<1> QED
  BY <1>1

(* A change of the payments leads to a later state of them.                *)
LEMMA ChangesGoOn ==
  ASSUME TypeOK, TypeOK', NEW w \in Windows,
         PaymentFails(w) \/ PaymentSucceeds(w) \/ PaymentCaptured(w)
  PROVE  NotAfter(count, count') /\ count' # count
<1>1. count[w] \in Counts /\ count[w].failed \in Nat /\ count[w].total \in Nat
  BY CountShape DEF TypeOK
<1>2. \A v \in Windows : v # w => count'[v] = count[v]
  BY DEF TypeOK, PaymentFails, PaymentSucceeds, PaymentCaptured, Change
<1>3. \/ count'[w].total = count[w].total + 1
      \/ count'[w].total = count[w].total /\ count'[w].failed = count[w].failed - 1
  <2>1. ASSUME PaymentFails(w) \/ PaymentSucceeds(w)
        PROVE  count'[w].total = count[w].total + 1
    BY <1>1, <2>1 DEF TypeOK, Counts, PaymentFails, PaymentSucceeds, Change
  <2>2. ASSUME PaymentCaptured(w)
        PROVE  count'[w].total = count[w].total /\ count'[w].failed = count[w].failed - 1
    BY <1>1, <2>2 DEF TypeOK, Counts, PaymentCaptured, Change
  <2> QED
    BY <2>1, <2>2
<1>4. NotAfter(count, count')
  BY <1>1, <1>2, <1>3, CountShape DEF TypeOK, NotAfter
<1> QED
  BY <1>1, <1>3, <1>4

LEMMA StepKeepsOrder ==
  ASSUME TypeOK, TypeOK', ScansAreOrdered, [Next]_vars
  PROVE  ScansAreOrdered'
<1> USE DEF ScansAreOrdered
<1>1. CASE Load
  BY <1>1, NotAfterItself DEF Load, TypeOK
<1>2. CASE ScanDone
  <2>1. loaded # None
    BY <1>2 DEF ScanDone, TypeOK
  <2> QED
    BY <1>2, <2>1, NotAfterItself DEF ScanDone, TypeOK
<1>3. CASE Crash
  BY <1>3 DEF Crash
<1>4. ASSUME UNCHANGED <<count, loaded, scanned>>
      PROVE  ScansAreOrdered'
  BY <1>4 DEF NotAfter
<1>5. CASE FlushMethod \/ MergeDone \/ (\E w \in Windows : MergeWindow(w))
  BY <1>4, <1>5 DEF FlushMethod, MergeDone, MergeWindow
<1>6. CASE \E o \in todo : PersistIncident(o)
  BY <1>4, <1>6 DEF PersistIncident
<1>7. ASSUME NEW w \in Windows, PaymentFails(w) \/ PaymentSucceeds(w) \/ PaymentCaptured(w)
      PROVE  ScansAreOrdered'
  <2>1. NotAfter(count, count') /\ UNCHANGED <<loaded, scanned>>
    BY <1>7, ChangesGoOn DEF PaymentFails, PaymentSucceeds, PaymentCaptured, Change, scanVars
  <2>2. ASSUME NEW c \in [Windows -> Counts], NotAfter(c, count)
        PROVE  NotAfter(c, count')
    BY <2>1, <2>2, NotAfterThen DEF TypeOK
  <2> QED
    BY <2>1, <2>2 DEF TypeOK
<1>8. CASE UNCHANGED vars
  BY <1>4, <1>8 DEF vars, scanVars
<1> QED
  BY <1>1, <1>2, <1>3, <1>5, <1>6, <1>7, <1>8 DEF Next

-----------------------------------------------------------------------------
(* The rows, one write at a time.                                          *)

\* What TypeOK leaves out: the figures are whatever sums are.
RowsTyped ==
  \E A : rows \in Seq([method : Methods, start : Hours, affected : A])

LEMMA RowShape ==
  ASSUME RowsTyped
  PROVE  /\ Len(rows) \in Nat /\ DOMAIN rows = 1 .. Len(rows)
         /\ rows = [n \in DOMAIN rows |-> rows[n]]
         /\ \A n \in DOMAIN rows :
              rows[n] = [method |-> rows[n].method, start |-> rows[n].start,
                         affected |-> rows[n].affected]
<1>1. PICK A : rows \in Seq([method : Methods, start : Hours, affected : A])
  BY DEF RowsTyped
<1>2. Len(rows) \in Nat /\ DOMAIN rows = 1 .. Len(rows)
      /\ rows \in [1 .. Len(rows) -> [method : Methods, start : Hours, affected : A]]
  BY <1>1, LenProperties
<1> QED
  BY <1>2

(* The row that a refresh takes is the only one there is.                  *)
LEMMA OneExists ==
  ASSUME RowsTyped, RowsAreDistinct, NEW o, NEW m \in Existing(o)
  PROVE  m \in DOMAIN rows /\ Existing(o) = {m} /\ Min(Existing(o)) = m
<1>1. m \in DOMAIN rows /\ Existing(o) = {m}
  BY DEF Existing, RowsAreDistinct
<1>2. m \in Nat
  BY <1>1, RowShape
<1> QED
  BY <1>1, <1>2 DEF Min

(* A refresh changes the figures of the outage's row, and nothing else.    *)
LEMMA RefreshWrites ==
  ASSUME RowsTyped, RowsAreDistinct, NEW o, Existing(o) # {}, Refresh(o)
  PROVE  /\ RowsTyped' /\ DOMAIN rows' = DOMAIN rows
         /\ \A n \in DOMAIN rows :
              /\ rows'[n].method = rows[n].method /\ rows'[n].start = rows[n].start
              /\ rows'[n].affected = IF n \in Existing(o) THEN Failures(o)
                                                          ELSE rows[n].affected
<1>1. PICK A : rows \in Seq([method : Methods, start : Hours, affected : A])
  BY DEF RowsTyped
<1>2. Len(rows) \in Nat /\ DOMAIN rows = 1 .. Len(rows)
      /\ rows \in [1 .. Len(rows) -> [method : Methods, start : Hours, affected : A]]
  BY <1>1, LenProperties
<1>3. PICK m : m \in Existing(o)
  OBVIOUS
<1>4. m \in DOMAIN rows /\ Existing(o) = {m} /\ Min(Existing(o)) = m
  BY <1>3, OneExists
<1> DEFINE B == A \cup {Failures(o)}
           R == [method : Methods, start : Hours, affected : B]
<1>6. rows' = [n \in DOMAIN rows |->
                IF n = m THEN [rows[n] EXCEPT !.affected = Failures(o)] ELSE rows[n]]
  BY <1>4 DEF Refresh
<1>7. rows' \in [1 .. Len(rows) -> R]
  BY <1>2, <1>6
<1>8. rows' \in Seq(R)
  <2>1. [1 .. Len(rows) -> R] \in {[1 .. n -> R] : n \in Nat}
    BY <1>2
  <2> HIDE DEF R
  <2> QED
    BY <1>7, <2>1, SeqDef, Zenon
<1>9. RowsTyped'
  BY <1>8 DEF RowsTyped
<1>10. \A n \in DOMAIN rows :
         /\ rows'[n].method = rows[n].method /\ rows'[n].start = rows[n].start
         /\ rows'[n].affected = IF n = m THEN Failures(o) ELSE rows[n].affected
  BY <1>2, <1>6
<1> QED
  BY <1>4, <1>6, <1>9, <1>10

(* An insert adds a row after the others.                                  *)
LEMMA InsertWrites ==
  ASSUME RowsTyped, NEW o \in Outage, Insert(o)
  PROVE  /\ RowsTyped' /\ Len(rows) + 1 \notin DOMAIN rows
         /\ DOMAIN rows' = DOMAIN rows \cup {Len(rows) + 1}
         /\ \A n \in DOMAIN rows : rows'[n] = rows[n]
         /\ rows'[Len(rows) + 1] =
              [method |-> o.method, start |-> o.start, affected |-> Failures(o)]
<1>1. PICK A : rows \in Seq([method : Methods, start : Hours, affected : A])
  BY DEF RowsTyped
<1> DEFINE B == A \cup {Failures(o)}
           R == [method : Methods, start : Hours, affected : B]
<1>0. PICK r : r = [method |-> o.method, start |-> o.start, affected |-> Failures(o)]
  OBVIOUS
<1>2. rows \in Seq(R)
  <2>1. [method : Methods, start : Hours, affected : A] \subseteq R
    OBVIOUS
  <2> HIDE DEF R
  <2> QED
    BY <1>1, <2>1, SeqMonotonic
<1>3. r \in R
  BY <1>0 DEF Outage
<1>4. rows' = Append(rows, r)
  BY <1>0 DEF Insert
<1> HIDE DEF R
<1>5. Len(rows) \in Nat /\ DOMAIN rows = 1 .. Len(rows)
  BY <1>2, LenProperties
<1>6. /\ rows' \in Seq(R) /\ Len(rows') = Len(rows) + 1
      /\ \A n \in 1 .. Len(rows) : rows'[n] = rows[n]
      /\ rows'[Len(rows) + 1] = r
  BY <1>2, <1>3, <1>4
<1>7. DOMAIN rows' = 1 .. Len(rows) + 1
  BY <1>5, <1>6, LenProperties
<1>8. RowsTyped'
  BY <1>6 DEF RowsTyped, R
<1>9. DOMAIN rows' = DOMAIN rows \cup {Len(rows) + 1} /\ Len(rows) + 1 \notin DOMAIN rows
  BY <1>5, <1>7
<1>10. rows'[Len(rows) + 1] =
         [method |-> o.method, start |-> o.start, affected |-> Failures(o)]
  BY <1>0, <1>6
<1>11. \A n \in DOMAIN rows : rows'[n] = rows[n]
  BY <1>5, <1>6
<1> QED
  BY <1>8, <1>9, <1>10, <1>11, Zenon

SameKey(p, o) == p.method = o.method /\ p.start = o.start

(* Persisting an incident records it, and disturbs no other.               *)
LEMMA PersistWrites ==
  ASSUME TypeOK, RowsTyped, RowsAreDistinct, NEW o \in todo, PersistIncident(o)
  PROVE  /\ RowsTyped' /\ RowsAreDistinct'
         /\ \E n \in DOMAIN rows' :
              /\ rows'[n].method = o.method /\ rows'[n].start = o.start
              /\ rows'[n].affected = Failures(o)
         /\ \A n \in DOMAIN rows :
              /\ n \in DOMAIN rows'
              /\ rows'[n].method = rows[n].method /\ rows'[n].start = rows[n].start
              /\ ~SameKey(rows[n], o) => rows'[n].affected = rows[n].affected
<1>1. CASE Existing(o) # {}
  <2>1. Refresh(o)
    BY <1>1 DEF PersistIncident
  <2> QED
    BY <1>1, <2>1, RefreshWrites DEF Existing, RowsAreDistinct, SameKey
<1>2. CASE Existing(o) = {}
  <2>1. Insert(o) /\ o \in Outage
    BY <1>2 DEF PersistIncident, TypeOK
  <2>2. \A n \in DOMAIN rows : ~SameKey(rows[n], o)
    BY <1>2 DEF Existing, SameKey
  <2>3. /\ RowsTyped' /\ Len(rows) + 1 \notin DOMAIN rows
        /\ DOMAIN rows' = DOMAIN rows \cup {Len(rows) + 1}
        /\ \A n \in DOMAIN rows : rows'[n] = rows[n]
        /\ rows'[Len(rows) + 1] =
             [method |-> o.method, start |-> o.start, affected |-> Failures(o)]
    BY <2>1, InsertWrites
  <2> DEFINE last == Len(rows) + 1
  <2>4. /\ rows'[last].method = o.method /\ rows'[last].start = o.start
        /\ rows'[last].affected = Failures(o)
    BY <2>3
  <2> HIDE DEF last
  <2>5. DOMAIN rows' = DOMAIN rows \cup {last} /\ \A n \in DOMAIN rows : rows'[n] = rows[n]
    BY <2>3 DEF last
  <2>6. RowsAreDistinct'
    BY <2>2, <2>4, <2>5 DEF RowsAreDistinct, SameKey
  <2> QED
    BY <2>3, <2>4, <2>5, <2>6
<1> QED
  BY <1>1, <1>2

(* ... in the words of Recorded.                                           *)
LEMMA PersistRecords ==
  ASSUME TypeOK, RowsTyped, RowsAreDistinct, NEW o \in todo, PersistIncident(o),
         NEW p \in Outage, NEW c
  PROVE  /\ p = o /\ c = loaded => Recorded(p, c)'
         /\ ~SameKey(p, o) /\ Recorded(p, c) => Recorded(p, c)'
<1>1. ASSUME p = o, c = loaded
      PROVE  Recorded(p, c)'
  BY <1>1, PersistWrites DEF Recorded, Existing, Failures
<1>2. ASSUME ~SameKey(p, o), Recorded(p, c)
      PROVE  Recorded(p, c)'
  <2>1. PICK n \in DOMAIN rows : /\ rows[n].method = p.method /\ rows[n].start = p.start
                                 /\ rows[n].affected = FailuresIn(p, c)
    BY <1>2 DEF Recorded, Existing
  <2>2. ~SameKey(rows[n], o)
    BY <1>2, <2>1 DEF SameKey
  <2> QED
    BY <2>1, <2>2, PersistWrites DEF Recorded, Existing
<1> QED
  BY <1>1, <1>2

(* Two outages of one scan have different rows.                            *)
LEMMA OutagesHaveKeys ==
  ASSUME NEW F, NEW o \in Outages(F), NEW p \in Outages(F), SameKey(p, o)
  PROVE  p = o
<1>1. /\ o \in Outage /\ p \in Outage /\ IsOutage(o, F) /\ IsOutage(p, F)
  BY DEF Outages
<1>2. Within(<<p.method, p.start>>, o)
  BY <1>1, OutageShape DEF SameKey, Within, IsOutage
<1> QED
  BY <1>1, <1>2, OutagesAreApart

(* What is persisted stays so while the payments may be those of the scan. *)
LEMMA StepKeepsRecords ==
  ASSUME Inductive, RowsTyped, [Next]_vars
  PROVE  RowsTyped' /\ RowsAreDistinct' /\ ScansAreRecorded'
<1> USE DEF Inductive
<1> DEFINE RowsKept == RowsTyped' /\ RowsAreDistinct'
<1>1. ASSUME UNCHANGED rows
      PROVE  RowsKept
  BY <1>1 DEF RowsTyped, RowsAreDistinct
<1>2. ASSUME UNCHANGED <<rows, count, pc, loaded, flagged, incidents, todo, scanned>>
      PROVE  ScansAreRecorded'
  BY <1>2 DEF ScansAreRecorded, Recorded, Existing
<1>3. CASE Load
  <2>1. /\ pc' = "merge" /\ UNCHANGED <<rows, count, scanned>>
        /\ loaded' = count /\ flagged' = Flagged(count)
    BY <1>3 DEF Load
  <2>2. scanned' # None /\ scanned' \in {count', loaded'} =>
          \A o \in Outages(Flagged(scanned)) : Recorded(o, scanned)
    BY <2>1 DEF ScansAreRecorded
  <2> QED
    BY <1>1, <2>1, <2>2 DEF ScansAreRecorded, Recorded, Existing
<1>4. CASE FlushMethod \/ \E w \in Windows : MergeWindow(w)
  <2>1. pc' = "merge" /\ pc = "merge" /\ UNCHANGED <<rows, count, loaded, flagged, scanned>>
    BY <1>4 DEF FlushMethod, MergeWindow
  <2> QED
    BY <1>1, <2>1 DEF ScansAreRecorded, Recorded, Existing
<1>5. CASE MergeDone
  <2>1. /\ pc' = "persist" /\ pc = "merge" /\ incidents' \ todo' = {}
        /\ UNCHANGED <<rows, count, loaded, flagged, scanned>>
    BY <1>5 DEF MergeDone
  <2> QED
    BY <1>1, <2>1 DEF ScansAreRecorded, Recorded, Existing
<1>6. ASSUME NEW o \in todo, PersistIncident(o)
      PROVE  RowsKept /\ ScansAreRecorded'
  <2>1. /\ pc = "persist" /\ pc' = "persist" /\ todo' = todo \ {o}
        /\ UNCHANGED <<count, loaded, flagged, incidents, scanned>>
    BY <1>6 DEF PersistIncident
  <2>2. /\ incidents = Outages(flagged) /\ flagged = Flagged(loaded) /\ loaded # None
        /\ o \in incidents
    BY <2>1 DEF IncidentsAreOutages, ScansAreRecorded, TypeOK
  <2>3. PICK c : c = loaded
    OBVIOUS
  <2>4. ASSUME NEW p \in incidents, p = o \/ Recorded(p, c)
        PROVE  Recorded(p, c)'
    <3>1. p \in Outage /\ (SameKey(p, o) => p = o)
      BY <2>2, OutagesHaveKeys DEF TypeOK
    <3> QED
      BY <1>6, <2>3, <2>4, <3>1, PersistRecords
  <2>5. \A p \in incidents \ todo' : Recorded(p, c)'
    <3>1. \A p \in incidents \ todo : Recorded(p, c)
      BY <2>1, <2>2, <2>3 DEF ScansAreRecorded
    <3> QED
      BY <2>1, <2>4, <3>1
  <2>6. ASSUME scanned # None, scanned \in {count, loaded}
        PROVE  scanned = c /\ \A p \in incidents : Recorded(p, c)'
    <3>1. scanned = c
      <4>1. ASSUME scanned = count
            PROVE  scanned = loaded
        BY <2>2, <2>6, <4>1, NotAfterEachOther DEF ScansAreOrdered, TypeOK
      <4> QED
        BY <2>3, <2>6, <4>1
    <3>2. \A p \in incidents : Recorded(p, c)
      BY <2>2, <2>3, <2>6, <3>1 DEF ScansAreRecorded
    <3> QED
      BY <2>4, <3>1, <3>2
  <2>7. c = loaded' /\ Outages(Flagged(c)) = incidents
    BY <2>1, <2>2, <2>3
  <2>8. \A p \in incidents' \ todo' : Recorded(p, loaded)'
    BY <2>1, <2>5, <2>7 DEF Recorded, Existing
  <2>9. scanned' # None /\ scanned' \in {count', loaded'} =>
          \A p \in Outages(Flagged(scanned')) : Recorded(p, scanned)'
    BY <2>1, <2>6, <2>7 DEF Recorded, Existing
  <2>10. RowsKept
    BY <1>6, PersistWrites
  <2>11. flagged' = Flagged(loaded')
    BY <2>1, <2>2
  <2> QED
    BY <2>1, <2>8, <2>9, <2>10, <2>11 DEF ScansAreRecorded
<1>7. CASE ScanDone
  <2>1. /\ pc = "persist" /\ todo = {} /\ pc' = "idle" /\ todo' = {} /\ scanned' = loaded
        /\ UNCHANGED <<rows, count, loaded, flagged, incidents>>
    BY <1>7 DEF ScanDone
  <2>2. incidents = Outages(Flagged(loaded)) /\ \A o \in incidents : Recorded(o, loaded)
    BY <2>1 DEF IncidentsAreOutages, ScansAreRecorded, TypeOK
  <2> QED
    BY <1>1, <2>1, <2>2 DEF ScansAreRecorded, Recorded, Existing
<1>8. CASE Crash
  <2>1. /\ pc' = "idle" /\ todo' = {} /\ loaded' = None /\ UNCHANGED <<rows, count, scanned>>
    BY <1>8 DEF Crash
  <2> QED
    BY <1>1, <2>1 DEF ScansAreRecorded, Recorded, Existing
<1>9. ASSUME NEW w \in Windows, PaymentFails(w) \/ PaymentSucceeds(w) \/ PaymentCaptured(w)
      PROVE  RowsKept /\ ScansAreRecorded'
  <2>1. UNCHANGED <<rows, pc, loaded, flagged, incidents, todo, scanned>>
    BY <1>9 DEF PaymentFails, PaymentSucceeds, PaymentCaptured, Change, scanVars
  <2>2. TypeOK'
    BY StepKeepsTypes
  <2>3. scanned # None => scanned # count'
    BY <1>9, <2>2, ChangesGoOn, NotAfterEachOther DEF ScansAreOrdered, TypeOK
  <2> QED
    BY <1>1, <2>1, <2>3 DEF ScansAreRecorded, Recorded, Existing
<1>10. CASE UNCHANGED vars
  BY <1>1, <1>2, <1>10 DEF vars, scanVars
<1> QED
  BY <1>3, <1>4, <1>5, <1>6, <1>7, <1>8, <1>9, <1>10 DEF Next

Full == Inductive /\ RowsTyped

LEMMA FullHolds == Spec => []Full
<1>1. Init => Full
  <2>1. Init => Inductive
    BY CountsAssumption, DetectionBounds
    DEF Init, Inductive, TypeOK, IncidentsAreOutages, RowsAreDistinct,
        ScansAreOrdered, ScansAreRecorded
  <2>2. Init => RowsTyped
    BY EmptySeq DEF Init, RowsTyped
  <2> QED
    BY <2>1, <2>2 DEF Full
<1>2. Full /\ [Next]_vars => Full'
  <2> SUFFICES ASSUME Inductive, RowsTyped, [Next]_vars
               PROVE  Inductive' /\ RowsTyped'
    BY DEF Full
  <2>1. TypeOK'
    BY StepKeepsTypes DEF Inductive
  <2>2. ScansAreOrdered'
    BY <2>1, StepKeepsOrder DEF Inductive
  <2> QED
    BY <2>1, <2>2, StepMergesRight, StepFindsOutages, StepKeepsRecords DEF Inductive
<1> QED
  BY <1>1, <1>2, PTL DEF Spec

(* The invariant holds in every state of every scan.                       *)
THEOREM InductiveHolds == Spec => []Inductive
<1> QED
  BY FullHolds, PTL DEF Full

(* An incident is a maximal interval of anomalous hours of a method: every *)
(* outage is found, whole and once (detect, "a three-hour outage is one    *)
(* incident to act on, not three").                                        *)
THEOREM DetectFindsOutages == Spec => []IncidentsAreOutages
<1>1. Inductive => IncidentsAreOutages
  BY DEF Inductive
<1> QED
  BY <1>1, InductiveHolds, PTL

(* No two incidents of a scan share a window.                              *)
THEOREM NothingIsCountedTwice ==
  Spec => [](pc = "persist" =>
              \A o \in incidents, p \in incidents, w \in Windows :
                Within(w, o) /\ Within(w, p) => o = p)
<1>1. ASSUME Inductive, pc = "persist", NEW o \in incidents, NEW p \in incidents,
             NEW w \in Windows, Within(w, o), Within(w, p), p.start >= o.start
      PROVE  o = p
  <2>1. /\ o \in Outage /\ p \in Outage /\ IsOutage(o, flagged) /\ IsOutage(p, flagged)
    BY <1>1 DEF Inductive, IncidentsAreOutages, Outages
  <2>2. Within(<<p.method, p.start>>, o)
    BY <1>1, <2>1, WindowShape, OutageShape DEF Within
  <2> QED
    BY <2>1, <2>2, OutagesAreApart
<1>2. Inductive => (pc = "persist" =>
              \A o \in incidents, p \in incidents, w \in Windows :
                Within(w, o) /\ Within(w, p) => o = p)
  <2> SUFFICES ASSUME Inductive, pc = "persist", NEW o \in incidents, NEW p \in incidents,
                      NEW w \in Windows, Within(w, o), Within(w, p)
               PROVE  o = p
    OBVIOUS
  <2>1. o.start \in Int /\ p.start \in Int
    BY OutageShape DEF Inductive, TypeOK
  <2>2. p.start >= o.start \/ o.start >= p.start
    BY <2>1
  <2> QED
    BY <1>1, <2>2
<1> QED
  BY <1>2, InductiveHolds, PTL

(* After a complete scan each outage has one row, with its present figures,*)
(* whatever scans were cut off before (persist_incident).                  *)
THEOREM RowsStayCurrent == Spec => []RowsAreCurrent
<1>1. Full => RowsAreCurrent
  <2> SUFFICES ASSUME Full, pc = "idle", loaded # None, NEW o \in incidents
               PROVE  /\ Cardinality(Existing(o)) = 1
                      /\ \A n \in Existing(o) : rows[n].affected = Failures(o)
    BY DEF RowsAreCurrent
  <2>1. PICK n \in Existing(o) : rows[n].affected = FailuresIn(o, loaded)
    BY DEF Full, Inductive, ScansAreRecorded, Recorded
  <2>2. Existing(o) = {n}
    BY <2>1 DEF Full, Inductive, RowsAreDistinct, Existing
  <2> QED
    BY <2>1, <2>2, FS_Singleton DEF Failures
<1> QED
  BY <1>1, FullHolds, PTL

(* Scanning again what the last complete scan saw writes nothing new, and  *)
(* no incident twice (scan_and_persist).                                   *)
THEOREM RescanWritesNothing == Spec => RescanChangesNothing
<1>1. ASSUME Full, [Next]_vars, loaded = scanned
      PROVE  rows' = rows
  <2>1. ASSUME NEW o \in todo, PersistIncident(o)
        PROVE  rows' = rows
    <3>1. /\ pc = "persist" /\ flagged = Flagged(loaded) /\ loaded # None
          /\ o \in Outages(flagged)
      BY <1>1, <2>1 DEF Full, Inductive, PersistIncident, IncidentsAreOutages,
                        ScansAreRecorded, TypeOK
    <3>2. Recorded(o, loaded)
      BY <1>1, <3>1 DEF Full, Inductive, ScansAreRecorded
    <3>3. PICK m \in Existing(o) : rows[m].affected = Failures(o)
      BY <3>2 DEF Recorded, Failures
    <3>4. Existing(o) = {m} /\ m \in DOMAIN rows
      BY <1>1, <3>3 DEF Full, Inductive, RowsAreDistinct, Existing
    <3>5. Refresh(o)
      BY <2>1, <3>3 DEF PersistIncident
    <3>6. rows' = [n \in DOMAIN rows |->
            IF n = m THEN [rows[n] EXCEPT !.affected = rows[n].affected] ELSE rows[n]]
      BY <1>1, <3>3, <3>4, <3>5, OneExists DEF Refresh, Full, Inductive
    <3>7. /\ rows = [n \in DOMAIN rows |-> rows[n]]
          /\ \A n \in DOMAIN rows :
               rows[n] = [method |-> rows[n].method, start |-> rows[n].start,
                          affected |-> rows[n].affected]
      BY <1>1, RowShape DEF Full
    <3>8. [rows[m] EXCEPT !.affected = rows[m].affected] = rows[m]
      BY <3>4, <3>7
    <3> QED
      BY <3>6, <3>7, <3>8
  <2>2. CASE Load \/ FlushMethod \/ MergeDone \/ ScanDone \/ Crash
    BY <2>2 DEF Load, FlushMethod, MergeDone, ScanDone, Crash
  <2>3. CASE \E w \in Windows : MergeWindow(w)
    BY <2>3 DEF MergeWindow
  <2>4. CASE \E w \in Windows : PaymentFails(w) \/ PaymentSucceeds(w) \/ PaymentCaptured(w)
    BY <2>4 DEF PaymentFails, PaymentSucceeds, PaymentCaptured, Change
  <2>5. CASE UNCHANGED vars
    BY <2>5 DEF vars
  <2> QED
    BY <1>1, <2>1, <2>2, <2>3, <2>4, <2>5 DEF Next
<1>2. Full /\ [Next]_vars => [loaded = scanned => rows' = rows]_vars
  BY <1>1
<1> QED
  BY <1>2, FullHolds, PTL DEF Spec, RescanChangesNothing

-----------------------------------------------------------------------------
(* A failure more.                                                         *)

\* The failures of a window are among its payments.
FailuresArePayments == \A w \in Windows : count[w].failed <= count[w].total

LEMMA FailuresStayPayments ==
  ASSUME TypeOK, FailuresArePayments, [Next]_vars
  PROVE  FailuresArePayments'
<1>1. ASSUME NEW w \in Windows, PaymentFails(w) \/ PaymentSucceeds(w) \/ PaymentCaptured(w)
      PROVE  FailuresArePayments'
  <2>1. count[w].failed \in Nat /\ count[w].total \in Nat
    BY CountShape DEF TypeOK
  <2>2. \A v \in Windows : v # w => count'[v] = count[v]
    BY <1>1 DEF TypeOK, PaymentFails, PaymentSucceeds, PaymentCaptured, Change
  <2>3. count'[w].failed <= count'[w].total
    BY <1>1, <2>1
    DEF TypeOK, FailuresArePayments, PaymentFails, PaymentSucceeds, PaymentCaptured, Change
  <2> QED
    BY <2>2, <2>3 DEF FailuresArePayments
<1>2. CASE count' = count
  BY <1>2 DEF FailuresArePayments
<1> QED
  BY <1>1, <1>2
  DEF Next, vars, Load, FlushMethod, MergeDone, ScanDone, Crash, MergeWindow, PersistIncident

(* Numbers for the rates: n more failures of n more payments do not lower  *)
(* a rate that is at most one.                                             *)
LEMMA RateGrows ==
  ASSUME NEW f \in Nat, NEW t \in Nat, NEW num \in Nat, NEW den \in Nat,
         f * den >= num * t, num <= den
  PROVE  (f + 1) * den >= num * (t + 1)
<1>1. (f + 1) * den = f * den + den /\ num * (t + 1) = num * t + num
  OBVIOUS
<1>2. f * den \in Nat /\ num * t \in Nat
  OBVIOUS
<1> QED
  BY <1>1, <1>2

LEMMA ProductGrows ==
  ASSUME NEW a \in Nat, NEW b \in Nat, NEW n \in Nat \ {0}, a < b
  PROVE  a * n < b * n
<1>1. PICK d \in Nat \ {0} : b = a + d
  <2>1. b - a \in Nat \ {0} /\ b = a + (b - a)
    OBVIOUS
  <2> QED
    BY <2>1
<1>2. (a + d) * n = a * n + d * n
  OBVIOUS
<1>3. d * n > 0 /\ d * n \in Nat /\ a * n \in Nat
  OBVIOUS
<1> QED
  BY <1>1, <1>2, <1>3

LEMMA ProductGrowsWeakly ==
  ASSUME NEW a \in Nat, NEW b \in Nat, NEW n \in Nat, a <= b
  PROVE  a * n <= b * n
<1>1. CASE n = 0 \/ a = b
  BY <1>1
<1>2. CASE n # 0 /\ a # b
  BY <1>2, ProductGrows
<1> QED
  BY <1>1, <1>2

(* A rate that reaches a multiple of the baseline shows that the multiple  *)
(* is itself at most one.                                                  *)
LEMMA ReachableIsAtMostOne ==
  ASSUME NEW f \in Nat, NEW t \in Nat \ {0}, NEW bound \in Nat, NEW bt \in Nat,
         f <= t, f * bt >= bound * t
  PROVE  bound <= bt
<1> SUFFICES ASSUME bt < bound PROVE FALSE
  OBVIOUS
<1>1. bt * t < bound * t
  BY ProductGrows
<1>2. f * bt <= t * bt
  BY ProductGrowsWeakly
<1>3. t * bt = bt * t /\ f * bt \in Nat /\ bt * t \in Nat /\ bound * t \in Nat
  OBVIOUS
<1> QED
  BY <1>1, <1>2, <1>3

(* A window that is far above its baseline stays so with a failure more,   *)
(* on either side of the rounding.                                         *)
LEMMA FarAboveStays ==
  ASSUME NEW c \in Counts, c.failed <= c.total, c.total > 0,
         NEW base \in Counts, FarAbove(c, base)
  PROVE  FarAbove([failed |-> c.failed + 1, total |-> c.total + 1], base)
<1> DEFINE f == c.failed
           t == c.total
           bf == base.failed
           bt == base.total
           bound == MinMultiple * bf
<1>1. f \in Nat /\ t \in Nat \ {0} /\ bf \in Nat /\ bt \in Nat /\ f <= t
  BY DEF Counts
<1>2. bound \in Nat
  BY <1>1, ThresholdsAssumption
<1>3. f * bt >= bound * t /\ <<f, t, bf, bt>> \notin LostTies
  BY DEF FarAbove
<1>4. FarAbove([failed |-> f + 1, total |-> t + 1], base) <=>
        /\ (f + 1) * bt >= bound * (t + 1)
        /\ <<f + 1, t + 1, bf, bt>> \notin LostTies
  BY DEF FarAbove
<1>5. ASSUME <<f + 1, t + 1, bf, bt>> \in LostTies
      PROVE  /\ bt # 0
             /\ (f + 1) * bt = bound * (t + 1)
             /\ f + 1 = t + 1 /\ f + 1 > 1 =>
                  <<(f + 1) - 1, (t + 1) - 1, bf, bt>> \in LostTies
  BY <1>5, TiesAssumption
<1> HIDE DEF f, t, bf, bt, bound
<1>6. bound <= bt
  BY <1>1, <1>2, <1>3, ReachableIsAtMostOne
<1>7. (f + 1) * bt >= bound * (t + 1)
  BY <1>1, <1>2, <1>3, <1>6, RateGrows
<1>8. ASSUME <<f + 1, t + 1, bf, bt>> \in LostTies
      PROVE  FALSE
  <2>1. /\ (f + 1) * bt = f * bt + bt /\ bound * (t + 1) = bound * t + bound
        /\ f * bt \in Nat /\ bound * t \in Nat
    BY <1>1, <1>2
  <2>2. bt = bound /\ f * bt = bound * t
    BY <1>1, <1>2, <1>3, <1>5, <1>6, <1>8, <2>1
  <2>3. f = t
    <3> SUFFICES ASSUME f < t PROVE FALSE
      BY <1>1
    <3>1. f * bt < t * bt
      BY <1>1, <1>5, <1>8, ProductGrows
    <3>2. t * bt = bt * t /\ f * bt \in Nat /\ bt * t \in Nat
      BY <1>1
    <3> QED
      BY <2>2, <3>1, <3>2
  <2>4. f + 1 = t + 1 /\ f + 1 > 1 /\ (f + 1) - 1 = f /\ (t + 1) - 1 = t
    BY <1>1, <2>3
  <2> QED
    BY <1>3, <1>5, <1>8, <2>4
<1> QED
  BY <1>4, <1>7, <1>8 DEF f, t

LEMMA BaselineIsCounted ==
  ASSUME NEW c \in [Windows -> Counts], NEW m
  PROVE  Baseline(c, m) \in Counts
<1> DEFINE S == Normal(c, m)
           failed == [w \in S |-> c[w].failed]
           total == [w \in S |-> c[w].total]
<1>1. S \subseteq Windows /\ IsFiniteSet(S)
  <2>1. IsFiniteSet(Hours)
    BY ThresholdsAssumption, FS_Interval DEF Hours
  <2>2. IsFiniteSet(Windows)
    BY <2>1, DetectionBounds, FS_Product DEF Windows
  <2>3. S \subseteq Windows
    BY DEF Normal
  <2> QED
    BY <2>2, <2>3, FS_Subset
<1>2. \A w \in S : failed[w] \in Nat /\ total[w] \in Nat
  BY <1>1, CountShape
<1>3. SumOf(failed) = Total(failed, S) /\ SumOf(total) = Total(total, S)
  BY DEF SumOf
<1> HIDE DEF S
<1>4. SumOf(failed) \in Nat /\ SumOf(total) \in Nat
  <2> HIDE DEF failed, total
  <2> QED
    BY <1>1, <1>2, <1>3, TotalIsNat
<1> QED
  BY <1>4 DEF Baseline, Counts, S

(* A failure more leaves every baseline alone: the window it falls into is *)
(* suspect before and after, and the baseline is drawn from the others.    *)
LEMMA BaselinesStay ==
  ASSUME NEW c \in [Windows -> Counts], NEW w \in Suspect(c)
  PROVE  LET d == OneMoreFailure(c, w) IN
         /\ d \in [Windows -> Counts]
         /\ d[w] = [failed |-> c[w].failed + 1, total |-> c[w].total + 1]
         /\ \A v \in Windows : v # w => d[v] = c[v]
         /\ Suspect(d) = Suspect(c)
         /\ \A m : Baseline(d, m) = Baseline(c, m)
<1> DEFINE d == OneMoreFailure(c, w)
<1>1. w \in Windows /\ c[w].failed \in Nat /\ c[w].total \in Nat
  BY CountShape DEF Suspect
<1>2. /\ d \in [Windows -> Counts]
      /\ d[w] = [failed |-> c[w].failed + 1, total |-> c[w].total + 1]
      /\ \A v \in Windows : v # w => d[v] = c[v]
  BY <1>1 DEF OneMoreFailure, Counts
<1> HIDE DEF d
<1>3. w \in Suspect(d)
  <2>1. c[w].total >= MinVolume /\ c[w].failed * MinRate[2] >= MinRate[1] * c[w].total
    BY DEF Suspect, RateAtLeast
  <2>2. /\ MinVolume \in Nat /\ MinRate[1] \in Nat /\ MinRate[2] \in Nat
        /\ MinRate[1] <= MinRate[2]
    BY ThresholdsAssumption
  <2>3. (c[w].failed + 1) * MinRate[2] >= MinRate[1] * (c[w].total + 1)
    BY <1>1, <2>1, <2>2, RateGrows
  <2>4. c[w].total + 1 >= MinVolume
    BY <1>1, <2>1, <2>2
  <2> QED
    BY <1>1, <1>2, <2>3, <2>4 DEF Suspect, RateAtLeast
<1>4. Suspect(d) = Suspect(c)
  <2>1. \A v \in Windows : v # w => (v \in Suspect(d) <=> v \in Suspect(c))
    BY <1>2 DEF Suspect
  <2>2. Suspect(d) \subseteq Windows /\ Suspect(c) \subseteq Windows
    BY DEF Suspect
  <2> QED
    BY <1>3, <2>1, <2>2
<1>5. ASSUME NEW m
      PROVE  Baseline(d, m) = Baseline(c, m)
  <2>1. Normal(d, m) = Normal(c, m)
    BY <1>4 DEF Normal
  <2>2. \A v \in Normal(c, m) : d[v] = c[v]
    BY <1>2 DEF Normal
  <2>3. /\ [v \in Normal(d, m) |-> d[v].failed] = [v \in Normal(c, m) |-> c[v].failed]
        /\ [v \in Normal(d, m) |-> d[v].total] = [v \in Normal(c, m) |-> c[v].total]
    BY <2>1, <2>2
  <2> QED
    BY <2>3 DEF Baseline
<1> QED
  BY <1>2, <1>4, <1>5 DEF d

LEMMA FailureHidesNothing ==
  ASSUME NEW c \in [Windows -> Counts], \A w \in Windows : c[w].failed <= c[w].total,
         NEW w \in Flagged(c)
  PROVE  Flagged(c) \subseteq Flagged(OneMoreFailure(c, w))
<1> DEFINE d == OneMoreFailure(c, w)
<1>1. w \in Suspect(c) /\ w \in Windows
  BY DEF Flagged, Suspect
<1>2. /\ d[w] = [failed |-> c[w].failed + 1, total |-> c[w].total + 1]
      /\ \A v \in Windows : v # w => d[v] = c[v]
      /\ Suspect(d) = Suspect(c)
      /\ \A m : Baseline(d, m) = Baseline(c, m)
  BY <1>1, BaselinesStay
<1> HIDE DEF d
<1>3. ASSUME NEW v \in Flagged(c), v # w
      PROVE  v \in Flagged(d)
  <2>1. v \in Windows
    BY DEF Flagged, Suspect
  <2> QED
    BY <1>2, <1>3, <2>1 DEF Flagged
<1>4. w \in Flagged(d)
  <2>1. c[w] \in Counts /\ c[w].failed \in Nat /\ c[w].total \in Nat
    BY <1>1, CountShape
  <2>2. c[w].total > 0
    BY <1>1, <2>1, ThresholdsAssumption DEF Suspect
  <2>3. Baseline(c, w[1]) \in Counts
    BY BaselineIsCounted
  <2>4. AboveBaseline(c[w], Baseline(c, w[1])) /\ c[w].failed >= MinFailures
    BY DEF Flagged
  <2>5. AboveBaseline(d[w], Baseline(d, w[1]))
    <3> DEFINE base == Baseline(c, w[1])
    <3>1. Baseline(d, w[1]) = base
      BY <1>2
    <3> HIDE DEF base
    <3> SUFFICES ASSUME base.failed > 0
                 PROVE  FarAbove(d[w], base)
      BY <3>1 DEF AboveBaseline
    <3>2. FarAbove(c[w], base) /\ base \in Counts
      BY <2>3, <2>4 DEF AboveBaseline, base
    <3> QED
      BY <1>1, <1>2, <2>1, <2>2, <3>2, FarAboveStays
  <2>6. d[w].failed >= MinFailures
    BY <1>2, <2>1, <2>4, ThresholdsAssumption
  <2> QED
    BY <1>1, <1>2, <2>5, <2>6 DEF Flagged
<1> QED
  BY <1>3, <1>4 DEF d

(* One more failure in a flagged hour leaves it and every other flagged    *)
(* hour flagged: it is no part of the baseline it is compared with, and    *)
(* the rounding of a tie cannot turn against it.                           *)
THEOREM AnomaliesStayVisible == Spec => []MoreFailuresHideNothing
<1>1. Init => FailuresArePayments
  BY CountsAssumption DEF Init, FailuresArePayments
<1>2. Inductive /\ FailuresArePayments /\ [Next]_vars => FailuresArePayments'
  BY FailuresStayPayments DEF Inductive
<1>3. Inductive /\ FailuresArePayments => MoreFailuresHideNothing
  BY FailureHidesNothing
  DEF Inductive, TypeOK, FailuresArePayments, MoreFailuresHideNothing
<1> QED
  BY <1>1, <1>2, <1>3, InductiveHolds, PTL DEF Spec
=============================================================================
