---------------------------- MODULE Device_proofs ----------------------------
(* One command, one effect: the device's memory of a boot, and the boot a   *)
(* command expects, together keep the world from carrying a content out     *)
(* twice.  What is reported off is off, and what was once reported stands.  *)
EXTENDS Device, TLAPS

EvidenceType == [accepted : BOOLEAN, id : Id \cup {"none"}]

Entry == [content : Content, evidence : EvidenceType, faults : SUBSET Fault]

PlantType ==
  [driven : [Target -> BOOLEAN], deaf : [Target -> BOOLEAN],
   cached : [Id -> [target : Target \cup {NoTarget}, value : Nat, applied : BOOLEAN]],
   effects : [Content -> Nat]]

DeviceType ==
  [boot : Nat, dedup : SUBSET Entry, accepted : Nat, cur : Target \cup {NoTarget},
   energized : BOOLEAN, safe : BOOLEAN, lease : Nat, schedule : Schedules,
   plant : PlantType]

(* What has had its effect expects a boot that is over, or is remembered.   *)
Once(d) ==
  \A c \in Content :
    /\ d.plant.effects[c] <= 1
    /\ d.plant.effects[c] > 0 => c.boot <= d.boot
    /\ d.plant.effects[c] > 0 /\ c.boot = d.boot => Known(d, c) # {}

Sound(d) == d \in DeviceType /\ d.boot <= d.accepted /\ Once(d)

Line == [kind : {"command"}, id : Id, content : Content] \cup [kind : {"query_state"}]

OnceInv == Sound(device) /\ inbox \in Seq(Line) /\ now \in Nat

LEMMA DrivenIsTyped ==
  ASSUME NEW p \in PlantType, NEW t, NEW b \in BOOLEAN
  PROVE  [p EXCEPT !.driven[t] = b] \in PlantType /\ [p EXCEPT !.driven[t] = b].effects = p.effects
<1>1. [p.driven EXCEPT ![t] = b] \in [Target -> BOOLEAN]
  BY DEF PlantType
<1> QED
  BY <1>1 DEF PlantType

LEMMA DeafIsTyped ==
  ASSUME NEW p \in PlantType, NEW t, NEW v, t \in Target => v \in BOOLEAN
  PROVE  [p EXCEPT !.deaf[t] = v] \in PlantType /\ [p EXCEPT !.deaf[t] = v].effects = p.effects
<1>1. [p.deaf EXCEPT ![t] = v] \in [Target -> BOOLEAN]
  BY DEF PlantType
<1> QED
  BY <1>1 DEF PlantType

LEMMA EffectsAreTyped ==
  ASSUME NEW p \in PlantType, NEW f \in [Content -> Nat]
  PROVE  [p EXCEPT !.effects = f] \in PlantType /\ [p EXCEPT !.effects = f].effects = f
BY DEF PlantType

LEMMA DriveIsTyped ==
  ASSUME NEW p \in PlantType, NEW m, NEW t, NEW value \in Nat
  PROVE  Drive(p, m, t, value) \in PlantType /\ Drive(p, m, t, value).effects = p.effects
<1> DEFINE b == value > 0
<1>1. b \in BOOLEAN
  OBVIOUS
<1>2. Drive(p, m, t, value) = IF Carries(m) THEN [p EXCEPT !.driven[t] = b] ELSE p
  BY Zenon DEF Drive
<1> HIDE DEF b
<1>3. [p EXCEPT !.driven[t] = b] \in PlantType /\ [p EXCEPT !.driven[t] = b].effects = p.effects
  BY <1>1, DrivenIsTyped, Zenon
<1> QED
  BY <1>2, <1>3, Zenon

(* A safe stop gives a plant with the same effects.                         *)
LEMMA StopKeepsEffects ==
  ASSUME NEW p \in PlantType, NEW t, NEW r \in SafeStop(p, t)
  PROVE  r.plant \in PlantType /\ r.plant.effects = p.effects /\ r.confirmed \in BOOLEAN
<1>1. PICK m \in Mode :
        r = [plant |-> [Drive(p, m, t, 0) EXCEPT
                 !.deaf[t] = IF Applied(m) /\ Accepted(m) THEN m = "silent" ELSE @],
             confirmed |-> Applied(m) /\ Accepted(m)]
  BY Zenon DEF SafeStop
<1> DEFINE q == Drive(p, m, t, 0)
           v == IF Applied(m) /\ Accepted(m) THEN m = "silent" ELSE q.deaf[t]
<1>2. q \in PlantType /\ q.effects = p.effects
  BY DriveIsTyped
<1>3. r.plant = [q EXCEPT !.deaf[t] = v] /\ r.confirmed = (Applied(m) /\ Accepted(m))
  BY <1>1
<1> HIDE DEF q, v
<1>4. t \in Target => v \in BOOLEAN
  BY <1>2 DEF v, PlantType
<1>5. [q EXCEPT !.deaf[t] = v] \in PlantType /\ [q EXCEPT !.deaf[t] = v].effects = q.effects
  BY <1>2, <1>4, DeafIsTyped
<1> QED
  BY <1>2, <1>3, <1>5 DEF Applied, Accepted

LEMMA StopCurrentKeepsEffects ==
  ASSUME NEW d \in DeviceType, NEW r \in StopCurrent(d)
  PROVE  r.plant \in PlantType /\ r.plant.effects = d.plant.effects /\ r.confirmed \in BOOLEAN
<1>1. d.plant \in PlantType
  BY DEF DeviceType
<1>2. CASE d.cur \in Stoppable
  BY <1>1, <1>2, StopKeepsEffects DEF StopCurrent
<1>3. CASE d.cur \notin Stoppable
  <2>1. r = [plant |-> d.plant, confirmed |-> TRUE]
    BY <1>3, Zenon DEF StopCurrent
  <2> QED
    BY <1>1, <2>1
<1> QED
  BY <1>2, <1>3

(* Expiring a lease disturbs neither memory, boot nor effects.              *)
LEMMA ExpiryKeepsSound ==
  ASSUME NEW d, Sound(d), NEW at \in Nat, NEW e \in ExpireLease(d, at)
  PROVE  Sound(e)
<1>1. CASE LeaseOver(d, at)
  <2>1. PICK r \in StopCurrent(d) :
          e = [d EXCEPT !.plant = r.plant, !.energized = ~r.confirmed,
                        !.safe = r.confirmed, !.lease = 0]
    BY <1>1 DEF ExpireLease
  <2>2. r.plant \in PlantType /\ r.plant.effects = d.plant.effects /\ r.confirmed \in BOOLEAN
    BY StopCurrentKeepsEffects DEF Sound
  <2>3. /\ e \in DeviceType /\ e.plant = r.plant
        /\ e.boot = d.boot /\ e.dedup = d.dedup /\ e.accepted = d.accepted
    BY <2>1, <2>2 DEF Sound, DeviceType
  <2> QED
    BY <2>2, <2>3 DEF Sound, Once, Known
<1>2. CASE ~LeaseOver(d, at)
  BY <1>2 DEF ExpireLease
<1> QED
  BY <1>1, <1>2
(* What the plant makes of a command: the content has one effect more, and  *)
(* then it is not an error, or no content has.                              *)
Outcome(p, r, c) ==
  /\ r.plant \in PlantType /\ r.error \in BOOLEAN /\ r.applied \in BOOLEAN
  /\ \/ r.plant.effects = p.effects
     \/ ~r.error /\ r.plant.effects = [p.effects EXCEPT ![c] = @ + 1]

LEMMA ReplayHasNoEffect ==
  ASSUME NEW p \in PlantType, NEW id \in Id, NEW c \in Content
  PROVE  Outcome(p, Replay(p, id, c), c)
<1> DEFINE known == p.cached[id]
           same == known.target = c.target /\ known.value = c.value
           v == IF same THEN TRUE ELSE p.deaf[c.target]
<1>1. /\ Replay(p, id, c).plant = [p EXCEPT !.deaf[c.target] = v]
      /\ Replay(p, id, c).error = ~same
      /\ Replay(p, id, c).applied = (same /\ known.applied)
  BY DEF Replay
<1>2. known.applied \in BOOLEAN
  BY DEF PlantType
<1>3. c.target \in Target => v \in BOOLEAN
  BY DEF PlantType
<1> HIDE DEF v
<1>4. /\ [p EXCEPT !.deaf[c.target] = v] \in PlantType
      /\ [p EXCEPT !.deaf[c.target] = v].effects = p.effects
  BY <1>3, DeafIsTyped
<1> QED
  BY <1>1, <1>2, <1>4 DEF Outcome

LEMMA InvocationHasOneEffect ==
  ASSUME NEW p \in PlantType, NEW m \in Mode, NEW id \in Id, NEW c \in Content
  PROVE  Outcome(p, Invocation(p, m, id, c), c)
<1>1. c.target \in Target \cup {NoTarget} /\ c.value \in Nat
  BY DeviceAssumption DEF ContentType
<1> DEFINE q == Drive(p, m, c.target, c.value)
           v == IF m = "interlock" THEN q.deaf[c.target] ELSE ~Carries(m)
           d == [q EXCEPT !.deaf[c.target] = v]
           f == [p.effects EXCEPT ![c] = IF Carries(m) THEN p.effects[c] + 1 ELSE p.effects[c]]
           told == [d EXCEPT !.effects = f]
           entry == [target |-> c.target, value |-> c.value, applied |-> Applied(m)]
           kept == [told EXCEPT !.cached[id] = entry]
           r == Invocation(p, m, id, c)
<1>2. q \in PlantType /\ q.effects = p.effects
  BY <1>1, DriveIsTyped
<1>3. /\ r.plant = IF Remembers(m) THEN kept ELSE told
      /\ r.error = (m = "interlock") /\ r.applied = Applied(m)
  <2> DEFINE asked == [q EXCEPT !.deaf[c.target] = IF m = "interlock" THEN @ ELSE ~Carries(m),
                                !.effects[c] = IF Carries(m) THEN @ + 1 ELSE @]
  <2>1. asked = told
    BY <1>2 DEF PlantType
  <2>2. r = [plant |-> IF Remembers(m) THEN [asked EXCEPT !.cached[id] = entry] ELSE asked,
             error |-> m = "interlock", applied |-> Applied(m)]
    BY Zenon DEF Invocation
  <2> HIDE DEF asked, told, r
  <2> QED
    BY <2>1, <2>2
<1> HIDE DEF q, r
<1>4. c.target \in Target => v \in BOOLEAN
  BY <1>2 DEF PlantType, Carries
<1> HIDE DEF v
<1>5. d \in PlantType /\ d.effects = p.effects
  BY <1>2, <1>4, DeafIsTyped
<1> HIDE DEF d
<1>6. f \in [Content -> Nat]
  BY DEF PlantType
<1>7. f = p.effects \/ (m # "interlock" /\ f = [p.effects EXCEPT ![c] = @ + 1])
  <2>1. CASE Carries(m)
    BY <2>1 DEF Carries, PlantType
  <2>2. CASE ~Carries(m)
    BY <2>2 DEF PlantType
  <2> QED
    BY <2>1, <2>2
<1> HIDE DEF f
<1>8. told \in PlantType /\ told.effects = f
  BY <1>5, <1>6, EffectsAreTyped
<1> HIDE DEF told
<1>9. kept \in PlantType /\ kept.effects = f
  <2>1. entry \in [target : Target \cup {NoTarget}, value : Nat, applied : BOOLEAN]
    BY <1>1 DEF Applied
  <2> HIDE DEF entry
  <2>2. [told.cached EXCEPT ![id] = entry] \in
          [Id -> [target : Target \cup {NoTarget}, value : Nat, applied : BOOLEAN]]
    BY <1>8, <2>1 DEF PlantType
  <2> QED
    BY <1>8, <2>2 DEF PlantType
<1> HIDE DEF kept
<1> QED
  <2>1. r.plant \in PlantType /\ r.plant.effects = f
    BY <1>3, <1>8, <1>9
  <2>2. r.error \in BOOLEAN /\ r.applied \in BOOLEAN
    BY <1>3 DEF Applied
  <2> QED
    BY <1>3, <1>7, <2>1, <2>2 DEF Outcome, r

LEMMA PlantHasOneEffect ==
  ASSUME NEW d \in DeviceType, NEW id \in Id, NEW c \in Content, NEW stuck \in BOOLEAN,
         NEW r \in Actuated(d, id, c, stuck)
  PROVE  Outcome(d.plant, r, c)
<1> DEFINE p == d.plant
<1>1. p \in PlantType
  BY DEF DeviceType
<1>2. CASE stuck
  <2>1. r = [plant |-> [p EXCEPT !.deaf[c.target] = TRUE], error |-> FALSE, applied |-> FALSE]
    BY <1>2, Zenon DEF Actuated
  <2> HIDE DEF p
  <2>2. /\ [p EXCEPT !.deaf[c.target] = TRUE] \in PlantType
        /\ [p EXCEPT !.deaf[c.target] = TRUE].effects = p.effects
    BY <1>1, DeafIsTyped
  <2>3. Outcome(p, r, c)
    BY <2>1, <2>2 DEF Outcome
  <2> QED
    BY <2>3 DEF p
<1>3. CASE ~stuck
  <2>1. r \in ApplyPlant(p, id, c)
    BY <1>3, Zenon DEF Actuated
  <2>2. CASE Cached(p, id)
    <3>1. r = Replay(p, id, c)
      BY <2>1, <2>2, Zenon DEF ApplyPlant
    <3> QED
      BY <1>1, <3>1, ReplayHasNoEffect, Zenon
  <2>3. CASE ~Cached(p, id)
    <3>1. PICK m \in Mode : r = Invocation(p, m, id, c)
      BY <2>1, <2>3, Zenon DEF ApplyPlant
    <3> QED
      BY <1>1, <3>1, InvocationHasOneEffect, Zenon
  <2> QED
    BY <2>2, <2>3
<1> QED
  BY <1>2, <1>3

(* A command that is executed leaves the memory and the boot alone; the one *)
(* effect it may have had means that it is accepted.                        *)
Executed(d, x, c) ==
  /\ x.device \in DeviceType /\ x.accepted \in BOOLEAN
  /\ x.device.boot = d.boot /\ x.device.dedup = d.dedup
  /\ x.device.accepted = d.accepted /\ x.device.schedule = d.schedule
  /\ \/ x.device.plant.effects = d.plant.effects
     \/ x.accepted /\ x.device.plant.effects = [d.plant.effects EXCEPT ![c] = @ + 1]

Output == Target \cup {NoTarget}

Setting(d, p, t, on, off, until) ==
  [d EXCEPT !.plant = p, !.cur = t, !.energized = on, !.safe = off, !.lease = until]

(* Everything but the output, its lease and the plant stays as it is.       *)
SameMemory(e, d) ==
  /\ e.boot = d.boot /\ e.dedup = d.dedup
  /\ e.accepted = d.accepted /\ e.schedule = d.schedule

LEMMA SetOutput ==
  ASSUME NEW d \in DeviceType, NEW p \in PlantType, NEW t \in Output,
         NEW on \in BOOLEAN, NEW off \in BOOLEAN, NEW until \in Nat
  PROVE  /\ Setting(d, p, t, on, off, until) \in DeviceType
         /\ Setting(d, p, t, on, off, until).plant = p
         /\ SameMemory(Setting(d, p, t, on, off, until), d)
<1> DEFINE e == Setting(d, p, t, on, off, until)
<1>1. e \in DeviceType
  BY DEF DeviceType, Setting, Output
<1>2. e.plant = p
  BY DEF DeviceType, Setting
<1>3. SameMemory(e, d)
  BY DEF DeviceType, Setting, SameMemory
<1> QED
  BY <1>1, <1>2, <1>3

LEMMA ExecuteHasOneEffect ==
  ASSUME NEW d \in DeviceType, NEW id \in Id, NEW c \in Content, NEW at \in Nat,
         NEW stuck \in BOOLEAN, NEW x \in Execute(d, id, c, at, stuck)
  PROVE  Executed(d, x, c)
<1>1. c.target \in Target \cup {NoTarget} /\ c.lease \in Nat
  BY DeviceAssumption DEF ContentType
<1>2. d.plant \in PlantType
  BY DEF DeviceType
<1>3. CASE c.op = "safe_stop"
  <2>1. PICK r \in SafeStop(d.plant, c.target) :
          x = [accepted |-> r.confirmed,
               device |-> IF r.confirmed
                            THEN [d EXCEPT !.plant = r.plant, !.cur = c.target,
                                           !.energized = FALSE, !.safe = TRUE, !.lease = 0]
                            ELSE [d EXCEPT !.plant = r.plant]]
    BY <1>3, Zenon DEF Execute, ExecuteSafeStop
  <2>2. r.plant \in PlantType /\ r.plant.effects = d.plant.effects /\ r.confirmed \in BOOLEAN
    BY <1>2, StopKeepsEffects
  <2>3. CASE r.confirmed
    <3>1. x.device = [d EXCEPT !.plant = r.plant, !.cur = c.target,
                               !.energized = FALSE, !.safe = TRUE, !.lease = 0]
      BY <2>1, <2>3
    <3>2. x.accepted \in BOOLEAN
      BY <2>1, <2>2
    <3>3. /\ x.device \in DeviceType /\ x.device.plant = r.plant
          /\ x.device.boot = d.boot /\ x.device.dedup = d.dedup
          /\ x.device.accepted = d.accepted /\ x.device.schedule = d.schedule
      <4> DEFINE on == FALSE
                 off == TRUE
                 until == 0
      <4>1. on \in BOOLEAN /\ off \in BOOLEAN /\ until \in Nat
        OBVIOUS
      <4>2. x.device = Setting(d, r.plant, c.target, on, off, until)
        BY <3>1 DEF Setting
      <4>3. r.plant \in PlantType /\ c.target \in Output
        BY <1>1, <2>2 DEF Output
      <4> HIDE DEF on, off, until
      <4> DEFINE e == Setting(d, r.plant, c.target, on, off, until)
      <4>4. e \in DeviceType /\ e.plant = r.plant /\ SameMemory(e, d)
        BY <4>1, <4>3, SetOutput DEF Output
      <4> HIDE DEF e
      <4>5. x.device = e
        BY <4>2 DEF e
      <4> QED
        BY <4>4, <4>5 DEF SameMemory
    <3> QED
      BY <2>2, <3>2, <3>3 DEF Executed
  <2>4. CASE ~r.confirmed
    <3>1. x.device = [d EXCEPT !.plant = r.plant]
      BY <2>1, <2>4
    <3>2. x.accepted \in BOOLEAN
      BY <2>1, <2>2
    <3> QED
      BY <2>2, <3>1, <3>2 DEF Executed, DeviceType
  <2> QED
    BY <2>3, <2>4
<1>4. CASE c.op # "safe_stop"
  <2> DEFINE lease == IF c.lease = 0 THEN 0 ELSE at + c.lease
  <2>1. PICK r \in Actuated(d, id, c, stuck) :
          x = [accepted |-> ~r.error,
               device |-> IF r.error
                            THEN [d EXCEPT !.plant = r.plant]
                            ELSE [d EXCEPT !.plant = r.plant, !.cur = c.target,
                                           !.energized = r.applied, !.safe = ~r.applied,
                                           !.lease = lease]]
    BY <1>4, Zenon DEF Execute, ExecutePlantCommand
  <2>2. Outcome(d.plant, r, c)
    BY PlantHasOneEffect
  <2>3. lease \in Nat
    BY <1>1
  <2> HIDE DEF lease
  <2>4. CASE r.error
    <3>1. x.device = [d EXCEPT !.plant = r.plant] /\ x.accepted = FALSE
      BY <2>1, <2>2, <2>4 DEF Outcome
    <3>2. x.device \in DeviceType /\ x.device.plant = r.plant
      BY <2>2, <3>1 DEF DeviceType, Outcome
    <3>3. /\ x.device.boot = d.boot /\ x.device.dedup = d.dedup
          /\ x.device.accepted = d.accepted /\ x.device.schedule = d.schedule
      BY <3>1 DEF DeviceType
    <3> QED
      BY <2>2, <2>4, <3>1, <3>2, <3>3 DEF Executed, Outcome
  <2>5. CASE ~r.error
    <3>1. /\ x.device = [d EXCEPT !.plant = r.plant, !.cur = c.target,
                                  !.energized = r.applied, !.safe = ~r.applied,
                                  !.lease = lease]
          /\ x.accepted = TRUE
      BY <2>1, <2>2, <2>5 DEF Outcome
    <3>2. x.device \in DeviceType /\ x.device.plant = r.plant
      BY <1>1, <2>2, <2>3, <3>1 DEF DeviceType, Outcome
    <3>3. /\ x.device.boot = d.boot /\ x.device.dedup = d.dedup
          /\ x.device.accepted = d.accepted /\ x.device.schedule = d.schedule
      BY <3>1 DEF DeviceType
    <3> QED
      BY <2>2, <3>1, <3>2, <3>3 DEF Executed, Outcome
  <2> QED
    BY <2>2, <2>4, <2>5 DEF Outcome
<1> QED
  BY <1>3, <1>4

LEMMA RebootForgets ==
  ASSUME NEW d \in DeviceType, NEW n \in Nat, NEW r \in Reboot(d, n)
  PROVE  /\ r \in DeviceType /\ r.boot = n /\ r.accepted = d.accepted /\ r.dedup = {}
         /\ r.plant.effects = d.plant.effects
<1>1. PICK s \in StopCurrent(d) :
        r = [d EXCEPT !.plant = s.plant, !.energized = ~s.confirmed, !.safe = s.confirmed,
                      !.cur = IF s.confirmed THEN NoTarget ELSE @,
                      !.boot = n, !.dedup = {}, !.lease = 0]
  BY Zenon DEF Reboot
<1>2. s.plant \in PlantType /\ s.plant.effects = d.plant.effects /\ s.confirmed \in BOOLEAN
  BY StopCurrentKeepsEffects
<1> DEFINE cur == IF s.confirmed THEN NoTarget ELSE d.cur
<1>3. cur \in Target \cup {NoTarget}
  BY DEF DeviceType
<1>4. r = [d EXCEPT !.plant = s.plant, !.energized = ~s.confirmed, !.safe = s.confirmed,
                    !.cur = cur, !.boot = n, !.dedup = {}, !.lease = 0]
  BY <1>1 DEF DeviceType
<1> HIDE DEF cur
<1>5. r \in DeviceType
  BY <1>2, <1>3, <1>4 DEF DeviceType
<1>6. r.boot = n /\ r.accepted = d.accepted /\ r.dedup = {} /\ r.plant = s.plant
  BY <1>4 DEF DeviceType
<1> QED
  BY <1>2, <1>5, <1>6

(* A command that is admitted in a boot that does not remember it has had   *)
(* no effect yet; afterwards it is remembered, or its boot is over.         *)
LEMMA ScheduledIsOnce ==
  ASSUME NEW d, Sound(d), NEW id \in Id, NEW c \in Content, NEW at \in Nat,
         c.boot = d.boot, Known(d, c) = {}, NEW y \in ExecuteScheduled(d, id, c, at)
  PROVE  Sound(y.device)
<1> DEFINE n == IF d.accepted > Len(d.schedule) THEN d.accepted ELSE d.accepted + 1
           faults == IF n <= Len(d.schedule) THEN d.schedule[n] ELSE {}
           taken == [d EXCEPT !.accepted = n]
<1>1. d \in DeviceType /\ d.boot <= d.accepted /\ Once(d) /\ d.boot \in Nat /\ d.accepted \in Nat
  BY DEF Sound, DeviceType
<1>2. n \in Nat /\ d.accepted <= n /\ (faults # {} => d.boot < n) /\ faults \in SUBSET Fault
  <2>1. d.schedule \in Seq(SUBSET Fault)
    BY <1>1, DeviceAssumption DEF DeviceType
  <2>2. Len(d.schedule) \in Nat
    BY <2>1
  <2>3. n \in Nat /\ d.accepted <= n /\ n >= 1
    BY <1>1, <2>2
  <2>4. faults # {} => n <= Len(d.schedule)
    OBVIOUS
  <2>5. n <= Len(d.schedule) => d.boot < n /\ d.schedule[n] \in SUBSET Fault
    BY <1>1, <2>1, <2>2, <2>3
  <2> QED
    BY <2>3, <2>4, <2>5
<1>3. /\ taken \in DeviceType /\ taken.boot = d.boot /\ taken.dedup = d.dedup
      /\ taken.accepted = n /\ taken.plant = d.plant /\ taken.schedule = d.schedule
  BY <1>1, <1>2 DEF DeviceType
<1> DEFINE stuck == "stuck" \in faults
<1>7. stuck \in BOOLEAN
  OBVIOUS
<1>4. y \in IF faults \cap {"stale", "expired"} # {} THEN {Rejection(taken)}
            ELSE UNION {Complete(x, id, c, at, n, faults)
                          : x \in Execute(taken, id, c, at, stuck)}
  BY Zenon DEF ExecuteScheduled
<1> HIDE DEF n, faults, taken, stuck
<1>5. CASE faults \cap {"stale", "expired"} # {}
  <2>1. y.device = taken
    BY <1>4, <1>5 DEF Rejection
  <2> QED
    BY <1>1, <1>2, <1>3, <2>1 DEF Sound, Once, Known
<1>6. CASE faults \cap {"stale", "expired"} = {}
  <2>1. PICK x \in Execute(taken, id, c, at, stuck) :
          y \in Complete(x, id, c, at, n, faults)
    BY <1>4, <1>6, Zenon
  <2>2. Executed(taken, x, c)
    BY <1>3, <1>7, <2>1, ExecuteHasOneEffect, Zenon
  <2> DEFINE e == x.device
  <2>3. /\ e \in DeviceType /\ x.accepted \in BOOLEAN
        /\ e.boot = d.boot /\ e.dedup = d.dedup /\ e.accepted = n
        /\ \/ e.plant.effects = d.plant.effects
           \/ x.accepted /\ e.plant.effects = [d.plant.effects EXCEPT ![c] = @ + 1]
    BY <1>3, <2>2 DEF Executed
  <2>4. d.plant.effects \in [Content -> Nat] /\ d.plant.effects[c] = 0
    <3>1. d.plant.effects \in [Content -> Nat]
      BY <1>1 DEF DeviceType, PlantType
    <3>2. ~ d.plant.effects[c] > 0
      BY <1>1 DEF Once
    <3> QED
      BY <3>1, <3>2
  <2> HIDE DEF e
  <2>5. \A b \in Content : /\ e.plant.effects[b] <= 1
                           /\ e.plant.effects[b] > 0 => b.boot <= d.boot
                           /\ e.plant.effects[b] > 0 /\ b.boot = d.boot /\ b # c => Known(d, b) # {}
    <3> SUFFICES ASSUME NEW b \in Content
                 PROVE  /\ e.plant.effects[b] <= 1
                        /\ e.plant.effects[b] > 0 => b.boot <= d.boot
                        /\ e.plant.effects[b] > 0 /\ b.boot = d.boot /\ b # c => Known(d, b) # {}
      OBVIOUS
    <3>1. CASE b = c
      BY <1>1, <2>3, <2>4, <3>1
    <3>2. CASE b # c
      <4>1. e.plant.effects[b] = d.plant.effects[b]
        BY <2>3, <2>4, <3>2
      <4> QED
        BY <1>1, <3>2, <4>1 DEF Once
    <3> QED
      BY <3>1, <3>2
  <2>6. CASE ~x.accepted
    <3>1. y.device = e
      BY <2>1, <2>6 DEF Complete, Rejection, e
    <3>2. e.plant.effects = d.plant.effects
      BY <2>3, <2>6
    <3> QED
      BY <1>1, <1>2, <2>3, <3>1, <3>2 DEF Sound, Once, Known
  <2>7. CASE x.accepted /\ "reboot" \in faults
    <3>1. y.device \in Reboot(e, n)
      BY <2>1, <2>7 DEF Complete, e
    <3>2. /\ y.device \in DeviceType /\ y.device.boot = n /\ y.device.accepted = n
          /\ y.device.plant.effects = e.plant.effects
      BY <1>2, <2>3, <3>1, RebootForgets
    <3>3. d.boot < n
      BY <1>2, <2>7
    <3>4. ASSUME NEW b \in Content
          PROVE  /\ y.device.plant.effects[b] <= 1
                 /\ y.device.plant.effects[b] > 0 => b.boot < n
      <4>1. b.boot \in Nat
        BY DeviceAssumption DEF ContentType
      <4> QED
        BY <1>1, <1>2, <2>5, <3>2, <3>3, <4>1
    <3>5. \A b \in Content : b.boot \in Nat
      BY DeviceAssumption DEF ContentType
    <3> QED
      BY <1>2, <3>2, <3>4, <3>5 DEF Sound, Once
  <2>8. CASE x.accepted /\ "reboot" \notin faults
    <3> DEFINE entry == [content |-> c, evidence |-> [accepted |-> TRUE, id |-> id], faults |-> {}]
    <3>1. y.device = [e EXCEPT !.dedup = @ \cup {entry}]
      BY <2>1, <2>8 DEF Complete, Remember, e
    <3>2. entry \in Entry
      BY DEF Entry, EvidenceType
    <3>3. entry.content.key = c.key
      OBVIOUS
    <3> HIDE DEF entry
    <3>4. /\ y.device \in DeviceType /\ y.device.dedup = d.dedup \cup {entry}
          /\ y.device.boot = d.boot /\ y.device.accepted = n /\ y.device.plant = e.plant
      BY <2>3, <3>1, <3>2 DEF DeviceType
    <3>5. Known(y.device, c) # {} /\ \A b \in Content : Known(d, b) # {} => Known(y.device, b) # {}
      BY <3>3, <3>4 DEF Known
    <3> QED
      BY <1>1, <1>2, <2>5, <3>4, <3>5 DEF Sound, Once
  <2> QED
    BY <2>3, <2>6, <2>7, <2>8
<1> QED
  BY <1>5, <1>6

LEMMA IdentifiedIsOnce ==
  ASSUME NEW d, Sound(d), NEW id \in Id, NEW c \in Content, NEW at \in Nat,
         NEW y \in Identified(d, id, c, at)
  PROVE  Sound(y.device)
<1>1. CASE Known(d, c) # {}
  <2>1. y \in Repeat(d, c)
    BY <1>1, Zenon DEF Identified
  <2>2. PICK e \in Known(d, c) :
          y = IF e.content = c THEN [device |-> d, evidence |-> e.evidence, faults |-> e.faults]
                               ELSE Rejection(d)
    BY <2>1, Zenon DEF Repeat
  <2>3. y.device = d
    BY <2>2 DEF Rejection
  <2> QED
    BY <2>3
<1>2. CASE Known(d, c) = {} /\ Admits(d, c, at)
  <2>1. y \in ExecuteScheduled(d, id, c, at)
    BY <1>2, Zenon DEF Identified
  <2>2. c.boot = d.boot
    BY <1>2, Zenon DEF Admits
  <2> QED
    BY <1>2, <2>1, <2>2, ScheduledIsOnce
<1>3. CASE Known(d, c) = {} /\ ~Admits(d, c, at)
  <2>1. y = Rejection(d)
    BY <1>3, Zenon DEF Identified
  <2> QED
    BY <2>1 DEF Rejection
<1> QED
  BY <1>1, <1>2, <1>3

LEMMA ApplyIsOnce ==
  ASSUME NEW d, Sound(d), NEW id \in Id, NEW c \in Content, NEW at \in Nat,
         NEW y \in ApplyCommand(d, id, c, at)
  PROVE  Sound(y.device)
<1>1. PICK e \in ExpireLease(d, at) : y \in Identified(e, id, c, at)
  BY Zenon DEF ApplyCommand
<1>2. Sound(e)
  BY <1>1, ExpiryKeepsSound
<1> QED
  BY <1>1, <1>2, IdentifiedIsOnce

(* The duplicate fault applies the command once more.                       *)
LEMMA FrameIsOnce ==
  ASSUME NEW d, Sound(d), NEW id \in Id, NEW c \in Content, NEW at \in Nat,
         NEW y \in ApplyFrame(d, id, c, at)
  PROVE  Sound(y.device)
<1>1. PICK r \in ApplyCommand(d, id, c, at) :
        y \in IF "duplicate" \in r.faults
                THEN {[r EXCEPT !.device = again.device]
                        : again \in ApplyCommand(r.device, id, c, at)}
                ELSE {r}
  BY Zenon DEF ApplyFrame
<1>2. Sound(r.device)
  BY <1>1, ApplyIsOnce
<1>3. CASE "duplicate" \in r.faults
  <2>1. PICK again \in ApplyCommand(r.device, id, c, at) :
          y = [r EXCEPT !.device = again.device]
    BY <1>1, <1>3, Zenon
  <2>2. Sound(again.device)
    BY <1>2, <2>1, ApplyIsOnce
  <2>3. PICK e \in ExpireLease(d, at) : r \in Identified(e, id, c, at)
    BY <1>1, Zenon DEF ApplyCommand
  <2> QED
    BY <2>1, <2>2, <2>3
<1>4. CASE "duplicate" \notin r.faults
  BY <1>1, <1>2, <1>4
<1> QED
  BY <1>3, <1>4

LEMMA QuietLines ==
  ASSUME NEW faults, NEW done, inbox \in Seq(Line), inbox # << >>, Reply(faults, done)
  PROVE  inbox' \in Seq(Line)
<1>1. inbox' = Tail(inbox) \/ inbox' = << >>
  BY DEF Reply
<1>2. Tail(inbox) \in Seq(Line) /\ << >> \in Seq(Line)
  OBVIOUS
<1> QED
  BY <1>1, <1>2

LEMMA WrittenLines ==
  ASSUME NEW line \in Line, inbox \in Seq(Line), Write(line)
  PROVE  inbox' \in Seq(Line)
BY DEF Write

LEMMA StartsOnce == Init => OnceInv
<1> SUFFICES ASSUME Init PROVE OnceInv
  OBVIOUS
<1> DEFINE plant == [driven |-> [t \in Target |-> FALSE], deaf |-> [t \in Target |-> FALSE],
                     cached |-> [i \in Id |-> NotCached], effects |-> [c \in Content |-> 0]]
<1>1. PICK s \in Schedules :
        device = [boot |-> 0, dedup |-> {}, accepted |-> 0, cur |-> NoTarget,
                  energized |-> FALSE, safe |-> TRUE, lease |-> 0, schedule |-> s,
                  plant |-> plant]
  BY Zenon DEF Init
<1>2. plant \in PlantType
  BY DEF PlantType, NotCached
<1>3. \A c \in Content : plant.effects[c] = 0
  OBVIOUS
<1> HIDE DEF plant
<1>4. device \in DeviceType /\ device.plant = plant /\ device.boot = 0 /\ device.accepted = 0
  BY <1>1, <1>2 DEF DeviceType
<1>5. Once(device)
  BY <1>3, <1>4 DEF Once
<1>6. inbox = << >> /\ now = 0
  BY DEF Init
<1> QED
  BY <1>4, <1>5, <1>6 DEF OnceInv, Sound

LEMMA StaysOnce == OnceInv /\ [Next]_vars => OnceInv'
<1> SUFFICES ASSUME OnceInv, [Next]_vars PROVE OnceInv'
  OBVIOUS
<1> USE DEF OnceInv
<1>1. CASE Connect
  <2>1. Sound(device')
    BY <1>1, ExpiryKeepsSound DEF Connect
  <2> QED
    BY <1>1, <2>1 DEF Connect
<1>2. ASSUME NEW c \in Content, Send(c) PROVE OnceInv'
  <2>1. PICK id \in Id : Write([kind |-> "command", id |-> id, content |-> c])
    BY <1>2 DEF Send
  <2>2. [kind |-> "command", id |-> id, content |-> c] \in Line
    BY DEF Line
  <2>3. inbox' \in Seq(Line)
    BY <2>1, <2>2, WrittenLines
  <2> QED
    BY <2>1, <2>3 DEF Write
<1>3. CASE Query
  <2>1. [kind |-> "query_state"] \in Line
    BY DEF Line
  <2>2. Write([kind |-> "query_state"])
    BY <1>3 DEF Query
  <2>3. inbox' \in Seq(Line)
    BY <2>1, <2>2, WrittenLines
  <2> QED
    BY <2>2, <2>3 DEF Write
<1>4. CASE HangUp
  BY <1>4 DEF HangUp
<1>5. CASE ServeQuery
  <2>1. Sound(device')
    BY <1>5, ExpiryKeepsSound DEF ServeQuery
  <2>2. inbox' \in Seq(Line)
    BY <1>5, QuietLines DEF ServeQuery
  <2> QED
    BY <1>5, <2>1, <2>2 DEF ServeQuery
<1>6. CASE ServeCommand
  <2> DEFINE line == Head(inbox)
  <2>1. line \in Line /\ line.kind = "command"
    BY <1>6 DEF ServeCommand
  <2>2. line.id \in Id /\ line.content \in Content
    BY <2>1 DEF Line
  <2>3. PICK r \in ApplyFrame(device, line.id, line.content, now) :
          device' = r.device /\ Reply(r.faults, {line.content})
    BY <1>6, Zenon DEF ServeCommand
  <2>4. Sound(device')
    BY <2>2, <2>3, FrameIsOnce
  <2>5. inbox' \in Seq(Line)
    BY <1>6, <2>3, QuietLines DEF ServeCommand
  <2> QED
    BY <1>6, <2>4, <2>5 DEF ServeCommand
<1>7. CASE EndOfInput
  BY <1>7 DEF EndOfInput
<1>8. CASE Tick
  BY <1>8 DEF Tick
<1>9. CASE UNCHANGED vars
  BY <1>9 DEF vars
<1> QED
  BY <1>1, <1>2, <1>3, <1>4, <1>5, <1>6, <1>7, <1>8, <1>9 DEF Next

(* However a command is retried, relabelled, duplicated on the wire, or     *)
(* sent to a device that has rebooted, the world carries its content out at *)
(* most once (command_execution.go:10, admission.go:11, state.go:16).       *)
THEOREM OneEffectPerCommand == Spec => []OncePerCommand
<1>1. OnceInv => OncePerCommand
  BY DEF OnceInv, Sound, Once, OncePerCommand
<1> QED
  BY <1>1, StartsOnce, StaysOnce, PTL DEF Spec

(* --- What is reported as off ---------------------------------------------*)
Off(d) ==
  d.cur \in Stoppable /\ ~d.energized /\ ~d.plant.deaf[d.cur] => ~d.plant.driven[d.cur]

(* A stop that the world confirms leaves the output off, or the world did   *)
(* not do it; another may turn the output off and never on.                 *)
LEMMA StopTurnsOff ==
  ASSUME NEW p \in PlantType, NEW t \in Target, NEW r \in SafeStop(p, t)
  PROVE  /\ r.confirmed => r.plant.deaf[t] \/ ~r.plant.driven[t]
         /\ ~r.confirmed => /\ r.plant.deaf = p.deaf
                            /\ \A u \in Target : r.plant.driven[u] => p.driven[u]
<1>1. PICK m \in Mode :
        r = [plant |-> [Drive(p, m, t, 0) EXCEPT
                 !.deaf[t] = IF Applied(m) /\ Accepted(m) THEN m = "silent" ELSE @],
             confirmed |-> Applied(m) /\ Accepted(m)]
  BY Zenon DEF SafeStop
<1> DEFINE q == Drive(p, m, t, 0)
           v == IF Applied(m) /\ Accepted(m) THEN m = "silent" ELSE q.deaf[t]
<1>2. q \in PlantType /\ p \in PlantType
  BY DriveIsTyped
<1>3. r.plant = [q EXCEPT !.deaf[t] = v] /\ r.confirmed = (Applied(m) /\ Accepted(m))
  BY <1>1
<1>4. q = IF Carries(m) THEN [p EXCEPT !.driven[t] = FALSE] ELSE p
  <2>1. (0 > 0) = FALSE
    OBVIOUS
  <2> QED
    BY <2>1, Zenon DEF Drive
<1> HIDE DEF q
<1>5. q.deaf = p.deaf /\ \A u \in Target : q.driven[u] => p.driven[u]
  BY <1>2, <1>4 DEF PlantType
<1>6. Carries(m) => ~q.driven[t]
  BY <1>2, <1>4 DEF PlantType
<1>7. r.plant.driven = q.driven /\ r.plant.deaf = [q.deaf EXCEPT ![t] = v]
  BY <1>2, <1>3 DEF PlantType
<1>8. CASE Applied(m) /\ Accepted(m)
  <2>1. m \in {"ok", "silent"}
    BY <1>8 DEF Applied, Accepted
  <2>2. v = (m = "silent")
    BY <1>8
  <2> HIDE DEF v
  <2>3. r.plant.deaf[t] = v
    BY <1>2, <1>7 DEF PlantType
  <2> QED
    BY <1>3, <1>6, <1>7, <1>8, <2>1, <2>2, <2>3 DEF Carries
<1>9. CASE ~(Applied(m) /\ Accepted(m))
  <2>1. v = q.deaf[t]
    BY <1>9
  <2> HIDE DEF v
  <2>2. r.plant.deaf = q.deaf
    BY <1>2, <1>7, <2>1 DEF PlantType
  <2> QED
    BY <1>3, <1>5, <1>7, <1>9, <2>2
<1> QED
  BY <1>8, <1>9

LEMMA StopCurrentTurnsOff ==
  ASSUME NEW d \in DeviceType, NEW r \in StopCurrent(d), r.confirmed, d.cur \in Stoppable
  PROVE  r.plant.deaf[d.cur] \/ ~r.plant.driven[d.cur]
<1>1. d.plant \in PlantType /\ d.cur \in Target
  BY DeviceAssumption DEF DeviceType
<1>2. r \in SafeStop(d.plant, d.cur)
  BY DEF StopCurrent
<1> QED
  BY <1>1, <1>2, StopTurnsOff

LEMMA ExpiryIsOff ==
  ASSUME NEW d, Sound(d), Off(d), NEW at \in Nat, NEW e \in ExpireLease(d, at)
  PROVE  Off(e)
<1>1. CASE LeaseOver(d, at)
  <2>1. PICK r \in StopCurrent(d) :
          e = [d EXCEPT !.plant = r.plant, !.energized = ~r.confirmed,
                        !.safe = r.confirmed, !.lease = 0]
    BY <1>1 DEF ExpireLease
  <2>2. e.plant = r.plant /\ e.cur = d.cur /\ e.energized = ~r.confirmed
    BY <2>1 DEF Sound, DeviceType
  <2>3. r.confirmed /\ d.cur \in Stoppable => r.plant.deaf[d.cur] \/ ~r.plant.driven[d.cur]
    BY StopCurrentTurnsOff DEF Sound
  <2> QED
    BY <2>2, <2>3 DEF Off
<1>2. CASE ~LeaseOver(d, at)
  BY <1>2 DEF ExpireLease
<1> QED
  BY <1>1, <1>2

LEMMA RebootIsOff ==
  ASSUME NEW d \in DeviceType, NEW n \in Nat, NEW r \in Reboot(d, n)
  PROVE  Off(r)
<1>1. PICK s \in StopCurrent(d) :
        r = [d EXCEPT !.plant = s.plant, !.energized = ~s.confirmed, !.safe = s.confirmed,
                      !.cur = IF s.confirmed THEN NoTarget ELSE @,
                      !.boot = n, !.dedup = {}, !.lease = 0]
  BY Zenon DEF Reboot
<1>2. r.energized = ~s.confirmed /\ (s.confirmed => r.cur = NoTarget)
  BY <1>1 DEF DeviceType
<1> QED
  BY <1>2, DeviceAssumption DEF Off

(* What the plant makes of a command: an error leaves the outputs, and      *)
(* unless the world says that it applied it, the output did not hear it.    *)
Heard(p, r, t) ==
  /\ r.error => r.plant.driven = p.driven /\ r.plant.deaf = p.deaf
  /\ ~r.error /\ ~r.applied /\ t \in Target => r.plant.deaf[t]

LEMMA ReplayIsHeard ==
  ASSUME NEW p \in PlantType, NEW id \in Id, NEW c \in Content
  PROVE  Heard(p, Replay(p, id, c), c.target)
<1> DEFINE known == p.cached[id]
           same == known.target = c.target /\ known.value = c.value
           v == IF same THEN TRUE ELSE p.deaf[c.target]
           r == Replay(p, id, c)
<1>1. /\ r.plant = [p EXCEPT !.deaf[c.target] = v]
      /\ r.error = ~same
  BY DEF Replay
<1> HIDE DEF r
<1>2. r.plant.driven = p.driven /\ r.plant.deaf = [p.deaf EXCEPT ![c.target] = v]
  BY <1>1 DEF PlantType
<1>3. CASE same
  <2>1. v = TRUE
    BY <1>3
  <2> HIDE DEF v
  <2>2. c.target \in Target => r.plant.deaf[c.target]
    BY <1>2, <2>1 DEF PlantType
  <2> QED
    BY <1>1, <1>3, <2>2 DEF Heard, r
<1>4. CASE ~same
  <2>1. v = p.deaf[c.target]
    BY <1>4
  <2> HIDE DEF v
  <2>2. r.plant.deaf = p.deaf
    BY <1>2, <2>1 DEF PlantType
  <2> QED
    BY <1>1, <1>2, <1>4, <2>2 DEF Heard, r
<1> QED
  BY <1>3, <1>4

LEMMA InvocationIsHeard ==
  ASSUME NEW p \in PlantType, NEW m \in Mode, NEW id \in Id, NEW c \in Content
  PROVE  Heard(p, Invocation(p, m, id, c), c.target)
<1>1. c.value \in Nat
  BY DeviceAssumption DEF ContentType
<1> DEFINE q == Drive(p, m, c.target, c.value)
           v == IF m = "interlock" THEN q.deaf[c.target] ELSE ~Carries(m)
           f == [q.effects EXCEPT ![c] = IF Carries(m) THEN q.effects[c] + 1 ELSE q.effects[c]]
           deaf == [q.deaf EXCEPT ![c.target] = v]
           told == [q EXCEPT !.deaf = deaf, !.effects = f]
           entry == [target |-> c.target, value |-> c.value, applied |-> Applied(m)]
           r == Invocation(p, m, id, c)
<1>2. q \in PlantType
  BY <1>1, DriveIsTyped
<1>3. /\ r.plant = IF Remembers(m) THEN [told EXCEPT !.cached[id] = entry] ELSE told
      /\ r.error = (m = "interlock") /\ r.applied = Applied(m)
  <2> DEFINE asked == [q EXCEPT !.deaf[c.target] = IF m = "interlock" THEN @ ELSE ~Carries(m),
                                !.effects[c] = IF Carries(m) THEN @ + 1 ELSE @]
  <2>1. asked = told
    BY <1>2 DEF PlantType
  <2>2. r = [plant |-> IF Remembers(m) THEN [asked EXCEPT !.cached[id] = entry] ELSE asked,
             error |-> m = "interlock", applied |-> Applied(m)]
    BY Zenon DEF Invocation
  <2> HIDE DEF asked, told, r
  <2> QED
    BY <2>1, <2>2
<1> HIDE DEF r, entry, f
<1>4. told.driven = q.driven /\ told.deaf = deaf /\ told = [told EXCEPT !.driven = q.driven]
  BY <1>2 DEF PlantType
<1>5. r.plant.driven = q.driven /\ r.plant.deaf = deaf
  BY <1>2, <1>3 DEF PlantType
<1>6. CASE m = "interlock"
  <2>1. q = p
    BY <1>6 DEF Drive, Carries
  <2>2. v = q.deaf[c.target]
    BY <1>6
  <2> HIDE DEF v, q
  <2>3. deaf = p.deaf
    BY <1>2, <2>1, <2>2 DEF PlantType
  <2> QED
    BY <1>3, <1>5, <1>6, <2>1, <2>3 DEF Heard, r
<1>7. CASE m # "interlock"
  <2>1. ~Applied(m) => v = TRUE
    BY <1>7 DEF Applied, Carries
  <2> HIDE DEF v, q
  <2>2. ~Applied(m) /\ c.target \in Target => deaf[c.target]
    BY <1>2, <2>1 DEF PlantType
  <2> HIDE DEF deaf
  <2> QED
    BY <1>3, <1>5, <1>7, <2>2 DEF Heard, r
<1> QED
  BY <1>6, <1>7

LEMMA PlantIsHeard ==
  ASSUME NEW d \in DeviceType, NEW id \in Id, NEW c \in Content, NEW stuck \in BOOLEAN,
         NEW r \in Actuated(d, id, c, stuck)
  PROVE  Heard(d.plant, r, c.target)
<1>1. d.plant \in PlantType
  BY DEF DeviceType
<1>2. CASE stuck
  <2>1. r = [plant |-> [d.plant EXCEPT !.deaf[c.target] = TRUE], error |-> FALSE, applied |-> FALSE]
    BY <1>2, Zenon DEF Actuated
  <2>2. c.target \in Target => r.plant.deaf[c.target]
    BY <1>1, <2>1 DEF PlantType
  <2> QED
    BY <2>1, <2>2 DEF Heard
<1>3. CASE ~stuck
  <2>1. r \in ApplyPlant(d.plant, id, c)
    BY <1>3, Zenon DEF Actuated
  <2>2. CASE Cached(d.plant, id)
    <3>1. r = Replay(d.plant, id, c)
      BY <2>1, <2>2, Zenon DEF ApplyPlant
    <3> QED
      BY <1>1, <3>1, ReplayIsHeard, Zenon
  <2>3. CASE ~Cached(d.plant, id)
    <3>1. PICK m \in Mode : r = Invocation(d.plant, m, id, c)
      BY <2>1, <2>3, Zenon DEF ApplyPlant
    <3> QED
      BY <1>1, <3>1, InvocationIsHeard, Zenon
  <2> QED
    BY <2>2, <2>3
<1> QED
  BY <1>2, <1>3

LEMMA ExecuteIsOff ==
  ASSUME NEW d \in DeviceType, Off(d), NEW id \in Id, NEW c \in Content, NEW at \in Nat,
         NEW stuck \in BOOLEAN, c.op = "safe_stop" => c.target \in Stoppable,
         NEW x \in Execute(d, id, c, at, stuck)
  PROVE  Off(x.device)
<1>1. d.plant \in PlantType /\ d.cur \in Target \cup {NoTarget} /\ Stoppable \subseteq Target
  BY DeviceAssumption DEF DeviceType
<1>2. CASE c.op = "safe_stop"
  <2>1. PICK r \in SafeStop(d.plant, c.target) :
          x = [accepted |-> r.confirmed,
               device |-> IF r.confirmed
                            THEN [d EXCEPT !.plant = r.plant, !.cur = c.target,
                                           !.energized = FALSE, !.safe = TRUE, !.lease = 0]
                            ELSE [d EXCEPT !.plant = r.plant]]
    BY <1>2, Zenon DEF Execute, ExecuteSafeStop
  <2>2. c.target \in Target
    BY <1>1, <1>2
  <2>3. /\ r.confirmed => r.plant.deaf[c.target] \/ ~r.plant.driven[c.target]
        /\ ~r.confirmed => /\ r.plant.deaf = d.plant.deaf
                           /\ \A u \in Target : r.plant.driven[u] => d.plant.driven[u]
    BY <1>1, <2>2, StopTurnsOff
  <2>4. CASE r.confirmed
    <3>1. x.device = [d EXCEPT !.plant = r.plant, !.cur = c.target,
                               !.energized = FALSE, !.safe = TRUE, !.lease = 0]
      BY <2>1, <2>4
    <3>2. x.device.plant = r.plant /\ x.device.cur = c.target
      BY <3>1 DEF DeviceType
    <3> QED
      BY <2>3, <2>4, <3>2 DEF Off
  <2>5. CASE ~r.confirmed
    <3>1. x.device = [d EXCEPT !.plant = r.plant]
      BY <2>1, <2>5
    <3>2. x.device.plant = r.plant /\ x.device.cur = d.cur /\ x.device.energized = d.energized
      BY <3>1 DEF DeviceType
    <3> QED
      BY <1>1, <2>3, <2>5, <3>2 DEF Off
  <2> QED
    BY <2>4, <2>5
<1>3. CASE c.op # "safe_stop"
  <2> DEFINE lease == IF c.lease = 0 THEN 0 ELSE at + c.lease
  <2>1. PICK r \in Actuated(d, id, c, stuck) :
          x = [accepted |-> ~r.error,
               device |-> IF r.error
                            THEN [d EXCEPT !.plant = r.plant]
                            ELSE [d EXCEPT !.plant = r.plant, !.cur = c.target,
                                           !.energized = r.applied, !.safe = ~r.applied,
                                           !.lease = lease]]
    BY <1>3, Zenon DEF Execute, ExecutePlantCommand
  <2> HIDE DEF lease
  <2>2. Heard(d.plant, r, c.target)
    BY PlantIsHeard
  <2>3. CASE r.error
    <3>1. x.device = [d EXCEPT !.plant = r.plant]
      BY <2>1, <2>3
    <3>2. x.device.plant = r.plant /\ x.device.cur = d.cur /\ x.device.energized = d.energized
      BY <3>1 DEF DeviceType
    <3> QED
      BY <2>2, <2>3, <3>2 DEF Off, Heard
  <2>4. CASE ~r.error
    <3>1. x.device = [d EXCEPT !.plant = r.plant, !.cur = c.target,
                               !.energized = r.applied, !.safe = ~r.applied, !.lease = lease]
      BY <2>1, <2>4
    <3>2. x.device.plant = r.plant /\ x.device.cur = c.target /\ x.device.energized = r.applied
      BY <3>1 DEF DeviceType
    <3> QED
      BY <1>1, <2>2, <2>4, <3>2 DEF Off, Heard
  <2> QED
    BY <2>3, <2>4
<1> QED
  BY <1>2, <1>3

LEMMA ScheduledIsOff ==
  ASSUME NEW d, Sound(d), Off(d), NEW id \in Id, NEW c \in Content, NEW at \in Nat,
         Admits(d, c, at), NEW y \in ExecuteScheduled(d, id, c, at)
  PROVE  Off(y.device)
<1> DEFINE n == IF d.accepted > Len(d.schedule) THEN d.accepted ELSE d.accepted + 1
           faults == IF n <= Len(d.schedule) THEN d.schedule[n] ELSE {}
           taken == [d EXCEPT !.accepted = n]
           stuck == "stuck" \in faults
<1>1. d \in DeviceType /\ d.accepted \in Nat /\ Len(d.schedule) \in Nat
  BY DeviceAssumption DEF Sound, DeviceType
<1>2. n \in Nat
  BY <1>1
<1>3. /\ taken \in DeviceType /\ taken.plant = d.plant /\ taken.cur = d.cur
      /\ taken.energized = d.energized
  BY <1>1, <1>2 DEF DeviceType
<1>4. stuck \in BOOLEAN
  OBVIOUS
<1>5. y \in IF faults \cap {"stale", "expired"} # {} THEN {Rejection(taken)}
            ELSE UNION {Complete(x, id, c, at, n, faults)
                          : x \in Execute(taken, id, c, at, stuck)}
  BY Zenon DEF ExecuteScheduled
<1> HIDE DEF n, faults, taken, stuck
<1>6. Off(taken)
  BY <1>3 DEF Off
<1>7. c.op = "safe_stop" => c.target \in Stoppable
  BY DEF Admits
<1>8. CASE faults \cap {"stale", "expired"} # {}
  BY <1>5, <1>6, <1>8 DEF Rejection
<1>9. CASE faults \cap {"stale", "expired"} = {}
  <2>1. PICK x \in Execute(taken, id, c, at, stuck) :
          y \in Complete(x, id, c, at, n, faults)
    BY <1>5, <1>9, Zenon
  <2>2. x.device \in DeviceType /\ x.accepted \in BOOLEAN
    BY <1>3, <1>4, <2>1, ExecuteHasOneEffect DEF Executed
  <2>3. Off(x.device)
    BY <1>3, <1>4, <1>6, <1>7, <2>1, ExecuteIsOff
  <2>4. CASE ~x.accepted
    BY <2>1, <2>3, <2>4 DEF Complete, Rejection
  <2>5. CASE x.accepted /\ "reboot" \in faults
    <3>1. y.device \in Reboot(x.device, n)
      BY <2>1, <2>5 DEF Complete
    <3> QED
      BY <1>2, <2>2, <3>1, RebootIsOff
  <2>6. CASE x.accepted /\ "reboot" \notin faults
    <3>1. y.device = Remember(x.device, c, [accepted |-> TRUE, id |-> id], faults)
      BY <2>1, <2>6 DEF Complete
    <3>2. /\ y.device.plant = x.device.plant /\ y.device.cur = x.device.cur
          /\ y.device.energized = x.device.energized
      BY <2>2, <3>1 DEF Remember, DeviceType
    <3> QED
      BY <2>3, <3>2 DEF Off
  <2> QED
    BY <2>2, <2>4, <2>5, <2>6
<1> QED
  BY <1>8, <1>9

LEMMA ApplyIsOff ==
  ASSUME NEW d, Sound(d), Off(d), NEW id \in Id, NEW c \in Content, NEW at \in Nat,
         NEW y \in ApplyCommand(d, id, c, at)
  PROVE  Off(y.device)
<1>1. PICK e \in ExpireLease(d, at) : y \in Identified(e, id, c, at)
  BY Zenon DEF ApplyCommand
<1>2. Sound(e) /\ Off(e)
  BY <1>1, ExpiryKeepsSound, ExpiryIsOff
<1>3. CASE Known(e, c) # {}
  <2>1. y \in Repeat(e, c)
    BY <1>1, <1>3, Zenon DEF Identified
  <2>2. y.device = e
    BY <2>1 DEF Repeat, Rejection
  <2> QED
    BY <1>2, <2>2
<1>4. CASE Known(e, c) = {} /\ Admits(e, c, at)
  <2>1. y \in ExecuteScheduled(e, id, c, at)
    BY <1>1, <1>4, Zenon DEF Identified
  <2> QED
    BY <1>2, <1>4, <2>1, ScheduledIsOff
<1>5. CASE Known(e, c) = {} /\ ~Admits(e, c, at)
  <2>1. y = Rejection(e)
    BY <1>1, <1>5, Zenon DEF Identified
  <2> QED
    BY <1>2, <2>1 DEF Rejection
<1> QED
  BY <1>3, <1>4, <1>5

LEMMA FrameIsOff ==
  ASSUME NEW d, Sound(d), Off(d), NEW id \in Id, NEW c \in Content, NEW at \in Nat,
         NEW y \in ApplyFrame(d, id, c, at)
  PROVE  Off(y.device)
<1>1. PICK r \in ApplyCommand(d, id, c, at) :
        y \in IF "duplicate" \in r.faults
                THEN {[r EXCEPT !.device = again.device]
                        : again \in ApplyCommand(r.device, id, c, at)}
                ELSE {r}
  BY Zenon DEF ApplyFrame
<1>2. Sound(r.device) /\ Off(r.device)
  BY <1>1, ApplyIsOnce, ApplyIsOff
<1>3. CASE "duplicate" \in r.faults
  <2>1. PICK again \in ApplyCommand(r.device, id, c, at) :
          y = [r EXCEPT !.device = again.device]
    BY <1>1, <1>3, Zenon
  <2>2. Off(again.device)
    BY <1>2, <2>1, ApplyIsOff
  <2>3. y.device = again.device \/ y.device = r.device
    BY <2>1
  <2> QED
    BY <1>2, <2>2, <2>3
<1>4. CASE "duplicate" \notin r.faults
  BY <1>1, <1>2, <1>4
<1> QED
  BY <1>3, <1>4

LEMMA StartsOff == Init => Off(device)
<1>1. Init => device.cur = NoTarget
  BY DEF Init
<1> QED
  BY <1>1, DeviceAssumption DEF Off

LEMMA StaysOff ==
  ASSUME OnceInv, Off(device), [Next]_vars
  PROVE  Off(device)'
<1> USE DEF OnceInv
<1>1. CASE Connect
  BY <1>1, ExpiryIsOff DEF Connect
<1>2. CASE ServeQuery
  BY <1>2, ExpiryIsOff DEF ServeQuery
<1>3. CASE ServeCommand
  <2> DEFINE line == Head(inbox)
  <2>1. line \in Line /\ line.kind = "command"
    BY <1>3 DEF ServeCommand
  <2>2. line.id \in Id /\ line.content \in Content
    BY <2>1 DEF Line
  <2>3. PICK r \in ApplyFrame(device, line.id, line.content, now) : device' = r.device
    BY <1>3, Zenon DEF ServeCommand
  <2>4. Off(r.device)
    BY <2>2, <2>3, FrameIsOff
  <2> QED
    BY <2>3, <2>4
<1>4. CASE UNCHANGED device
  BY <1>4
<1>5. ~Connect /\ ~ServeQuery /\ ~ServeCommand => UNCHANGED device
  BY DEF Next, Send, Query, Write, HangUp, EndOfInput, Tick, vars
<1> QED
  BY <1>1, <1>2, <1>3, <1>4, <1>5

(* An output that the device reports as off is off, unless the world never  *)
(* heard what its last command asked (safe_stop.go:25, state.go:57).        *)
THEOREM WhatIsOffIsOff == Spec => []OffIsOff
<1>1. Off(device) => OffIsOff
  BY DEF Off, OffIsOff
<1>2. OnceInv /\ Off(device) /\ [Next]_vars => Off(device)'
  BY StaysOff
<1> QED
  BY <1>1, <1>2, StartsOff, StartsOnce, StaysOnce, PTL DEF Spec

(* --- What is remembered --------------------------------------------------*)
(* A boot remembers what it ran, each key once.                             *)
Memory(d) ==
  /\ \A e \in d.dedup : e.content.boot = d.boot
  /\ \A e, f \in d.dedup : e.content.key = f.content.key => e = f

(* What a boot remembers stays; a later boot begins anew.                   *)
Advances(d, e) == d.boot <= e.boot /\ (e.boot = d.boot => d.dedup \subseteq e.dedup)

(* Evidence that a content was run is remembered for as long as its boot.   *)
Answers(d, c, evidence) ==
  evidence.accepted =>
    /\ c.boot <= d.boot
    /\ c.boot = d.boot => \E e \in d.dedup : e.content = c /\ e.evidence = evidence

LEMMA AdvancesOn ==
  ASSUME NEW d \in DeviceType, NEW e \in DeviceType, Advances(d, e),
         NEW c \in Content, NEW evidence, Answers(d, c, evidence)
  PROVE  Answers(e, c, evidence)
<1>1. c.boot \in Nat /\ d.boot \in Nat /\ e.boot \in Nat
  BY DeviceAssumption DEF ContentType, DeviceType
<1> QED
  BY <1>1 DEF Advances, Answers

LEMMA AdvancesTrans ==
  ASSUME NEW d \in DeviceType, NEW e \in DeviceType, NEW f \in DeviceType,
         Advances(d, e), Advances(e, f)
  PROVE  Advances(d, f)
<1>1. d.boot \in Nat /\ e.boot \in Nat /\ f.boot \in Nat
  BY DEF DeviceType
<1> QED
  BY <1>1 DEF Advances

LEMMA ExpiryRemembers ==
  ASSUME NEW d \in DeviceType, NEW at, NEW e \in ExpireLease(d, at)
  PROVE  e.boot = d.boot /\ e.dedup = d.dedup
BY DEF ExpireLease, DeviceType

(* What a retry is answered from memory, it is answered exactly so.         *)
LEMMA KnownIsRepeated ==
  ASSUME NEW d, Memory(d), NEW id, NEW c, NEW at, NEW y \in Identified(d, id, c, at)
  PROVE  \A e \in d.dedup : e.content = c => y.evidence = e.evidence
<1> SUFFICES ASSUME NEW e \in d.dedup, e.content = c PROVE y.evidence = e.evidence
  OBVIOUS
<1>1. e \in Known(d, c) /\ \A f \in Known(d, c) : f = e
  BY DEF Known, Memory
<1>2. y \in Repeat(d, c)
  BY <1>1 DEF Identified
<1>3. y = [device |-> d, evidence |-> e.evidence, faults |-> e.faults]
  BY <1>1, <1>2 DEF Repeat
<1> QED
  BY <1>3

LEMMA ScheduledRemembers ==
  ASSUME NEW d, Sound(d), Memory(d), NEW id \in Id, NEW c \in Content, NEW at \in Nat,
         c.boot = d.boot, Known(d, c) = {}, NEW y \in ExecuteScheduled(d, id, c, at)
  PROVE  Memory(y.device) /\ Advances(d, y.device) /\ Answers(y.device, c, y.evidence)
<1> DEFINE n == IF d.accepted > Len(d.schedule) THEN d.accepted ELSE d.accepted + 1
           faults == IF n <= Len(d.schedule) THEN d.schedule[n] ELSE {}
           taken == [d EXCEPT !.accepted = n]
           stuck == "stuck" \in faults
<1>1. d \in DeviceType /\ d.boot \in Nat /\ d.accepted \in Nat /\ d.boot <= d.accepted
  BY DEF Sound, DeviceType
<1>2. n \in Nat /\ (faults # {} => d.boot < n)
  <2>1. Len(d.schedule) \in Nat
    BY <1>1, DeviceAssumption DEF DeviceType
  <2>2. n \in Nat
    BY <1>1, <2>1
  <2>3. faults # {} => n <= Len(d.schedule)
    OBVIOUS
  <2>4. n <= Len(d.schedule) => d.boot < n
    BY <1>1, <2>1
  <2> QED
    BY <2>2, <2>3, <2>4
<1>3. taken \in DeviceType /\ taken.boot = d.boot /\ taken.dedup = d.dedup
  BY <1>1, <1>2 DEF DeviceType
<1>4. stuck \in BOOLEAN
  OBVIOUS
<1>5. y \in IF faults \cap {"stale", "expired"} # {} THEN {Rejection(taken)}
            ELSE UNION {Complete(x, id, c, at, n, faults)
                          : x \in Execute(taken, id, c, at, stuck)}
  BY Zenon DEF ExecuteScheduled
<1> HIDE DEF n, faults, taken, stuck
<1>6. ASSUME NEW e \in DeviceType, e.boot = d.boot, e.dedup = d.dedup, y = Rejection(e)
      PROVE  Memory(y.device) /\ Advances(d, y.device) /\ Answers(y.device, c, y.evidence)
  BY <1>1, <1>6 DEF Rejection, Refused, Memory, Advances, Answers
<1>7. CASE faults \cap {"stale", "expired"} # {}
  BY <1>3, <1>5, <1>6, <1>7
<1>8. CASE faults \cap {"stale", "expired"} = {}
  <2>1. PICK x \in Execute(taken, id, c, at, stuck) :
          y \in Complete(x, id, c, at, n, faults)
    BY <1>5, <1>8, Zenon
  <2>2. /\ x.device \in DeviceType /\ x.accepted \in BOOLEAN
        /\ x.device.boot = d.boot /\ x.device.dedup = d.dedup
    <3>1. Executed(taken, x, c)
      BY <1>3, <1>4, <2>1, ExecuteHasOneEffect, Zenon
    <3> QED
      BY <1>3, <3>1 DEF Executed
  <2> DEFINE evidence == [accepted |-> TRUE, id |-> id]
  <2>3. CASE ~x.accepted
    <3>1. y = Rejection(x.device)
      BY <2>1, <2>3 DEF Complete
    <3> QED
      BY <1>6, <2>2, <3>1
  <2>4. CASE x.accepted /\ "reboot" \in faults
    <3>1. y.device \in Reboot(x.device, n) /\ y.evidence = evidence
      <4>1. y \in {[device |-> r, evidence |-> evidence, faults |-> faults \cup {"ack_lost"}]
                     : r \in Reboot(x.device, n)}
        BY <2>1, <2>4, Zenon DEF Complete
      <4> HIDE DEF evidence
      <4>2. PICK r \in Reboot(x.device, n) :
              y = [device |-> r, evidence |-> evidence, faults |-> faults \cup {"ack_lost"}]
        BY <4>1, Zenon
      <4> QED
        BY <4>2
    <3>2. y.device.boot = n /\ y.device.dedup = {} /\ d.boot < n
      BY <1>2, <2>2, <2>4, <3>1, RebootForgets
    <3> QED
      BY <1>1, <1>2, <3>1, <3>2 DEF Memory, Advances, Answers
  <2>5. CASE x.accepted /\ "reboot" \notin faults
    <3> DEFINE entry == [content |-> c, evidence |-> evidence, faults |-> {}]
    <3>1. y.device = [x.device EXCEPT !.dedup = d.dedup \cup {entry}] /\ y.evidence = evidence
      BY <2>1, <2>2, <2>5 DEF Complete, Remember, DeviceType
    <3>2. entry.content = c /\ entry.evidence = evidence
      OBVIOUS
    <3> HIDE DEF entry, evidence
    <3>3. y.device.boot = d.boot /\ y.device.dedup = d.dedup \cup {entry}
      BY <2>2, <3>1 DEF DeviceType
    <3>4. \A e \in d.dedup : e.content.key # c.key
      BY DEF Known
    <3>5. Memory(y.device)
      BY <3>2, <3>3, <3>4 DEF Memory
    <3> QED
      BY <1>1, <3>1, <3>2, <3>3, <3>5 DEF Advances, Answers
  <2> QED
    BY <2>2, <2>3, <2>4, <2>5
<1> QED
  BY <1>7, <1>8

LEMMA ApplyRemembers ==
  ASSUME NEW d, Sound(d), Memory(d), NEW id \in Id, NEW c \in Content, NEW at \in Nat,
         NEW y \in ApplyCommand(d, id, c, at)
  PROVE  /\ Memory(y.device) /\ Advances(d, y.device) /\ Answers(y.device, c, y.evidence)
         /\ \A e \in d.dedup : e.content = c => y.evidence = e.evidence
<1>1. PICK b \in ExpireLease(d, at) : y \in Identified(b, id, c, at)
  BY Zenon DEF ApplyCommand
<1>2. Sound(b) /\ b \in DeviceType /\ d \in DeviceType
  BY <1>1, ExpiryKeepsSound DEF Sound
<1>3. b.boot = d.boot /\ b.dedup = d.dedup
  BY <1>1, <1>2, ExpiryRemembers
<1>4. Memory(b) /\ b.boot \in Nat
  BY <1>2, <1>3 DEF Memory, DeviceType
<1>5. \A e \in d.dedup : e.content = c => y.evidence = e.evidence
  <2>1. \A e \in b.dedup : e.content = c => y.evidence = e.evidence
    BY <1>1, <1>4, KnownIsRepeated
  <2> QED
    BY <1>3, <2>1
<1>6. Memory(y.device) /\ Advances(b, y.device) /\ Answers(y.device, c, y.evidence)
  <2>1. CASE Known(b, c) # {}
    <3>1. y \in Repeat(b, c)
      BY <1>1, <2>1, Zenon DEF Identified
    <3>2. PICK e \in Known(b, c) :
            y = IF e.content = c THEN [device |-> b, evidence |-> e.evidence, faults |-> e.faults]
                                 ELSE Rejection(b)
      BY <3>1, Zenon DEF Repeat
    <3>3. CASE e.content = c
      BY <1>4, <3>2, <3>3 DEF Known, Memory, Advances, Answers
    <3>4. CASE e.content # c
      BY <1>4, <3>2, <3>4 DEF Rejection, Refused, Advances, Answers
    <3> QED
      BY <3>3, <3>4
  <2>2. CASE Known(b, c) = {} /\ Admits(b, c, at)
    <3>1. y \in ExecuteScheduled(b, id, c, at)
      BY <1>1, <2>2, Zenon DEF Identified
    <3>2. c.boot = b.boot
      BY <2>2, Zenon DEF Admits
    <3> QED
      BY <1>2, <1>4, <2>2, <3>1, <3>2, ScheduledRemembers
  <2>3. CASE Known(b, c) = {} /\ ~Admits(b, c, at)
    <3>1. y = Rejection(b)
      BY <1>1, <2>3, Zenon DEF Identified
    <3> QED
      BY <1>4, <3>1 DEF Rejection, Refused, Advances, Answers
  <2> QED
    BY <2>1, <2>2, <2>3
<1> QED
  BY <1>3, <1>5, <1>6 DEF Advances

LEMMA FrameRemembers ==
  ASSUME NEW d, Sound(d), Memory(d), NEW id \in Id, NEW c \in Content, NEW at \in Nat,
         NEW y \in ApplyFrame(d, id, c, at)
  PROVE  /\ Memory(y.device) /\ Advances(d, y.device) /\ Answers(y.device, c, y.evidence)
         /\ \A e \in d.dedup : e.content = c => y.evidence = e.evidence
<1>1. PICK r \in ApplyCommand(d, id, c, at) :
        y \in IF "duplicate" \in r.faults
                THEN {[r EXCEPT !.device = again.device]
                        : again \in ApplyCommand(r.device, id, c, at)}
                ELSE {r}
  BY Zenon DEF ApplyFrame
<1>2. /\ Sound(r.device) /\ Memory(r.device) /\ Advances(d, r.device)
      /\ Answers(r.device, c, r.evidence)
      /\ \A e \in d.dedup : e.content = c => r.evidence = e.evidence
  BY <1>1, ApplyIsOnce, ApplyRemembers
<1>3. CASE "duplicate" \notin r.faults
  BY <1>1, <1>2, <1>3
<1>4. CASE "duplicate" \in r.faults
  <2>1. PICK again \in ApplyCommand(r.device, id, c, at) :
          y = [r EXCEPT !.device = again.device]
    BY <1>1, <1>4, Zenon
  <2>2. Sound(again.device) /\ Memory(again.device) /\ Advances(r.device, again.device)
    BY <1>2, <2>1, ApplyIsOnce, ApplyRemembers
  <2>3. PICK b \in ExpireLease(d, at) : r \in Identified(b, id, c, at)
    BY <1>1, Zenon DEF ApplyCommand
  <2>4. DOMAIN r = {"device", "evidence", "faults"}
    BY <2>3 DEF Identified, Repeat, Rejection, ExecuteScheduled, Complete
  <2>5. y.device = again.device /\ y.evidence = r.evidence
    BY <2>1, <2>4
  <2>6. d \in DeviceType /\ r.device \in DeviceType /\ again.device \in DeviceType
    BY <1>2, <2>2 DEF Sound
  <2>7. Advances(d, again.device)
    BY <1>2, <2>2, <2>6, AdvancesTrans
  <2>8. Answers(again.device, c, r.evidence)
    BY <1>2, <2>2, <2>6, AdvancesOn
  <2> QED
    BY <1>2, <2>2, <2>5, <2>7, <2>8
<1> QED
  BY <1>3, <1>4

(* The last report of every content is what its boot remembers of it.       *)
VerdictInv ==
  /\ Memory(device)
  /\ DOMAIN verdict = Content
  /\ \A c \in Content : Answers(device, c, verdict[c])

LEMMA StartsRemembering == Init => VerdictInv
<1> SUFFICES ASSUME Init PROVE VerdictInv
  OBVIOUS
<1>1. device.dedup = {}
  BY DEF Init
<1>2. verdict = [c \in Content |-> Refused]
  BY DEF Init
<1>3. \A c \in Content : ~verdict[c].accepted
  BY <1>2 DEF Refused
<1> QED
  BY <1>1, <1>2, <1>3 DEF VerdictInv, Memory, Answers

(* Reading the state expires the lease, and forgets nothing.                *)
LEMMA LooksRemember ==
  ASSUME OnceInv, VerdictInv, device' \in ExpireLease(device, now), verdict' = verdict
  PROVE  VerdictInv'
<1>1. device'.boot = device.boot /\ device'.dedup = device.dedup
  BY ExpiryRemembers DEF OnceInv, Sound
<1> QED
  BY <1>1 DEF VerdictInv, Memory, Answers

(* The answer of a command is its old one, wherever there was one that its  *)
(* boot still stands by; and it is what is remembered from then on.         *)
LEMMA CommandsRemember ==
  ASSUME OnceInv, VerdictInv, ServeCommand
  PROVE  /\ VerdictInv'
         /\ \A c \in Content :
              (verdict[c].accepted /\ c.boot = device'.boot) => verdict'[c] = verdict[c]
<1> DEFINE line == Head(inbox)
           c == line.content
<1>1. line.id \in Id /\ c \in Content /\ now \in Nat
  <2>1. line \in Line /\ line.kind = "command"
    BY DEF ServeCommand, OnceInv
  <2> QED
    BY <2>1 DEF Line, OnceInv
<1>2. PICK r \in ApplyFrame(device, line.id, c, now) :
        device' = r.device /\ verdict' = [verdict EXCEPT ![c] = r.evidence]
  BY Zenon DEF ServeCommand
<1> HIDE DEF c
<1>3. Sound(device) /\ Memory(device)
  BY DEF OnceInv, VerdictInv
<1>4. /\ Memory(device') /\ Advances(device, device') /\ Answers(device', c, r.evidence)
      /\ \A e \in device.dedup : e.content = c => r.evidence = e.evidence
  BY <1>1, <1>2, <1>3, FrameRemembers
<1>5. device \in DeviceType /\ device' \in DeviceType
  BY <1>1, <1>2, <1>3, FrameIsOnce DEF Sound
<1>6. /\ DOMAIN verdict' = Content /\ verdict'[c] = r.evidence
      /\ \A o \in Content : o # c => verdict'[o] = verdict[o]
  BY <1>1, <1>2 DEF VerdictInv
<1>7. \A o \in Content : Answers(device', o, verdict'[o])
  <2> SUFFICES ASSUME NEW o \in Content, o # c PROVE Answers(device', o, verdict[o])
    BY <1>4, <1>6
  <2>1. Answers(device, o, verdict[o])
    BY DEF VerdictInv
  <2> QED
    BY <1>4, <1>5, <2>1, AdvancesOn
<1>8. ASSUME verdict[c].accepted, c.boot = device'.boot PROVE r.evidence = verdict[c]
  <2>1. Answers(device, c, verdict[c])
    BY <1>1 DEF VerdictInv
  <2>2. c.boot \in Nat /\ device.boot \in Nat /\ device'.boot \in Nat
    BY <1>1, <1>5, DeviceAssumption DEF ContentType, DeviceType
  <2>3. c.boot = device.boot
    BY <1>4, <1>8, <2>1, <2>2 DEF Advances, Answers
  <2>4. PICK e \in device.dedup : e.content = c /\ e.evidence = verdict[c]
    BY <1>8, <2>1, <2>3 DEF Answers
  <2> QED
    BY <1>4, <2>4
<1> QED
  BY <1>4, <1>6, <1>7, <1>8 DEF VerdictInv

LEMMA StaysRemembered ==
  ASSUME OnceInv, VerdictInv, [Next]_vars
  PROVE  /\ VerdictInv'
         /\ \A c \in Content :
              (verdict[c].accepted /\ c.boot = device'.boot) => verdict'[c] = verdict[c]
<1>1. CASE Connect
  BY <1>1, LooksRemember DEF Connect
<1>2. CASE ServeQuery
  BY <1>2, LooksRemember DEF ServeQuery
<1>3. CASE ServeCommand
  BY <1>3, CommandsRemember
<1>4. CASE UNCHANGED <<device, verdict>>
  BY <1>4 DEF VerdictInv
<1>5. ~Connect /\ ~ServeQuery /\ ~ServeCommand => UNCHANGED <<device, verdict>>
  BY DEF Next, Send, Query, Write, HangUp, EndOfInput, Tick, vars
<1> QED
  BY <1>1, <1>2, <1>3, <1>4, <1>5

(* What the device has once reported of a command, it reports to every      *)
(* retry in the same boot, whatever the lease, the lifetime, the other      *)
(* commands and the faults of the wire do between (command_execution.go:10).*)
THEOREM EvidenceStands == Spec => EvidenceIsStable
<1>1. OnceInv /\ VerdictInv /\ [Next]_vars => VerdictInv'
  BY StaysRemembered
<1>2. OnceInv /\ VerdictInv /\ [Next]_vars =>
        [\A c \in Content :
           (verdict[c].accepted /\ c.boot = device'.boot) => verdict'[c] = verdict[c]]_vars
  BY StaysRemembered
<1> QED
  BY <1>1, <1>2, StartsOnce, StaysOnce, StartsRemembering, PTL DEF Spec, EvidenceIsStable
=============================================================================
