-------------------------- MODULE RelayControl_proofs --------------------------
(***************************************************************************)
(* What local control in the relay keeps for every set of devices, boards,  *)
(* announcements, ids and keys and for every bound.  Every handler builds a *)
(* step, and every step ends in Apply, whose writes may lose the gateway,   *)
(* the host, or both; so what is proved of a step is first shown to survive *)
(* those losses (Degrades), and then, handler by handler, to hold of what   *)
(* the handler decides.                                                     *)
(***************************************************************************)
EXTENDS RelayControl, Sequences, TLAPS

-----------------------------------------------------------------------------
(* Types                                                                    *)

Scopes == {All} \cup Board \cup Device

Relays == [admitted: BOOLEAN, birth: Announcements \cup {<<>>}, devices: SUBSET Device,
           host: {"away", "connected", "shaken"}, epoch: Nat, lastEpoch: Nat,
           boots: [Device -> Nat], kinds: SUBSET Device, ended: BOOLEAN, lost: BOOLEAN]

Contents == {c.content : c \in HostCommands}

Waiting == [id: Id, key: Key, content: Contents, deadline: {c.deadline : c \in HostCommands},
            waiting: Seq(Id)]

Machines == [inventory: SUBSET Device, holds: [Scopes -> {"off", "held", "latched"}],
             approves: SUBSET Scopes, pending: SUBSET Waiting]

Lists == [board: [Device -> Board \cup {All}], stopping: SUBSET Device]

Written == [to: {"gateway", "world", "host", "nobody"}, type: {"command", "stop", "queued", "refused"},
            id: Id \cup {"none"}, device: Device, kind: {c.kind : c \in Contents} \cup {"stop"},
            boot: Nat, epoch: Nat, settles: BOOLEAN]

Steps == [r: Relays, m: Machines, l: Lists, attached: BOOLEAN, out: SUBSET Written,
          down: BOOLEAN, up: BOOLEAN, stopped: SUBSET Device]

-----------------------------------------------------------------------------
(* What a step may lose when it is written.                                 *)

Nobody(x) == [x EXCEPT !.to = "nobody"]

(* A record may have reached nobody: what it went to was found gone.        *)
Cut(y, attached_) == y.to \in {"gateway", "host"} /\ (y.to = "gateway" => ~attached_)

(* The controls and what was announced stay; the host goes with all that    *)
(* waits, the gateway with the boots it told; what was written is written,  *)
(* or reached nobody.                                                       *)
Degrades(s, k) ==
    /\ k.l = s.l /\ k.stopped = s.stopped /\ k.r.birth = s.r.birth
    /\ k.m.holds = s.m.holds /\ k.m.inventory = s.m.inventory
    /\ HostEpoch(k.r) = HostEpoch(s.r)
    /\ \/ k.r.host = s.r.host /\ k.m = s.m
       \/ k.r.host = "away" /\ k.m.pending = {}
    /\ \/ k.r.devices = s.r.devices /\ k.r.boots = s.r.boots
       \/ k.r.devices = {} /\ k.r.boots = [d \in Device |-> IF d \in s.r.devices THEN 0 ELSE s.r.boots[d]]
    /\ k.r.admitted => s.r.admitted /\ k.r.devices = s.r.devices
    /\ k.attached => s.attached
    /\ \A x \in k.out : x \in s.out \/ \E y \in s.out : x = Nobody(y) /\ Cut(y, k.attached)
    /\ \A y \in s.out : y \in k.out \/ (Nobody(y) \in k.out /\ Cut(y, k.attached))

LEMMA DegradesTrans ==
    ASSUME NEW s \in Steps, NEW k \in Steps, NEW j \in Steps, Degrades(s, k), Degrades(k, j)
    PROVE  Degrades(s, j)
<1>1. \A y \in s.out : Nobody(y).to = "nobody" /\ Nobody(Nobody(y)) = Nobody(y)
  BY DEF Steps, Written, Nobody
<1>2. \A x \in j.out : x \in s.out \/ \E y \in s.out : x = Nobody(y) /\ Cut(y, j.attached)
  <2> SUFFICES ASSUME NEW x \in j.out, x \notin s.out
               PROVE  \E y \in s.out : x = Nobody(y) /\ Cut(y, j.attached)
    OBVIOUS
  <2>1. CASE x \in k.out
    BY <2>1 DEF Degrades, Cut
  <2>2. CASE x \notin k.out
    <3>1. PICK y \in k.out : x = Nobody(y) /\ Cut(y, j.attached)
      BY <2>2 DEF Degrades
    <3>2. y \in s.out
      BY <1>1, <3>1 DEF Degrades, Cut
    <3> QED
      BY <3>1, <3>2
  <2> QED
    BY <2>1, <2>2
<1>3. \A y \in s.out : y \in j.out \/ (Nobody(y) \in j.out /\ Cut(y, j.attached))
  <2> SUFFICES ASSUME NEW y \in s.out, y \notin j.out
               PROVE  Nobody(y) \in j.out /\ Cut(y, j.attached)
    OBVIOUS
  <2>1. CASE y \in k.out
    BY <2>1 DEF Degrades
  <2>2. CASE y \notin k.out
    <3>1. Nobody(y) \in k.out /\ Cut(y, k.attached)
      BY <2>2 DEF Degrades
    <3>2. Nobody(y) \in j.out
      BY <1>1, <3>1 DEF Degrades
    <3> QED
      BY <3>1, <3>2 DEF Degrades, Cut
  <2> QED
    BY <2>1, <2>2
<1>4. \/ j.r.host = s.r.host /\ j.m = s.m
      \/ j.r.host = "away" /\ j.m.pending = {}
  BY DEF Degrades
<1>5. \/ j.r.devices = s.r.devices /\ j.r.boots = s.r.boots
      \/ j.r.devices = {} /\ j.r.boots = [d \in Device |-> IF d \in s.r.devices THEN 0 ELSE s.r.boots[d]]
  BY DEF Degrades
<1> QED
  BY <1>2, <1>3, <1>4, <1>5 DEF Degrades

LEMMA DegradesSame ==
    ASSUME NEW s \in Steps
    PROVE  Degrades(s, s)
BY DEF Degrades

LEMMA DropType ==
    ASSUME NEW m \in Machines, NEW l, NEW gone
    PROVE  /\ Rules(l)!Drop(m, gone) \in Machines
           /\ Rules(l)!Drop(m, gone) = [m EXCEPT !.pending = m.pending \ gone]
BY DEF Machines, Rules!Drop

LEMMA LoseHostDegrades ==
    ASSUME NEW s \in Steps
    PROVE  LoseHost(s) \in Steps /\ Degrades(s, LoseHost(s))
<1>1. CASE s.r.host = "away"
  BY <1>1, DegradesSame DEF LoseHost
<1>2. CASE s.r.host # "away"
  <2> DEFINE epoch == IF s.r.epoch > 0 THEN s.r.epoch ELSE s.r.lastEpoch
             m == [s.m EXCEPT !.pending = {}]
             r == [s.r EXCEPT !.lastEpoch = epoch, !.host = "away", !.epoch = 0]
  <2>1. s.r \in Relays /\ s.m \in Machines /\ epoch \in Nat
    BY DEF Steps, Relays
  <2>2. Rules(s.l)!Drop(s.m, s.m.pending) = m
    BY <2>1, DropType
  <2>3. m \in Machines /\ m.pending = {} /\ m.holds = s.m.holds /\ m.inventory = s.m.inventory
    BY <2>1 DEF Machines
  <2>4. /\ r \in Relays /\ r.host = "away" /\ r.birth = s.r.birth /\ r.devices = s.r.devices
        /\ r.boots = s.r.boots /\ r.admitted = s.r.admitted
        /\ r.epoch = 0 /\ r.lastEpoch = epoch
    BY <2>1 DEF Relays
  <2>5. HostEpoch(r) = HostEpoch(s.r)
    BY <2>4 DEF HostEpoch
  <2> DEFINE down == s.down \/ s.r.admitted
  <2>6. LoseHost(s) = [s EXCEPT !.m = m, !.r = r, !.down = down]
    BY <1>2, <2>2 DEF LoseHost, LeaveHost, Steps, Relays
  <2>7. down \in BOOLEAN
    OBVIOUS
  <2> HIDE DEF m, r, epoch, down
  <2>8. /\ LoseHost(s) \in Steps /\ LoseHost(s).m = m /\ LoseHost(s).r = r
        /\ LoseHost(s).l = s.l /\ LoseHost(s).out = s.out /\ LoseHost(s).stopped = s.stopped
        /\ LoseHost(s).attached = s.attached
    BY <2>3, <2>4, <2>6, <2>7 DEF Steps
  <2> QED
    BY <2>3, <2>4, <2>5, <2>8 DEF Degrades
<1> QED
  BY <1>1, <1>2

(* A gateway is lost: its devices' boots are forgotten.                     *)
LEMMA ClearGatewayDegrades ==
    ASSUME NEW s \in Steps
    PROVE  ClearGateway(s) \in Steps /\ Degrades(s, ClearGateway(s))
<1> DEFINE boots == [d \in Device |-> IF d \in s.r.devices THEN 0 ELSE s.r.boots[d]]
           r == [s.r EXCEPT !.boots = boots, !.admitted = FALSE, !.devices = {}]
<1>1. s.r \in Relays /\ boots \in [Device -> Nat]
  BY DEF Steps, Relays
<1>2. /\ r \in Relays /\ r.host = s.r.host /\ r.birth = s.r.birth /\ r.devices = {}
      /\ r.boots = boots /\ r.admitted = FALSE /\ HostEpoch(r) = HostEpoch(s.r)
  BY <1>1 DEF Relays, HostEpoch
<1>3. ClearGateway(s) = [s EXCEPT !.r = r]
  BY <1>1 DEF ClearGateway, Forget, Steps, Relays
<1> HIDE DEF r
<1>4. /\ ClearGateway(s) \in Steps /\ ClearGateway(s).m = s.m /\ ClearGateway(s).r = r
      /\ ClearGateway(s).l = s.l /\ ClearGateway(s).out = s.out
      /\ ClearGateway(s).stopped = s.stopped /\ ClearGateway(s).attached = s.attached
  BY <1>2, <1>3 DEF Steps
<1> QED
  BY <1>2, <1>4 DEF Degrades

LEMMA DiedUpDegrades ==
    ASSUME NEW s \in Steps
    PROVE  /\ DiedUp(s) \in Steps /\ Degrades(s, DiedUp(s))
           /\ DiedUp(s).r = s.r /\ DiedUp(s).m = s.m /\ DiedUp(s).l = s.l
           /\ DiedUp(s).out = s.out /\ DiedUp(s).stopped = s.stopped
           /\ DiedUp(s).attached = s.attached
<1>1. /\ DiedUp(s) \in Steps /\ DiedUp(s).r = s.r /\ DiedUp(s).m = s.m /\ DiedUp(s).l = s.l
      /\ DiedUp(s).out = s.out /\ DiedUp(s).stopped = s.stopped
      /\ DiedUp(s).attached = s.attached
  BY DEF DiedUp, Steps
<1> QED
  BY <1>1 DEF Degrades

LEMMA LoseGatewayDegrades ==
    ASSUME NEW s \in Steps
    PROVE  /\ LoseGateway(s) \in Steps /\ Degrades(s, LoseGateway(s))
           /\ LoseGateway(s).attached = FALSE
<1> DEFINE died == [DiedUp(s) EXCEPT !.r.admitted = FALSE, !.attached = FALSE]
           parted == IF s.r.host = "connected" THEN LoseHost(died) ELSE died
           r == [s.r EXCEPT !.admitted = FALSE]
<1>0. /\ r \in Relays /\ r.host = s.r.host /\ r.birth = s.r.birth /\ r.devices = s.r.devices
      /\ r.boots = s.r.boots /\ r.admitted = FALSE /\ HostEpoch(r) = HostEpoch(s.r)
  BY DEF Steps, Relays, HostEpoch
<1>1. /\ died \in Steps /\ died.m = s.m /\ died.l = s.l /\ died.out = s.out
      /\ died.stopped = s.stopped /\ died.attached = FALSE /\ died.r = r
  <2>1. died = [DiedUp(s) EXCEPT !.r = r, !.attached = FALSE]
    BY DiedUpDegrades DEF Steps
  <2> HIDE DEF died, r
  <2> QED
    BY <1>0, <2>1, DiedUpDegrades DEF Steps
<1> HIDE DEF r
<1>2. Degrades(s, died)
  BY <1>0, <1>1 DEF Degrades
<1> HIDE DEF died
<1>3. parted \in Steps /\ Degrades(died, parted)
  BY <1>1, LoseHostDegrades, DegradesSame
<1>4. parted.attached = FALSE
  BY <1>1, <1>3 DEF Degrades, Steps
<1>5. LoseGateway(s) = ClearGateway(parted)
  BY DEF LoseGateway, died
<1> HIDE DEF parted
<1>6. ClearGateway(parted) \in Steps /\ Degrades(parted, ClearGateway(parted))
  BY <1>3, ClearGatewayDegrades
<1>7. ClearGateway(parted).attached = FALSE
  BY <1>4, <1>6 DEF Degrades, Steps
<1> QED
  BY <1>1, <1>2, <1>3, <1>5, <1>6, <1>7, DegradesTrans

LEMMA UnsentType ==
    ASSUME NEW s \in Steps, NEW side \in {"gateway", "host"}
    PROVE  LET u == Unsent(s, side)
           IN  /\ u \in Steps
               /\ u.r = s.r /\ u.m = s.m /\ u.l = s.l /\ u.stopped = s.stopped
               /\ u.attached = s.attached
               /\ \A x \in u.out : x \in s.out \/ \E y \in s.out : y.to = side /\ x = Nobody(y)
               /\ \A y \in s.out : y.to # side => y \in u.out
               /\ \A y \in s.out : y.to = side => Nobody(y) \in u.out
<1> DEFINE records == {IF x.to = side THEN Nobody(x) ELSE x : x \in s.out}
<1>1. Unsent(s, side) = [s EXCEPT !.out = records]
  BY DEF Unsent, Nobody, Steps
<1>2. \A x \in Written : Nobody(x) \in Written
  BY DEF Nobody, Written
<1>3. records \in SUBSET Written
  BY <1>2 DEF Steps
<1>4. /\ \A x \in records : x \in s.out \/ \E y \in s.out : y.to = side /\ x = Nobody(y)
      /\ \A y \in s.out : y.to # side => y \in records
      /\ \A y \in s.out : y.to = side => Nobody(y) \in records
  OBVIOUS
<1> HIDE DEF records
<1> QED
  BY <1>1, <1>3, <1>4 DEF Steps

(* The gateway is found gone: nothing of this step reached it.              *)
LEMMA UnsentGatewayDegrades ==
    ASSUME NEW s \in Steps
    PROVE  LET k == LoseGateway(Unsent(s, "gateway")) IN k \in Steps /\ Degrades(s, k)
<1> DEFINE u == Unsent(s, "gateway")
           k == LoseGateway(u)
<1>1. /\ u \in Steps
      /\ u.r = s.r /\ u.m = s.m /\ u.l = s.l /\ u.stopped = s.stopped
      /\ u.attached = s.attached
      /\ \A x \in u.out : x \in s.out \/ \E y \in s.out : y.to = "gateway" /\ x = Nobody(y)
      /\ \A y \in s.out : y.to # "gateway" => y \in u.out
      /\ \A y \in s.out : y.to = "gateway" => Nobody(y) \in u.out
  BY UnsentType
<1> HIDE DEF u
<1>2. k \in Steps /\ Degrades(u, k) /\ k.attached = FALSE
  BY <1>1, LoseGatewayDegrades
<1> HIDE DEF k
<1>3. \A y \in s.out : Nobody(y).to = "nobody" /\ Nobody(Nobody(y)) = Nobody(y)
  BY DEF Steps, Written, Nobody
<1>4. \A x \in k.out : x \in s.out \/ \E y \in s.out : x = Nobody(y) /\ Cut(y, k.attached)
  <2> SUFFICES ASSUME NEW x \in k.out, x \notin s.out
               PROVE  \E y \in s.out : x = Nobody(y) /\ Cut(y, k.attached)
    OBVIOUS
  <2>1. CASE x \in u.out
    BY <1>1, <1>2, <2>1 DEF Cut
  <2>2. CASE x \notin u.out
    <3>1. PICK y \in u.out : x = Nobody(y) /\ Cut(y, k.attached)
      BY <1>2, <2>2 DEF Degrades
    <3>2. y \in s.out
      BY <1>1, <1>3, <3>1 DEF Cut
    <3> QED
      BY <3>1, <3>2
  <2> QED
    BY <2>1, <2>2
<1>5. ASSUME NEW y \in s.out, y \notin k.out
      PROVE  Nobody(y) \in k.out /\ Cut(y, k.attached)
  <2>1. CASE y.to = "gateway"
    BY <1>1, <1>2, <1>3, <2>1 DEF Degrades, Cut
  <2>2. CASE y.to # "gateway"
    BY <1>1, <1>2, <1>5, <2>2 DEF Degrades, Cut
  <2> QED
    BY <2>1, <2>2
<1>6. Degrades(s, k)
  BY <1>1, <1>2, <1>4, <1>5 DEF Degrades
<1> QED
  BY <1>2, <1>6 DEF u, k

LEMMA UnsentHostDegrades ==
    ASSUME NEW s \in Steps
    PROVE  LET k == LoseHost(Unsent(s, "host")) IN k \in Steps /\ Degrades(s, k)
<1> DEFINE u == Unsent(s, "host")
<1>1. u \in Steps /\ Degrades(s, u)
  BY UnsentType DEF Degrades, Cut
<1> HIDE DEF u
<1>2. LoseHost(u) \in Steps /\ Degrades(u, LoseHost(u))
  BY <1>1, LoseHostDegrades
<1> QED
  BY <1>1, <1>2, DegradesTrans DEF u

LEMMA DownWritten ==
    ASSUME NEW s \in Steps
    PROVE  /\ [s EXCEPT !.down = FALSE] \in Steps /\ Degrades(s, [s EXCEPT !.down = FALSE])
           /\ [s EXCEPT !.up = FALSE] \in Steps /\ Degrades(s, [s EXCEPT !.up = FALSE])
<1>1. [s EXCEPT !.down = FALSE] \in Steps /\ [s EXCEPT !.up = FALSE] \in Steps
  BY DEF Steps
<1> QED
  BY <1>1 DEF Degrades, Steps

LEMMA SendDownDegrades ==
    ASSUME NEW s \in Steps, NEW gone
    PROVE  SendDown(s, gone) \in Steps /\ Degrades(s, SendDown(s, gone))
<1> DEFINE j == IF s.down /\ s.attached /\ "gateway" \in gone THEN LoseGateway(Unsent(s, "gateway")) ELSE s
<1>1. j \in Steps /\ Degrades(s, j)
  BY UnsentGatewayDegrades, DegradesSame
<1>2. SendDown(s, gone) = [j EXCEPT !.down = FALSE]
  BY DEF SendDown
<1> HIDE DEF j
<1> QED
  BY <1>1, <1>2, DownWritten, DegradesTrans

LEMMA SendUpDegrades ==
    ASSUME NEW s \in Steps, NEW gone
    PROVE  SendUp(s, gone) \in Steps /\ Degrades(s, SendUp(s, gone))
<1> DEFINE j == IF s.up /\ s.r.host # "away" /\ "host" \in gone THEN LoseHost(Unsent(s, "host")) ELSE s
<1>1. j \in Steps /\ Degrades(s, j)
  BY UnsentHostDegrades, DegradesSame
<1>2. SendUp(s, gone) = [j EXCEPT !.up = FALSE]
  BY DEF SendUp
<1> HIDE DEF j
<1> QED
  BY <1>1, <1>2, DownWritten, DegradesTrans

(* Whatever a handler decides, its writes do no more than degrade it.       *)
LEMMA ApplyDegrades ==
    ASSUME NEW s \in Steps, NEW gone
    PROVE  Apply(s, gone) \in Steps /\ Degrades(s, Apply(s, gone))
<1>1. SendDown(s, gone) \in Steps /\ Degrades(s, SendDown(s, gone))
  BY SendDownDegrades
<1>2. /\ SendUp(SendDown(s, gone), gone) \in Steps
      /\ Degrades(s, SendUp(SendDown(s, gone), gone))
  BY <1>1, SendUpDegrades, DegradesTrans
<1> QED
  BY <1>2, SendDownDegrades, DegradesTrans DEF Apply

-----------------------------------------------------------------------------
(* The invariant                                                            *)

Names(p) == {p.id} \cup {p.waiting[i] : i \in 1..Len(p.waiting)}

NamesOf(P) == UNION {Names(p) : p \in P}

(* No id and no key waits twice.                                            *)
Apart(P) == \A p, q \in P : p = q \/ (p.key # q.key /\ Names(p) \cap Names(q) = {})

(* A device that was never announced has no board.                          *)
Charted(m, l) == \A d \in Device : d \in m.inventory \/ l.board[d] = All

(* Only a host that is there has commands that wait.                        *)
Sound(s) ==
    /\ s \in Steps
    /\ Apart(s.m.pending)
    /\ s.r.host # "shaken" => s.m.pending = {}
    /\ Charted(s.m, s.l)

(* What the host will have been told is what waits.                         *)
Told(s) == s.r.host = "shaken" => NamesOf(s.m.pending) = (owed \cup Queued(s)) \ Settled(s)

Fields == [boot: [Device -> Nat], told: [Device -> Nat], strays: SUBSET Device]

TypeInv == /\ relay \in Relays /\ gate \in Machines /\ listed \in Lists
           /\ attached \in BOOLEAN /\ authority \in Nat
           /\ field \in Fields

OwedInv == /\ Apart(gate.pending)
           /\ relay.host # "shaken" => gate.pending = {}
           /\ owed = NamesOf(gate.pending)
           /\ Charted(gate, listed)

LEMMA HoldersAreNames ==
    ASSUME NEW l, NEW P
    PROVE  /\ Rules(l)!HoldersOf(P) = NamesOf(P)
           /\ \A p : Rules(l)!Holders(p) = Names(p)
BY DEF Rules!HoldersOf, Rules!Holders, Names, NamesOf

LEMMA LoopIsSound ==
    ASSUME TypeInv, OwedInv
    PROVE  /\ Sound(Loop) /\ Told(Loop)
           /\ Loop.r = relay /\ Loop.m = gate /\ Loop.l = listed /\ Loop.attached = attached
           /\ Loop.out = {} /\ Loop.stopped = {}
           /\ Loop.down = FALSE /\ Loop.up = FALSE
<1>1. /\ Loop.r = relay /\ Loop.m = gate /\ Loop.l = listed /\ Loop.attached = attached
      /\ Loop.out = {} /\ Loop.stopped = {} /\ Loop.down = FALSE /\ Loop.up = FALSE
      /\ Loop \in Steps
  BY DEF Loop, Steps, TypeInv
<1>2. Queued(Loop) = {} /\ Settled(Loop) = {}
  BY <1>1 DEF Queued, Settled
<1> QED
  BY <1>1, <1>2 DEF Sound, Told, OwedInv

(* What was written tells the host the same, whether or not it arrived.     *)
LEMMA DegradesTells ==
    ASSUME NEW s \in Steps, NEW k \in Steps, Degrades(s, k)
    PROVE  Queued(k) = Queued(s) /\ Settled(k) = Settled(s)
<1>1. \A y \in s.out : /\ Nobody(y).id = y.id /\ Nobody(y).type = y.type
                       /\ Nobody(y).settles = y.settles
  BY DEF Nobody, Steps, Written
<1>2. /\ \A x \in k.out : x \in s.out \/ \E y \in s.out : x = Nobody(y)
      /\ \A y \in s.out : y \in k.out \/ Nobody(y) \in k.out
  BY DEF Degrades
<1>3. Queued(k) \subseteq Queued(s) /\ Settled(k) \subseteq Settled(s)
  BY <1>1, <1>2 DEF Queued, Settled
<1>4. Queued(s) \subseteq Queued(k) /\ Settled(s) \subseteq Settled(k)
  BY <1>1, <1>2 DEF Queued, Settled
<1> QED
  BY <1>3, <1>4

LEMMA DegradesSound ==
    ASSUME NEW s, NEW k \in Steps, Sound(s), Told(s), Degrades(s, k)
    PROVE  Sound(k) /\ Told(k)
<1>1. s \in Steps /\ Queued(k) = Queued(s) /\ Settled(k) = Settled(s)
  BY DegradesTells DEF Sound
<1>2. CASE k.r.host = s.r.host /\ k.m = s.m
  BY <1>1, <1>2 DEF Sound, Told, Degrades
<1>3. CASE k.r.host = "away" /\ k.m.pending = {}
  BY <1>1, <1>3 DEF Sound, Told, Degrades, Apart, Charted
<1> QED
  BY <1>2, <1>3 DEF Degrades

LEMMA AttachedType ==
    ASSUME NEW s \in Steps
    PROVE  /\ Attached(s) \in Steps /\ Attached(s).m = s.m /\ Attached(s).l = s.l
           /\ Attached(s).out = s.out /\ Attached(s).stopped = s.stopped
           /\ Attached(s).attached = s.attached
           /\ Attached(s).r = [s.r EXCEPT !.host = "connected"]
           /\ Attached(s).r \in Relays /\ Attached(s).r.host = "connected"
           /\ Attached(s).r.admitted = s.r.admitted /\ Attached(s).r.birth = s.r.birth
           /\ Attached(s).r.devices = s.r.devices /\ Attached(s).r.boots = s.r.boots
           /\ HostEpoch(Attached(s).r) = HostEpoch(s.r)
<1> DEFINE r == [s.r EXCEPT !.host = "connected"]
<1>1. /\ r \in Relays /\ r.host = "connected" /\ r.admitted = s.r.admitted
      /\ r.birth = s.r.birth /\ r.devices = s.r.devices /\ r.boots = s.r.boots
      /\ HostEpoch(r) = HostEpoch(s.r)
  BY DEF Steps, Relays, HostEpoch
<1>2. Attached(s) = [s EXCEPT !.r = r, !.up = TRUE]
  BY DEF Attached, Steps
<1> HIDE DEF r
<1>3. /\ Attached(s) \in Steps /\ Attached(s).m = s.m /\ Attached(s).l = s.l
      /\ Attached(s).out = s.out /\ Attached(s).stopped = s.stopped
      /\ Attached(s).attached = s.attached /\ Attached(s).r = r
  BY <1>1, <1>2 DEF Steps
<1> QED
  BY <1>1, <1>3 DEF r

(* A host that is dialled and found finds what the step left.               *)
Dialled(s, k) == \E j \in Steps : /\ Degrades(s, j) /\ j.r.host = "away" /\ j.r.admitted
                                  /\ Degrades(Attached(j), k)

Leads(s, k) == Degrades(s, k) \/ Dialled(s, k)

LEMMA DoLeads ==
    ASSUME NEW s \in Steps, Do(s)
    PROVE  \E k \in Steps : Degrades(s, k) /\ Continue(k)
BY ApplyDegrades DEF Do

LEMMA RedialLeads ==
    ASSUME NEW s \in Steps, Redial(s)
    PROVE  \E k \in Steps : Leads(s, k) /\ Continue(k)
<1>1. PICK gone \in Gone : LET k == Apply(s, gone) IN
         \/ Continue(k)
         \/ k.r.admitted /\ k.r.host = "away" /\ Continue(Apply(Attached(k), gone))
  BY DEF Redial
<1> DEFINE k == Apply(s, gone)
<1>2. k \in Steps /\ Degrades(s, k)
  BY ApplyDegrades
<1> HIDE DEF k
<1>3. Attached(k) \in Steps
  BY <1>2, AttachedType
<1>4. Apply(Attached(k), gone) \in Steps /\ Degrades(Attached(k), Apply(Attached(k), gone))
  BY <1>3, ApplyDegrades
<1>5. CASE Continue(k)
  BY <1>2, <1>5 DEF Leads
<1>6. CASE k.r.admitted /\ k.r.host = "away" /\ Continue(Apply(Attached(k), gone))
  BY <1>2, <1>4, <1>6 DEF Leads, Dialled
<1> QED
  BY <1>1, <1>5, <1>6 DEF k

LEMMA LeadsSound ==
    ASSUME NEW s, NEW k \in Steps, Sound(s), Told(s), Leads(s, k)
    PROVE  Sound(k) /\ Told(k)
<1>1. CASE Degrades(s, k)
  BY <1>1, DegradesSound
<1>2. CASE Dialled(s, k)
  <2>1. PICK j \in Steps : /\ Degrades(s, j) /\ j.r.host = "away"
                           /\ Degrades(Attached(j), k)
    BY <1>2 DEF Dialled
  <2>2. Sound(j) /\ Told(j)
    BY <2>1, DegradesSound
  <2>3. Sound(Attached(j)) /\ Told(Attached(j))
    BY <2>1, <2>2, AttachedType DEF Sound, Told
  <2> QED
    BY <2>1, <2>3, DegradesSound
<1> QED
  BY <1>1, <1>2 DEF Leads

(* Whatever a step leads to that is sound keeps the invariant.              *)
LEMMA ContinueKeeps ==
    ASSUME NEW k, Sound(k), Told(k), Continue(k)
    PROVE  /\ OwedInv'
           /\ relay' \in Relays /\ gate' \in Machines /\ listed' \in Lists /\ attached' \in BOOLEAN
<1>1. /\ relay' = k.r /\ gate' = k.m /\ listed' = k.l /\ attached' = k.attached
      /\ owed' = IF k.r.host = "shaken" THEN (owed \cup Queued(k)) \ Settled(k) ELSE {}
  BY DEF Continue
<1>2. relay' \in Relays /\ gate' \in Machines /\ listed' \in Lists /\ attached' \in BOOLEAN
  BY <1>1 DEF Sound, Steps
<1>3. owed' = NamesOf(k.m.pending)
  <2>1. CASE k.r.host = "shaken"
    BY <1>1, <2>1 DEF Told
  <2>2. CASE k.r.host # "shaken"
    BY <1>1, <2>2 DEF Sound, NamesOf
  <2> QED
    BY <2>1, <2>2
<1>4. /\ Apart(k.m.pending) /\ (k.r.host # "shaken" => k.m.pending = {}) /\ Charted(k.m, k.l)
  BY DEF Sound
<1>5. OwedInv'
  BY <1>1, <1>3, <1>4 DEF OwedInv, Apart, Charted, NamesOf, Names
<1> QED
  BY <1>2, <1>5

-----------------------------------------------------------------------------
(* What is written                                                          *)

Idents == [id: Id, content: Contents]

(* What a command that is sent on must not fall under: the scopes of its    *)
(* device as the step leaves the inventory.                                 *)
ScopesIn(s, d) == {All, d, IF d \in Current(s.r) THEN BoardNow(s.r, d) ELSE s.l.board[d]}

Lawful(s) ==
    \A x \in s.out : x.type = "command" /\ x.kind # "stop" =>
        \A scope \in ScopesIn(s, x.device) : s.m.holds[scope] = "off"

Stopless(s) == s.stopped = {} /\ \A x \in s.out : x.type # "stop"

(* Two steps that differ in what they write alone.                          *)
SameButOut(s, k) ==
    /\ k \in Steps /\ k.r = s.r /\ k.m = s.m /\ k.l = s.l /\ k.attached = s.attached
    /\ k.stopped = s.stopped

OneOf(x, cs) == \E c \in cs : x.device = c.content.device /\ x.kind = c.content.kind

LEMMA CommandType ==
    ASSUME RelayControlAssumption,
           NEW c, c.id \in Id, c.content \in Contents, NEW settles \in BOOLEAN
    PROVE  /\ \A side \in {"gateway", "world", "host", "nobody"} :
                /\ Command(side, c, settles) \in Written
                /\ Command(side, c, settles).type = "command"
                /\ Command(side, c, settles).id = c.id
                /\ Command(side, c, settles).settles = settles
                /\ Command(side, c, settles).device = c.content.device
                /\ Command(side, c, settles).kind = c.content.kind
           /\ \A type \in {"queued", "refused"} :
                /\ Receipt(type, c, settles) \in Written
                /\ Receipt(type, c, settles).type = type
                /\ Receipt(type, c, settles).id = c.id
                /\ Receipt(type, c, settles).settles = settles
<1>1. c.content.device \in Device /\ c.content.kind \in {x.kind : x \in Contents} /\ 0 \in Nat
  BY DEF Contents, RelayControlAssumption
<1> DEFINE C(side) == [to |-> side, type |-> "command", id |-> c.id, device |-> c.content.device,
                       kind |-> c.content.kind, boot |-> 0, epoch |-> 0, settles |-> settles]
           R(type) == [to |-> "host", type |-> type, id |-> c.id, device |-> c.content.device,
                       kind |-> c.content.kind, boot |-> 0, epoch |-> 0, settles |-> settles]
<1>2. \A side \in {"gateway", "world", "host", "nobody"} : C(side) \in Written
  BY <1>1 DEF Written
<1>3. \A type \in {"queued", "refused"} : R(type) \in Written
  BY <1>1 DEF Written
<1>4. \A side : Command(side, c, settles) = C(side)
  BY DEF Command
<1>5. \A type : Receipt(type, c, settles) = R(type)
  BY DEF Receipt, Command
<1> QED
  BY <1>2, <1>3, <1>4, <1>5

LEMMA AnswerEffect ==
    ASSUME RelayControlAssumption,
           NEW s \in Steps, s.out = {}, NEW type \in {"queued", "refused"}, NEW cs,
           \A c \in cs : c.id \in Id /\ c.content \in Contents, NEW settles \in BOOLEAN
    PROVE  LET k == Answer(s, type, cs, settles)
           IN  /\ SameButOut(s, k)
               /\ \A x \in k.out : x.type = type
               /\ Queued(k) = IF type = "queued" THEN {c.id : c \in cs} ELSE {}
               /\ Settled(k) = IF settles THEN {c.id : c \in cs} ELSE {}
<1> DEFINE records == {Receipt(type, c, settles) : c \in cs}
           k == Answer(s, type, cs, settles)
<1>1. \A c \in cs : /\ Receipt(type, c, settles) \in Written
                    /\ Receipt(type, c, settles).type = type
                    /\ Receipt(type, c, settles).id = c.id
                    /\ Receipt(type, c, settles).settles = settles
  BY CommandType
<1>2. k = [s EXCEPT !.out = records, !.up = TRUE]
  BY DEF Answer, Steps
<1>3. records \in SUBSET Written
  BY <1>1
<1>4. /\ \A x \in records : \E c \in cs : x.type = type /\ x.id = c.id /\ x.settles = settles
      /\ \A c \in cs : \E x \in records : x.type = type /\ x.id = c.id /\ x.settles = settles
  BY <1>1
<1> HIDE DEF records
<1>5. SameButOut(s, k) /\ k.out = records
  BY <1>2, <1>3 DEF Steps, SameButOut
<1> HIDE DEF k
<1>6. Queued(k) = IF type = "queued" THEN {c.id : c \in cs} ELSE {}
  BY <1>4, <1>5 DEF Queued
<1>7. Settled(k) = IF settles THEN {c.id : c \in cs} ELSE {}
  BY <1>4, <1>5 DEF Settled
<1> QED
  BY <1>4, <1>5, <1>6, <1>7 DEF k

LEMMA CarryEffect ==
    ASSUME RelayControlAssumption,
           NEW s \in Steps, s.out = {}, NEW side \in {"gateway", "world"}, NEW cs,
           \A c \in cs : c.id \in Id /\ c.content \in Contents, NEW settles \in BOOLEAN
    PROVE  LET k == Carry(s, side, cs, settles)
           IN  /\ SameButOut(s, k)
               /\ \A x \in k.out : x.type = "command" /\ OneOf(x, cs)
               /\ Queued(k) = {}
               /\ Settled(k) = IF settles THEN {c.id : c \in cs} ELSE {}
<1> DEFINE records == {Command(side, c, settles) : c \in cs}
           k == Carry(s, side, cs, settles)
           down == s.down \/ side = "gateway"
<1>1. \A c \in cs : /\ Command(side, c, settles) \in Written
                    /\ Command(side, c, settles).type = "command"
                    /\ Command(side, c, settles).id = c.id
                    /\ Command(side, c, settles).settles = settles
                    /\ Command(side, c, settles).device = c.content.device
                    /\ Command(side, c, settles).kind = c.content.kind
  BY CommandType
<1>2. k = [s EXCEPT !.out = records, !.down = down]
  BY DEF Carry, Steps
<1>3. records \in SUBSET Written /\ down \in BOOLEAN
  BY <1>1
<1>4. /\ \A x \in records : \E c \in cs : /\ x.type = "command" /\ x.id = c.id /\ x.settles = settles
                                      /\ x.device = c.content.device /\ x.kind = c.content.kind
      /\ \A c \in cs : \E x \in records : x.type = "command" /\ x.id = c.id /\ x.settles = settles
  BY <1>1
<1> HIDE DEF records, down
<1>5. SameButOut(s, k) /\ k.out = records
  BY <1>2, <1>3 DEF Steps, SameButOut
<1> HIDE DEF k
<1>6. Queued(k) = {}
  BY <1>4, <1>5 DEF Queued
<1>7. Settled(k) = IF settles THEN {c.id : c \in cs} ELSE {}
  BY <1>4, <1>5 DEF Settled
<1> QED
  BY <1>4, <1>5, <1>6, <1>7 DEF k, OneOf

SentOn(s, k, cs, settles) ==
    /\ SameButOut(s, k)
    /\ \A x \in k.out : /\ x.type \in {"command", "refused"}
                        /\ x.type = "command" => OneOf(x, cs)
    /\ Queued(k) = {}
    /\ Settled(k) = IF settles THEN {c.id : c \in cs} ELSE {}

LEMMA OnwardEffect ==
    ASSUME RelayControlAssumption,
           NEW s \in Steps, s.out = {}, NEW d, NEW cs,
           \A c \in cs : c.id \in Id /\ c.content \in Contents, NEW settles \in BOOLEAN
    PROVE  SentOn(s, Onward(s, d, cs, settles), cs, settles)
<1> DEFINE side == IF Mixed THEN Origin(s.r, d) ELSE "gateway"
           there == IF Mixed THEN side # "unknown" /\ ~(side = "world" /\ s.r.lost) ELSE s.r.admitted
<1>1. Onward(s, d, cs, settles) = IF there THEN Carry(s, side, cs, settles)
                                  ELSE Answer(s, "refused", cs, settles)
  BY DEF Onward
<1>2. there => side \in {"gateway", "world"}
  BY DEF Origin
<1> HIDE DEF side, there
<1>3. CASE there
  <2> DEFINE k == Carry(s, side, cs, settles)
  <2>1. /\ SameButOut(s, k)
        /\ \A x \in k.out : x.type = "command" /\ OneOf(x, cs)
        /\ Queued(k) = {}
        /\ Settled(k) = IF settles THEN {c.id : c \in cs} ELSE {}
    <3>1. side \in {"gateway", "world"}
      BY <1>2, <1>3
    <3>2. \A z \in {"gateway", "world"} : LET j == Carry(s, z, cs, settles) IN
             /\ SameButOut(s, j)
             /\ \A x \in j.out : x.type = "command" /\ OneOf(x, cs)
             /\ Queued(j) = {}
             /\ Settled(j) = IF settles THEN {c.id : c \in cs} ELSE {}
      BY CarryEffect
    <3> QED
      BY <3>1, <3>2
  <2>2. Onward(s, d, cs, settles) = k
    BY <1>1, <1>3
  <2> HIDE DEF k
  <2> QED
    BY <2>1, <2>2 DEF SentOn
<1>4. CASE ~there
  <2> DEFINE k == Answer(s, "refused", cs, settles)
  <2>1. /\ SameButOut(s, k)
        /\ \A x \in k.out : x.type = "refused"
        /\ Queued(k) = {}
        /\ Settled(k) = IF settles THEN {c.id : c \in cs} ELSE {}
    BY AnswerEffect
  <2>2. Onward(s, d, cs, settles) = k
    BY <1>1, <1>4
  <2> HIDE DEF k
  <2> QED
    BY <2>1, <2>2 DEF SentOn
<1> QED
  BY <1>3, <1>4

-----------------------------------------------------------------------------
(* The rules                                                                *)

LEMMA VerdictMeans ==
    ASSUME NEW l, NEW m, NEW c, NEW now
    PROVE  LET verdict == Rules(l)!Verdict(m, c, now)
           IN  /\ verdict = "pass" => \/ c.content.kind = "stop"
                                      \/ ~Rules(l)!HoldCovers(m, c.content.device)
               /\ verdict = "queue" => /\ c.id \notin NamesOf(m.pending)
                                       /\ \A p \in m.pending : p.key # c.key
               /\ verdict = "join" => /\ c.id \notin NamesOf(m.pending)
                                      /\ \E p \in m.pending : p.key = c.key
               /\ verdict = "retry" => c.id \in NamesOf(m.pending)
BY DEF Rules!Verdict, Rules!DeclaredStop, Rules!QueueVerdict, Rules!IdWaiting, Rules!KeyWaiting,
       Rules!SameIntent, Rules!Holders, Names, NamesOf

(* A device that no hold covers is under no scope that holds.               *)
LEMMA NotCovered ==
    ASSUME NEW s \in Steps, Charted(s.m, s.l), NEW d \in Device, NEW scope,
           \A e \in Current(s.r) : e \in s.m.inventory /\ s.l.board[e] = BoardNow(s.r, e),
           ~Rules(s.l)!HoldCovers(s.m, d), scope \in ScopesIn(s, d)
    PROVE  s.m.holds[scope] = "off"
<1>1. s.l.board[d] \in Board \cup {All}
  BY DEF Steps, Lists
<1>2. scope \in Scopes
  BY <1>1 DEF ScopesIn, Scopes
<1> QED
  BY <1>2 DEF ScopesIn, Charted, Rules!HoldCovers, Rules!Scope, Rules!Covers, Scopes

LEMMA EnqueueApart ==
    ASSUME NEW P, Apart(P), NEW p, p.waiting = <<>>,
           p.id \notin NamesOf(P), \A q \in P : q.key # p.key
    PROVE  Apart(P \cup {p}) /\ NamesOf(P \cup {p}) = NamesOf(P) \cup {p.id}
<1>1. Names(p) = {p.id}
  BY DEF Names
<1> QED
  BY <1>1 DEF Apart, NamesOf

LEMMA JoinNames ==
    ASSUME NEW p, p.waiting \in Seq(Id), NEW i \in Id
    PROVE  LET q == [p EXCEPT !.waiting = Append(@, i)]
           IN  p \in Waiting => /\ q \in Waiting /\ q.key = p.key
                               /\ Names(q) = Names(p) \cup {i}
<1> SUFFICES ASSUME p \in Waiting
             PROVE  LET q == [p EXCEPT !.waiting = Append(@, i)]
                    IN  q \in Waiting /\ q.key = p.key /\ Names(q) = Names(p) \cup {i}
  OBVIOUS
<1> DEFINE w == Append(p.waiting, i)
           q == [p EXCEPT !.waiting = w]
<1>1. /\ w \in Seq(Id) /\ Len(w) = Len(p.waiting) + 1 /\ Len(p.waiting) \in Nat
      /\ w[Len(p.waiting) + 1] = i
      /\ \A n \in 1..Len(p.waiting) : w[n] = p.waiting[n]
  OBVIOUS
<1> HIDE DEF w
<1>2. q \in Waiting /\ q.key = p.key /\ q.id = p.id /\ q.waiting = w
  BY <1>1 DEF Waiting
<1> HIDE DEF q
<1>3. {w[n] : n \in 1..Len(w)} = {p.waiting[n] : n \in 1..Len(p.waiting)} \cup {i}
  BY <1>1
<1>4. Names(q) = Names(p) \cup {i}
  <2>1. Names(q) = {p.id} \cup {w[n] : n \in 1..Len(w)}
    BY <1>2 DEF Names
  <2> QED
    BY <1>3, <2>1 DEF Names
<1> QED
  BY <1>2, <1>4 DEF q, w

Joined(m, k, id) ==
    /\ k \in Machines /\ k.holds = m.holds /\ k.inventory = m.inventory
    /\ Apart(k.pending) /\ NamesOf(k.pending) = NamesOf(m.pending) \cup {id}

LEMMA JoinApart ==
    ASSUME NEW l, NEW m \in Machines, NEW c, c.id \in Id, Apart(m.pending),
           c.id \notin NamesOf(m.pending), \E p \in m.pending : p.key = c.key
    PROVE  Joined(m, Rules(l)!Join(m, c), c.id)
<1> DEFINE G(p) == IF p.key = c.key THEN [p EXCEPT !.waiting = Append(@, c.id)] ELSE p
           P == {G(p) : p \in m.pending}
           k == Rules(l)!Join(m, c)
<1>1. m.pending \subseteq Waiting /\ \A p \in m.pending : p.waiting \in Seq(Id)
  BY DEF Machines, Waiting
<1>2. \A p \in m.pending :
         /\ G(p) \in Waiting /\ G(p).key = p.key
         /\ Names(G(p)) = IF p.key = c.key THEN Names(p) \cup {c.id} ELSE Names(p)
  BY <1>1, JoinNames
<1>3. k = [m EXCEPT !.pending = P]
  BY DEF Rules!Join
<1> HIDE DEF G
<1>4. P \in SUBSET Waiting
  BY <1>2
<1>5. /\ \A q \in P : \E p \in m.pending : q = G(p)
      /\ \A p \in m.pending : G(p) \in P
  OBVIOUS
<1> HIDE DEF P
<1>6. k \in Machines /\ k.holds = m.holds /\ k.inventory = m.inventory /\ k.pending = P
  BY <1>3, <1>4 DEF Machines
<1>7. Apart(P)
  <2> SUFFICES ASSUME NEW p \in m.pending, NEW q \in m.pending, p # q
               PROVE  G(p).key # G(q).key /\ Names(G(p)) \cap Names(G(q)) = {}
    BY <1>5 DEF Apart
  <2>1. p.key # q.key /\ Names(p) \cap Names(q) = {}
    BY DEF Apart
  <2>2. c.id \notin Names(p) /\ c.id \notin Names(q)
    BY DEF NamesOf
  <2> QED
    BY <1>2, <2>1, <2>2
<1>8. NamesOf(P) = NamesOf(m.pending) \cup {c.id}
  <2>1. NamesOf(P) \subseteq NamesOf(m.pending) \cup {c.id}
    BY <1>2, <1>5 DEF NamesOf
  <2>2. NamesOf(m.pending) \cup {c.id} \subseteq NamesOf(P)
    BY <1>2, <1>5 DEF NamesOf
  <2> QED
    BY <2>1, <2>2
<1> HIDE DEF k
<1> QED
  BY <1>6, <1>7, <1>8 DEF k, Joined

(* What is dropped is no longer named.                                      *)
LEMMA DropNames ==
    ASSUME NEW P, NEW gone, Apart(P), gone \subseteq P
    PROVE  Apart(P \ gone) /\ NamesOf(P \ gone) = NamesOf(P) \ NamesOf(gone)
BY DEF Apart, NamesOf

-----------------------------------------------------------------------------
(* The handlers                                                             *)

(* The inventory of the rules is what is announced now, and before.         *)
Synced(s) == \A d \in Current(s.r) : d \in s.m.inventory /\ s.l.board[d] = BoardNow(s.r, d)

(* A handler begins: nothing is written.                                    *)
Begun(s) == Sound(s) /\ Told(s) /\ Synced(s) /\ s.out = {} /\ s.stopped = {}

Done(k) == Sound(k) /\ Told(k) /\ Lawful(k) /\ Stopless(k)

LEMMA BoardNowType ==
    ASSUME RelayControlAssumption, NEW r \in Relays
    PROVE  /\ Current(r) \subseteq Device
           /\ \A d \in Current(r) : BoardNow(r, d) \in Board
<1>1. r.birth \in Announcements \/ r.birth = <<>>
  BY DEF Relays
<1>2. CASE r.birth \in Announcements
  BY <1>2 DEF RelayControlAssumption, Current, BoardNow
<1>3. CASE r.birth = <<>>
  <2>1. DOMAIN r.birth = {}
    BY <1>3
  <2> QED
    BY <2>1 DEF RelayControlAssumption, Current, BoardNow
<1> QED
  BY <1>1, <1>2, <1>3

LEMMA SyncEffect ==
    ASSUME RelayControlAssumption, NEW s, Sound(s), Told(s), s.out = {}, s.stopped = {}
    PROVE  Begun(Sync(s)) /\ Sync(s).r = s.r /\ Sync(s).attached = s.attached
           /\ Sync(s).m.pending = s.m.pending
<1> DEFINE now == Current(s.r)
           inventory == s.m.inventory \cup now
           m == [s.m EXCEPT !.inventory = inventory]
           board == [d \in Device |-> IF d \in now THEN BoardNow(s.r, d) ELSE s.l.board[d]]
           stopping == (s.l.stopping \ now) \cup (now \cap s.r.kinds \cap Stoppable)
           l == [board |-> board, stopping |-> stopping]
           k == Sync(s)
<1>1. s \in Steps /\ s.r \in Relays /\ s.m \in Machines /\ s.l \in Lists
  BY DEF Sound, Steps
<1>2. now \subseteq Device /\ \A d \in now : BoardNow(s.r, d) \in Board
  BY <1>1, BoardNowType
<1>3. k = [s EXCEPT !.m = m, !.l = l]
  BY <1>1 DEF Sync, Rules!SetInventory, Steps
<1>4. inventory \in SUBSET Device
  BY <1>1, <1>2 DEF Machines
<1>5. board \in [Device -> Board \cup {All}] /\ stopping \in SUBSET Device
  BY <1>1, <1>2 DEF Lists
<1>6. /\ \A d \in now : d \in inventory /\ board[d] = BoardNow(s.r, d)
      /\ \A d \in Device : d \in inventory \/ board[d] = All
  BY <1>2 DEF Sound, Charted
<1> HIDE DEF inventory, board, stopping
<1>7. /\ m \in Machines /\ m.pending = s.m.pending /\ m.holds = s.m.holds
      /\ m.inventory = inventory /\ l \in Lists /\ l.board = board
  BY <1>1, <1>4, <1>5 DEF Machines, Lists
<1> HIDE DEF m, l
<1>8. /\ k \in Steps /\ k.r = s.r /\ k.attached = s.attached /\ k.out = {} /\ k.stopped = {}
      /\ k.m = m /\ k.l = l
  BY <1>1, <1>3, <1>7 DEF Steps
<1> HIDE DEF k
<1>9. Sound(k) /\ Synced(k)
  BY <1>6, <1>7, <1>8 DEF Sound, Charted, Synced
<1>10. Told(k)
  BY <1>7, <1>8 DEF Told, Queued, Settled
<1> HIDE DEF now
<1> QED
  BY <1>7, <1>8, <1>9, <1>10 DEF Begun, k

(* A step that only answers obeys no order.                                 *)
LEMMA AnsweredIsDone ==
    ASSUME NEW k, NEW type, type \notin {"command", "stop"}, \A x \in k.out : x.type = type,
           k.stopped = {}
    PROVE  Lawful(k) /\ Stopless(k)
BY DEF Lawful, Stopless

LEMMA JudgedIsDone ==
    ASSUME RelayControlAssumption, NEW s, Begun(s), s.r.host = "shaken",
           NEW c \in HostCommands, NEW now
    PROVE  Done(Judged(s, c, now))
<1> DEFINE verdict == Rules(s.l)!Verdict(s.m, c, now)
           k == Judged(s, c, now)
<1>1. /\ s \in Steps /\ s.m \in Machines /\ s.l \in Lists /\ s.r \in Relays
      /\ s.out = {} /\ s.stopped = {} /\ Apart(s.m.pending) /\ Charted(s.m, s.l)
  BY DEF Begun, Sound, Steps
<1>2. /\ c.id \in Id /\ c.key \in Key /\ c.content \in Contents /\ c.content.device \in Device
      /\ c.deadline \in {x.deadline : x \in HostCommands}
  BY DEF RelayControlAssumption, Contents
<1>3. NamesOf(s.m.pending) = owed
  BY <1>1 DEF Begun, Told, Queued, Settled
<1>4. /\ verdict = "pass" => \/ c.content.kind = "stop"
                             \/ ~Rules(s.l)!HoldCovers(s.m, c.content.device)
      /\ verdict = "queue" => /\ c.id \notin NamesOf(s.m.pending)
                              /\ \A p \in s.m.pending : p.key # c.key
      /\ verdict = "join" => /\ c.id \notin NamesOf(s.m.pending)
                             /\ \E p \in s.m.pending : p.key = c.key
      /\ verdict = "retry" => c.id \in NamesOf(s.m.pending)
  BY VerdictMeans
<1>5. k = CASE verdict = "pass" -> Onward(s, c.content.device, {c}, FALSE)
          [] verdict = "queue" -> Answer([s EXCEPT !.m = Rules(s.l)!Enqueue(s.m, c)], "queued", {c}, FALSE)
          [] verdict = "join" -> Answer([s EXCEPT !.m = Rules(s.l)!Join(s.m, c)], "queued", {c}, FALSE)
          [] verdict = "retry" -> Answer(s, "queued", {c}, FALSE)
          [] OTHER -> Answer(s, "refused", {c}, FALSE)
  BY <1>1 DEF Judged, Steps
<1> SUFFICES Done(k)
  OBVIOUS
<1>11. {x.id : x \in {c}} = {c.id} /\ \A x \in {c} : x.id \in Id /\ x.content \in Contents
  BY <1>2
<1> HIDE DEF verdict, k
<1>6. CASE verdict = "pass"
  <2> DEFINE j == Onward(s, c.content.device, {c}, FALSE)
  <2>1. /\ SameButOut(s, j)
        /\ \A x \in j.out : /\ x.type \in {"command", "refused"}
                            /\ x.type = "command" => OneOf(x, {c})
        /\ Queued(j) = {} /\ Settled(j) = {}
    <3>1. SentOn(s, j, {c}, FALSE)
      BY <1>1, <1>2, OnwardEffect
    <3> QED
      BY <3>1 DEF SentOn
  <2>2. k = j
    BY <1>5, <1>6
  <2> HIDE DEF j
  <2>3. Sound(k) /\ Told(k) /\ Stopless(k)
    BY <1>1, <1>3, <2>1, <2>2 DEF Begun, Sound, Told, Stopless, SameButOut
  <2>4. Lawful(k)
    <3> SUFFICES ASSUME NEW x \in k.out, x.type = "command", x.kind # "stop",
                        NEW scope \in ScopesIn(k, x.device)
                 PROVE  k.m.holds[scope] = "off"
      BY DEF Lawful
    <3>1. x.device = c.content.device /\ ~Rules(s.l)!HoldCovers(s.m, c.content.device)
      BY <1>4, <1>6, <2>1, <2>2 DEF OneOf
    <3>2. scope \in ScopesIn(s, c.content.device)
      BY <2>1, <2>2, <3>1 DEF SameButOut, ScopesIn
    <3>3. s.m.holds[scope] = "off"
      BY <1>1, <1>2, <3>1, <3>2, NotCovered DEF Begun, Synced
    <3> QED
      BY <2>1, <2>2, <3>3 DEF SameButOut
  <2> QED
    BY <2>3, <2>4 DEF Done
<1>7. CASE verdict = "queue"
  <2> DEFINE m == Rules(s.l)!Enqueue(s.m, c)
             p == [id |-> c.id, key |-> c.key, content |-> c.content, deadline |-> c.deadline, waiting |-> <<>>]
             t == [s EXCEPT !.m = m]
             j == Answer(t, "queued", {c}, FALSE)
  <2>1. p \in Waiting /\ p.waiting = <<>> /\ p.id = c.id /\ p.key = c.key
    BY <1>2 DEF Waiting
  <2>2. m = [s.m EXCEPT !.pending = s.m.pending \cup {p}]
    BY DEF Rules!Enqueue, Rules!PendingOf
  <2> HIDE DEF p, m
  <2>3. /\ m \in Machines /\ m.holds = s.m.holds /\ m.inventory = s.m.inventory
    BY <1>1, <2>1, <2>2 DEF Machines
  <2>10. m.pending = s.m.pending \cup {p}
    BY <1>1, <2>2 DEF Machines
  <2>4. Apart(m.pending) /\ NamesOf(m.pending) = owed \cup {c.id}
    <3>1. p.id \notin NamesOf(s.m.pending) /\ \A q \in s.m.pending : q.key # p.key
      BY <1>4, <1>7, <2>1
    <3>2. /\ Apart(s.m.pending \cup {p})
          /\ NamesOf(s.m.pending \cup {p}) = NamesOf(s.m.pending) \cup {p.id}
      BY <1>1, <2>1, <3>1, EnqueueApart
    <3> QED
      BY <1>3, <2>1, <2>10, <3>2
  <2>5. /\ t \in Steps /\ t.r = s.r /\ t.l = s.l /\ t.m = m /\ t.out = {} /\ t.stopped = {}
    BY <1>1, <2>3 DEF Steps
  <2> HIDE DEF t
  <2>6. /\ SameButOut(t, j) /\ \A x \in j.out : x.type = "queued"
        /\ Queued(j) = {c.id} /\ Settled(j) = {}
    <3>1. /\ SameButOut(t, j) /\ \A x \in j.out : x.type = "queued"
          /\ Queued(j) = {x.id : x \in {c}} /\ Settled(j) = {}
      BY <1>11, <2>5, AnswerEffect
    <3> QED
      BY <1>11, <3>1
  <2>7. k = j
    BY <1>5, <1>7 DEF t, m
  <2> HIDE DEF j
  <2>8. Sound(k)
    BY <1>1, <2>3, <2>4, <2>5, <2>6, <2>7 DEF Begun, Sound, Charted, SameButOut
  <2>9. Told(k)
    BY <2>4, <2>5, <2>6, <2>7 DEF Told, SameButOut
  <2> QED
    BY <2>5, <2>6, <2>7, <2>8, <2>9, AnsweredIsDone DEF Done, SameButOut
<1>8. CASE verdict = "join"
  <2> DEFINE m == Rules(s.l)!Join(s.m, c)
             t == [s EXCEPT !.m = m]
             j == Answer(t, "queued", {c}, FALSE)
  <2>3. /\ m \in Machines /\ m.holds = s.m.holds /\ m.inventory = s.m.inventory
        /\ Apart(m.pending) /\ NamesOf(m.pending) = NamesOf(s.m.pending) \cup {c.id}
    <3>1. c.id \notin NamesOf(s.m.pending) /\ \E p \in s.m.pending : p.key = c.key
      BY <1>4, <1>8
    <3>2. Joined(s.m, m, c.id)
      BY <1>1, <1>2, <3>1, JoinApart
    <3> QED
      BY <3>2 DEF Joined
  <2> HIDE DEF m
  <2>5. /\ t \in Steps /\ t.r = s.r /\ t.l = s.l /\ t.m = m /\ t.out = {} /\ t.stopped = {}
    BY <1>1, <2>3 DEF Steps
  <2> HIDE DEF t
  <2>6. /\ SameButOut(t, j) /\ \A x \in j.out : x.type = "queued"
        /\ Queued(j) = {c.id} /\ Settled(j) = {}
    <3>1. /\ SameButOut(t, j) /\ \A x \in j.out : x.type = "queued"
          /\ Queued(j) = {x.id : x \in {c}} /\ Settled(j) = {}
      BY <1>11, <2>5, AnswerEffect
    <3> QED
      BY <1>11, <3>1
  <2>7. k = j
    BY <1>5, <1>8 DEF t, m
  <2> HIDE DEF j
  <2>8. Sound(k)
    BY <1>1, <2>3, <2>5, <2>6, <2>7 DEF Begun, Sound, Charted, SameButOut
  <2>9. Told(k)
    BY <1>3, <2>3, <2>5, <2>6, <2>7 DEF Told, SameButOut
  <2> QED
    BY <2>5, <2>6, <2>7, <2>8, <2>9, AnsweredIsDone DEF Done, SameButOut
<1>9. CASE verdict = "retry"
  <2> DEFINE j == Answer(s, "queued", {c}, FALSE)
  <2>1. /\ SameButOut(s, j) /\ \A x \in j.out : x.type = "queued"
        /\ Queued(j) = {c.id} /\ Settled(j) = {}
    <3>1. /\ SameButOut(s, j) /\ \A x \in j.out : x.type = "queued"
          /\ Queued(j) = {x.id : x \in {c}} /\ Settled(j) = {}
      BY <1>1, <1>11, AnswerEffect
    <3> QED
      BY <1>11, <3>1
  <2>2. k = j
    BY <1>5, <1>9
  <2> HIDE DEF j
  <2>3. Sound(k) /\ Told(k)
    BY <1>3, <1>4, <1>9, <2>1, <2>2 DEF Begun, Sound, Told, SameButOut
  <2> QED
    BY <1>1, <2>1, <2>2, <2>3, AnsweredIsDone DEF Done, SameButOut
<1>10. CASE verdict \notin {"pass", "queue", "join", "retry"}
  <2> DEFINE j == Answer(s, "refused", {c}, FALSE)
  <2>1. /\ SameButOut(s, j) /\ \A x \in j.out : x.type = "refused"
        /\ Queued(j) = {} /\ Settled(j) = {}
    BY <1>1, <1>2, AnswerEffect
  <2>2. k = j
    BY <1>5, <1>10
  <2> HIDE DEF j
  <2>3. Sound(k) /\ Told(k)
    BY <1>3, <2>1, <2>2 DEF Begun, Sound, Told, SameButOut
  <2> QED
    BY <1>1, <2>1, <2>2, <2>3, AnsweredIsDone DEF Done, SameButOut
<1> QED
  BY <1>6, <1>7, <1>8, <1>9, <1>10

LEMMA PayloadsEffect ==
    ASSUME NEW gone \in SUBSET Waiting
    PROVE  LET cs == UNION {Payloads(p) : p \in gone}
           IN  /\ \A c \in cs : c.id \in Id /\ c.content \in Contents
               /\ {c.id : c \in cs} = NamesOf(gone)
<1> DEFINE cs == UNION {Payloads(p) : p \in gone}
<1>1. \A p \in gone : Payloads(p) = {[id |-> i, content |-> p.content] : i \in Names(p)}
  BY HoldersAreNames DEF Payloads
<1>2. \A p \in gone : Names(p) \subseteq Id /\ p.content \in Contents
  BY DEF Waiting, Names
<1>3. \A c \in cs : \E p \in gone : \E i \in Names(p) : c = [id |-> i, content |-> p.content]
  BY <1>1
<1>4. \A p \in gone : \A i \in Names(p) : [id |-> i, content |-> p.content] \in cs
  BY <1>1
<1> HIDE DEF cs
<1>5. \A c \in cs : c.id \in Id /\ c.content \in Contents
  BY <1>2, <1>3
<1>6. {c.id : c \in cs} \subseteq NamesOf(gone)
  BY <1>3 DEF NamesOf
<1>7. \A p \in gone : \A i \in Names(p) : i \in {c.id : c \in cs}
  <2> TAKE p \in gone
  <2> TAKE i \in Names(p)
  <2> DEFINE c == [id |-> i, content |-> p.content]
  <2>1. c \in cs /\ c.id = i
    BY <1>4
  <2> QED
    BY <2>1
<1>8. NamesOf(gone) \subseteq {c.id : c \in cs}
  BY <1>7 DEF NamesOf
<1> QED
  BY <1>5, <1>6, <1>8 DEF cs

Kept(s, k) == /\ k.r = s.r /\ k.l = s.l /\ k.attached = s.attached
              /\ k.m.holds = s.m.holds /\ k.m.inventory = s.m.inventory

(* P: what waited; a hold has dropped what it covers before it is refused.  *)
LEMMA RefuseIsDone ==
    ASSUME RelayControlAssumption, NEW s \in Steps, Charted(s.m, s.l), s.out = {}, s.stopped = {},
           NEW P \in SUBSET Waiting, NEW gone \in SUBSET P, Apart(P),
           s.m.pending \ gone = P \ gone,
           s.r.host # "shaken" => P = {}, s.r.host = "shaken" => NamesOf(P) = owed
    PROVE  Done(Refuse(s, gone)) /\ Kept(s, Refuse(s, gone))
<1> DEFINE m == Rules(s.l)!Drop(s.m, gone)
           t == [s EXCEPT !.m = m]
           k == Refuse(s, gone)
           cs == UNION {Payloads(p) : p \in gone}
           j == Answer(t, "refused", cs, TRUE)
<1>1. s.m \in Machines /\ s.r \in Relays
  BY DEF Steps
<1>2. m \in Machines /\ m = [s.m EXCEPT !.pending = s.m.pending \ gone]
  BY <1>1, DropType
<1> HIDE DEF m
<1>3. m.holds = s.m.holds /\ m.inventory = s.m.inventory /\ m.pending = P \ gone
  BY <1>1, <1>2 DEF Machines
<1>4. /\ t \in Steps /\ t.r = s.r /\ t.l = s.l /\ t.attached = s.attached
      /\ t.out = {} /\ t.stopped = {} /\ t.m = m
  BY <1>2 DEF Steps
<1>5. k = IF s.r.host # "shaken" \/ gone = {} THEN t ELSE j
  BY DEF Refuse, m, Steps
<1> HIDE DEF t
<1>6. Apart(m.pending) /\ NamesOf(m.pending) = NamesOf(P) \ NamesOf(gone)
  <2>1. Apart(P \ gone) /\ NamesOf(P \ gone) = NamesOf(P) \ NamesOf(gone)
    BY DropNames
  <2> QED
    BY <1>3, <2>1
<1>7. Sound(t)
  BY <1>3, <1>4, <1>6 DEF Sound, Charted
<1>8. /\ SameButOut(t, j) /\ \A x \in j.out : x.type = "refused"
      /\ Queued(j) = {} /\ Settled(j) = NamesOf(gone)
  <2>1. gone \in SUBSET Waiting
    OBVIOUS
  <2>2. /\ \A c \in cs : c.id \in Id /\ c.content \in Contents
        /\ {c.id : c \in cs} = NamesOf(gone)
    BY <2>1, PayloadsEffect
  <2> HIDE DEF cs
  <2>3. /\ SameButOut(t, j) /\ \A x \in j.out : x.type = "refused"
        /\ Queued(j) = {} /\ Settled(j) = {c.id : c \in cs}
    BY <1>4, <2>2, AnswerEffect
  <2> QED
    BY <2>2, <2>3
<1> HIDE DEF j, cs
<1> SUFFICES Done(k) /\ Kept(s, k)
  OBVIOUS
<1> HIDE DEF k
<1>9. CASE s.r.host # "shaken" \/ gone = {}
  <2>1. k = t
    BY <1>5, <1>9
  <2>2. Told(t)
    <3>1. CASE s.r.host # "shaken"
      BY <1>4, <3>1 DEF Told
    <3>2. CASE gone = {} /\ s.r.host = "shaken"
      <4>1. NamesOf(m.pending) = owed
        BY <1>3, <3>2
      <4> QED
        BY <1>4, <4>1 DEF Told, Queued, Settled
    <3> QED
      BY <1>9, <3>1, <3>2
  <2> QED
    BY <1>3, <1>4, <1>7, <2>1, <2>2 DEF Done, Kept, Lawful, Stopless
<1>10. CASE s.r.host = "shaken" /\ gone # {}
  <2>1. k = j
    BY <1>5, <1>10
  <2>2. Sound(k)
    BY <1>7, <1>8, <2>1 DEF Sound, SameButOut
  <2>3. Told(k)
    BY <1>4, <1>6, <1>8, <1>10, <2>1 DEF Told, SameButOut
  <2>4. Lawful(k) /\ Stopless(k)
    BY <1>4, <1>8, <2>1, AnsweredIsDone DEF SameButOut
  <2> QED
    BY <1>3, <1>4, <1>8, <2>1, <2>2, <2>3, <2>4 DEF Done, Kept, SameButOut
<1> QED
  BY <1>9, <1>10

LEMMA BegunOwes ==
    ASSUME NEW s, Begun(s)
    PROVE  /\ s \in Steps /\ s.m \in Machines /\ s.r \in Relays /\ s.l \in Lists
           /\ s.m.pending \in SUBSET Waiting /\ Apart(s.m.pending) /\ Charted(s.m, s.l)
           /\ s.out = {} /\ s.stopped = {}
           /\ s.r.host # "shaken" => s.m.pending = {}
           /\ s.r.host = "shaken" => NamesOf(s.m.pending) = owed
<1>1. /\ s \in Steps /\ s.m \in Machines /\ s.r \in Relays /\ s.l \in Lists
      /\ Apart(s.m.pending) /\ Charted(s.m, s.l) /\ s.out = {} /\ s.stopped = {}
      /\ s.r.host # "shaken" => s.m.pending = {}
  BY DEF Begun, Sound, Steps
<1>2. s.m.pending \in SUBSET Waiting
  BY <1>1 DEF Machines
<1>3. s.r.host = "shaken" => NamesOf(s.m.pending) = owed
  BY <1>1 DEF Begun, Told, Queued, Settled
<1> QED
  BY <1>1, <1>2, <1>3

LEMMA OverdueIsDone ==
    ASSUME RelayControlAssumption, NEW s, Begun(s), NEW gone \in SUBSET s.m.pending
    PROVE  Done(Refuse(s, gone))
BY BegunOwes, RefuseIsDone

LEMMA HoldIsDone ==
    ASSUME RelayControlAssumption, NEW s, Begun(s), NEW scope \in Scopes, NEW latch \in BOOLEAN
    PROVE  /\ Done(Hold(s, scope, latch)) /\ Hold(s, scope, latch).r = s.r
           /\ Hold(s, scope, latch).l = s.l /\ Hold(s, scope, latch).attached = s.attached
<1> DEFINE gone == Rules(s.l)!CoveredBy(s.m, scope)
           hold == IF latch \/ s.m.holds[scope] = "latched" THEN "latched" ELSE "held"
           holds == [s.m.holds EXCEPT ![scope] = hold]
           m == [s.m EXCEPT !.pending = s.m.pending \ gone, !.holds = holds]
           t == [s EXCEPT !.m = m]
<1>1. /\ s \in Steps /\ s.m \in Machines /\ s.r \in Relays /\ s.l \in Lists
      /\ s.m.pending \in SUBSET Waiting /\ Apart(s.m.pending) /\ Charted(s.m, s.l)
      /\ s.out = {} /\ s.stopped = {}
      /\ s.r.host # "shaken" => s.m.pending = {}
      /\ s.r.host = "shaken" => NamesOf(s.m.pending) = owed
  BY BegunOwes
<1>2. gone \in SUBSET s.m.pending
  BY DEF Rules!CoveredBy
<1>3. Rules(s.l)!SetHold(s.m, scope, latch) = m
  <2> DEFINE d == Rules(s.l)!Drop(s.m, gone)
  <2>1. d = [s.m EXCEPT !.pending = s.m.pending \ gone] /\ d \in Machines
    BY <1>1, DropType
  <2>2. Rules(s.l)!SetHold(s.m, scope, latch) =
          [d EXCEPT !.holds = [d.holds EXCEPT ![scope] =
              IF latch \/ d.holds[scope] = "latched" THEN "latched" ELSE "held"]]
    BY <1>1, <2>1 DEF Rules!SetHold, Machines
  <2> HIDE DEF d
  <2>3. d.holds = s.m.holds
    BY <1>1, <2>1 DEF Machines
  <2> HIDE DEF gone
  <2> QED
    BY <1>1, <2>1, <2>2, <2>3 DEF Machines
<1>4. Hold(s, scope, latch) = Refuse(t, gone)
  BY <1>1, <1>3 DEF Hold, Steps
<1> HIDE DEF gone
<1>5. holds \in [Scopes -> {"off", "held", "latched"}]
  BY <1>1 DEF Machines
<1> HIDE DEF holds
<1>6. /\ m \in Machines /\ m.inventory = s.m.inventory /\ m.pending = s.m.pending \ gone
      /\ m.holds = holds
  BY <1>1, <1>5 DEF Machines
<1> HIDE DEF m
<1>7. /\ t \in Steps /\ t.r = s.r /\ t.l = s.l /\ t.attached = s.attached
      /\ t.out = {} /\ t.stopped = {} /\ t.m = m
  BY <1>1, <1>6 DEF Steps
<1> HIDE DEF t
<1>8. Charted(t.m, t.l) /\ t.m.pending \ gone = s.m.pending \ gone
  BY <1>1, <1>6, <1>7 DEF Charted
<1>9. Done(Refuse(t, gone)) /\ Kept(t, Refuse(t, gone))
  BY <1>1, <1>2, <1>7, <1>8, RefuseIsDone
<1> QED
  BY <1>4, <1>7, <1>9 DEF Kept

(* What the operator approves is sent on, unless a hold forbids it now.     *)
LEMMA DecidedIsDone ==
    ASSUME RelayControlAssumption, NEW s, Begun(s), NEW p \in s.m.pending, NEW approve \in BOOLEAN
    PROVE  Done(Decided(s, p, approve))
<1> DEFINE forward == approve /\ ~Rules(s.l)!HoldCovers(s.m, p.content.device)
           m == Rules(s.l)!Drop(s.m, {p})
           t == [s EXCEPT !.m = m]
           d == p.content.device
           j == Onward(t, d, Payloads(p), TRUE)
           k == Decided(s, p, approve)
<1>1. /\ s \in Steps /\ s.m \in Machines /\ s.r \in Relays /\ s.l \in Lists
      /\ s.m.pending \in SUBSET Waiting /\ Apart(s.m.pending) /\ Charted(s.m, s.l)
      /\ s.out = {} /\ s.stopped = {}
      /\ s.r.host # "shaken" => s.m.pending = {}
      /\ s.r.host = "shaken" => NamesOf(s.m.pending) = owed
  BY BegunOwes
<1>2. m \in Machines /\ m = [s.m EXCEPT !.pending = s.m.pending \ {p}]
  BY <1>1, DropType
<1>3. k = IF ~forward THEN Refuse(s, {p})
          ELSE IF s.r.host = "shaken" THEN j ELSE t
  BY <1>1 DEF Decided, Steps
<1> SUFFICES Done(k)
  OBVIOUS
<1> HIDE DEF k, m
<1>4. m.holds = s.m.holds /\ m.inventory = s.m.inventory /\ m.pending = s.m.pending \ {p}
  BY <1>1, <1>2 DEF Machines
<1>5. /\ t \in Steps /\ t.r = s.r /\ t.l = s.l /\ t.attached = s.attached
      /\ t.out = {} /\ t.stopped = {} /\ t.m = m
  BY <1>1, <1>2 DEF Steps
<1> HIDE DEF t
<1>6. s.r.host = "shaken"
  BY <1>1
<1>7. Apart(m.pending) /\ NamesOf(m.pending) = owed \ Names(p)
  <2>1. /\ Apart(s.m.pending \ {p})
        /\ NamesOf(s.m.pending \ {p}) = NamesOf(s.m.pending) \ NamesOf({p})
    BY <1>1, DropNames
  <2>2. NamesOf({p}) = Names(p)
    BY DEF NamesOf
  <2> QED
    BY <1>1, <1>4, <1>6, <2>1, <2>2
<1>8. CASE ~forward
  <2>1. {p} \in SUBSET s.m.pending
    OBVIOUS
  <2>2. Done(Refuse(s, {p}))
    BY <2>1, OverdueIsDone
  <2> QED
    BY <1>3, <1>8, <2>2
<1>9. CASE forward
  <2>1. k = j
    BY <1>3, <1>6, <1>9
  <2>2. /\ \A c \in Payloads(p) : c.id \in Id /\ c.content \in Contents /\ c.content = p.content
        /\ {c.id : c \in Payloads(p)} = Names(p)
    <3>1. {p} \in SUBSET Waiting
      BY <1>1
    <3>2. UNION {Payloads(q) : q \in {p}} = Payloads(p) /\ NamesOf({p}) = Names(p)
      BY DEF NamesOf
    <3>3. \A c \in Payloads(p) : c.content = p.content
      BY DEF Payloads
    <3>4. /\ \A c \in UNION {Payloads(q) : q \in {p}} : c.id \in Id /\ c.content \in Contents
          /\ {c.id : c \in UNION {Payloads(q) : q \in {p}}} = NamesOf({p})
      BY <3>1, PayloadsEffect
    <3> QED
      BY <3>2, <3>3, <3>4
  <2>3. /\ SameButOut(t, j)
        /\ \A x \in j.out : /\ x.type \in {"command", "refused"}
                            /\ x.type = "command" => OneOf(x, Payloads(p))
        /\ Queued(j) = {} /\ Settled(j) = {c.id : c \in Payloads(p)}
    <3>1. \A c \in Payloads(p) : c.id \in Id /\ c.content \in Contents
      BY <2>2
    <3>2. SentOn(t, j, Payloads(p), TRUE)
      BY <1>5, <3>1, OnwardEffect
    <3> QED
      BY <3>2 DEF SentOn
  <2> HIDE DEF j
  <2>4. Sound(k)
    <3>1. k \in Steps /\ k.m = m /\ k.l = s.l /\ k.r = s.r
      BY <1>5, <2>1, <2>3 DEF SameButOut
    <3>2. Charted(k.m, k.l)
      BY <1>1, <1>4, <3>1 DEF Charted
    <3> QED
      BY <1>6, <1>7, <3>1, <3>2 DEF Sound
  <2>5. Told(k)
    BY <1>5, <1>6, <1>7, <2>1, <2>2, <2>3 DEF Told, SameButOut
  <2>6. Stopless(k)
    BY <1>5, <2>1, <2>3 DEF Stopless, SameButOut
  <2>7. Lawful(k)
    <3> SUFFICES ASSUME NEW x \in k.out, x.type = "command", x.kind # "stop",
                        NEW scope \in ScopesIn(k, x.device)
                 PROVE  k.m.holds[scope] = "off"
      BY DEF Lawful
    <3>1. x.device = d /\ d \in Device /\ ~Rules(s.l)!HoldCovers(s.m, d)
      BY <1>1, <1>9, <2>1, <2>2, <2>3 DEF OneOf, Waiting, Contents, RelayControlAssumption
    <3>2. scope \in ScopesIn(s, d)
      BY <1>5, <2>1, <2>3, <3>1 DEF SameButOut, ScopesIn
    <3>3. s.m.holds[scope] = "off"
      BY <1>1, <3>1, <3>2, NotCovered DEF Begun, Synced
    <3> QED
      BY <1>4, <1>5, <2>1, <2>3, <3>3 DEF SameButOut
  <2> QED
    BY <2>4, <2>5, <2>6, <2>7 DEF Done
<1> QED
  BY <1>8, <1>9

-----------------------------------------------------------------------------
(* Emergency stops                                                          *)

(* A boot that the relay may know of a device of the gateway.               *)
Known(boot, f, d) == \/ boot = f.told[d]
                     \/ d \in f.strays /\ f.told[d] = 0 /\ boot = f.boot[d]

(* Which boots the relay knows: of the devices announced, and while a       *)
(* gateway is there of all that this session told; of a device that is not  *)
(* announced none, or the one it had when a rebirth left it out; and the    *)
(* first for each device of the world.                                      *)
Booted(r, f) ==
    /\ r.devices \subseteq Device \ SimDevice
    /\ r.admitted => r.devices = DOMAIN r.birth
    /\ \A d \in Device : f.told[d] = 0 \/ f.told[d] = f.boot[d]
    /\ \A d \in Device \ SimDevice : r.admitted \/ d \in r.devices => Known(r.boots[d], f, d)
    /\ \A d \in Device \ (r.devices \cup SimDevice) :
          r.boots[d] = 0 \/ (d \in f.strays /\ r.boots[d] = f.boot[d])
    /\ \A d \in SimDevice : r.boots[d] \in {0, 1}

StopsOf(s) == {x \in s.out : x.type = "stop"}

(* A stop as StopsGoWhereTheySay has it, with the gateway there or not.     *)
Aimed(x, there) ==
    \/ x.to = (IF x.device \in SimDevice THEN "world" ELSE "gateway")
    \/ x.to = "nobody" /\ x.device \notin SimDevice /\ ~there

(* The stops of a step, as StopsGoWhereTheySay has them of a state.         *)
StopsRight(s) ==
    /\ s.stopped = {x.device : x \in StopsOf(s)}
    /\ \A x \in StopsOf(s) :
          x.epoch = authority /\ IsKnownBoot(x.boot, x.device) /\ Aimed(x, s.attached)

LEMMA StoplessIsRight ==
    ASSUME NEW s, Stopless(s)
    PROVE  StopsRight(s)
BY DEF Stopless, StopsRight, StopsOf

LEMMA DegradesStops ==
    ASSUME NEW s \in Steps, NEW k \in Steps, Degrades(s, k), StopsRight(s)
    PROVE  StopsRight(k)
<1>1. \A y \in s.out : /\ Nobody(y).to = "nobody" /\ Nobody(y).type = y.type
                       /\ Nobody(y).device = y.device /\ Nobody(y).boot = y.boot
                       /\ Nobody(y).epoch = y.epoch
  BY DEF Steps, Written, Nobody
<1>2. k.stopped = s.stopped /\ (k.attached => s.attached)
  BY DEF Degrades
<1>3. ASSUME NEW x \in StopsOf(k)
      PROVE  /\ x.epoch = authority /\ IsKnownBoot(x.boot, x.device) /\ Aimed(x, k.attached)
             /\ x.device \in s.stopped
  <2>1. CASE x \in s.out
    <3>1. x \in StopsOf(s)
      BY <2>1 DEF StopsOf
    <3> QED
      BY <1>2, <3>1 DEF StopsRight, Aimed
  <2>2. CASE x \notin s.out
    <3>1. PICK y \in s.out : x = Nobody(y) /\ Cut(y, k.attached)
      BY <2>2 DEF Degrades, StopsOf
    <3>2. y \in StopsOf(s)
      BY <1>1, <3>1 DEF StopsOf
    <3>3. /\ y.epoch = authority /\ IsKnownBoot(y.boot, y.device) /\ Aimed(y, s.attached)
          /\ y.device \in s.stopped
      BY <3>2 DEF StopsRight
    <3>4. Aimed(x, k.attached)
      BY <1>1, <3>1, <3>3 DEF Aimed, Cut
    <3> QED
      BY <1>1, <3>1, <3>3, <3>4
  <2> QED
    BY <2>1, <2>2
<1>4. ASSUME NEW d \in s.stopped
      PROVE  \E x \in StopsOf(k) : x.device = d
  <2>1. PICK y \in StopsOf(s) : y.device = d
    BY DEF StopsRight
  <2>2. y \in k.out \/ Nobody(y) \in k.out
    BY DEF Degrades, StopsOf
  <2> QED
    BY <1>1, <2>1, <2>2 DEF StopsOf
<1>5. k.stopped = {x.device : x \in StopsOf(k)}
  BY <1>2, <1>3, <1>4
<1> QED
  BY <1>3, <1>5 DEF StopsRight

LEMMA DegradesLawful ==
    ASSUME NEW s \in Steps, NEW k \in Steps, Degrades(s, k), Lawful(s)
    PROVE  Lawful(k)
<1>1. \A y \in s.out : /\ Nobody(y).type = y.type /\ Nobody(y).kind = y.kind
                       /\ Nobody(y).device = y.device
  BY DEF Steps, Written, Nobody
<1>2. \A x \in k.out : \E y \in s.out : x.type = y.type /\ x.kind = y.kind /\ x.device = y.device
  BY <1>1 DEF Degrades
<1>3. \A d : ScopesIn(k, d) = ScopesIn(s, d)
  BY DEF Degrades, ScopesIn, Current, BoardNow
<1>4. k.m.holds = s.m.holds
  BY DEF Degrades
<1> QED
  BY <1>2, <1>3, <1>4 DEF Lawful

Ordered(s, k, devices) ==
    /\ k \in Steps /\ k.r = s.r /\ k.m = s.m /\ k.l = s.l
    /\ k.attached = s.attached /\ k.stopped = devices
    /\ \A x \in k.out : \/ x \in s.out
                        \/ /\ x.type = "stop" /\ x.settles = FALSE /\ x.device \in devices
                           /\ x.to = Origin(s.r, x.device) /\ x.boot = StopBoot(s.r, x.device)
                           /\ x.epoch = HostEpoch(s.r)
    /\ s.out \subseteq k.out
    /\ \A d \in devices : \E x \in k.out : x.type = "stop" /\ x.device = d /\ x.to = Origin(s.r, d)

LEMMA IssueStopsEffect ==
    ASSUME RelayControlAssumption, NEW s \in Steps, NEW devices \in SUBSET Device,
           \A d \in devices : Origin(s.r, d) # "unknown"
    PROVE  Ordered(s, IssueStops(s, devices), devices)
<1> DEFINE Order(d) == StopRecord(Origin(s.r, d), d, StopBoot(s.r, d), HostEpoch(s.r))
           orders == {Order(d) : d \in devices}
           out1 == s.out \cup orders
           down == s.down \/ \E d \in devices : Origin(s.r, d) = "gateway"
           k == IssueStops(s, devices)
<1>1. s.r \in Relays /\ HostEpoch(s.r) \in Nat
  BY DEF Steps, Relays, HostEpoch
<1>2. \A d \in devices : Origin(s.r, d) \in {"gateway", "world"} /\ StopBoot(s.r, d) \in Nat
  BY <1>1 DEF Origin, StopBoot, Relays
<1>3. \A d \in devices : /\ Order(d) \in Written /\ Order(d).type = "stop" /\ Order(d).settles = FALSE
                         /\ Order(d).device = d /\ Order(d).to = Origin(s.r, d)
                         /\ Order(d).boot = StopBoot(s.r, d) /\ Order(d).epoch = HostEpoch(s.r)
  BY <1>1, <1>2 DEF StopRecord, Written
<1>4. k = [s EXCEPT !.out = out1, !.stopped = devices, !.down = down]
  BY DEF IssueStops, Steps
<1> HIDE DEF Order
<1>5. orders \in SUBSET Written /\ down \in BOOLEAN
  BY <1>3
<1>6. /\ \A x \in orders : /\ x.type = "stop" /\ x.settles = FALSE /\ x.device \in devices
                            /\ x.to = Origin(s.r, x.device) /\ x.boot = StopBoot(s.r, x.device)
                            /\ x.epoch = HostEpoch(s.r)
      /\ \A d \in devices : \E x \in orders : /\ x.type = "stop" /\ x.device = d
                                             /\ x.to = Origin(s.r, d)
  BY <1>3
<1> HIDE DEF orders
<1>7. out1 \in SUBSET Written
  BY <1>5 DEF Steps
<1>8. out1 = s.out \cup orders
  OBVIOUS
<1> HIDE DEF out1, down
<1>9. /\ k \in Steps /\ k.r = s.r /\ k.m = s.m /\ k.l = s.l
      /\ k.attached = s.attached /\ k.stopped = devices /\ k.out = out1
  BY <1>4, <1>5, <1>7 DEF Steps
<1> HIDE DEF k
<1> QED
  BY <1>6, <1>8, <1>9 DEF k, Ordered

(* What is kept by every step, whatever a gateway announces.                *)
Ready(s) == Sound(s) /\ Told(s) /\ Lawful(s)

LEMMA EStopIsReady ==
    ASSUME RelayControlAssumption, NEW s, Begun(s), NEW scope \in Scopes
    PROVE  /\ Ready(EStop(s, scope)) /\ EStop(s, scope).r = s.r
           /\ Booted(s.r, field) /\ authority = HostEpoch(s.r) => StopsRight(EStop(s, scope))
<1> DEFINE h == Hold(s, scope, TRUE)
           devices == {d \in Rules(s.l)!StopOrders(s.m, scope) : d \in Current(s.r) /\ ~Unreachable(s.r, d)}
           k == EStop(s, scope)
<1>1. k = IssueStops(h, devices)
  BY DEF EStop
<1>2. Done(h) /\ h.r = s.r
  BY HoldIsDone
<1> HIDE DEF h
<1>3. s.m \in Machines /\ h \in Steps
  BY <1>2, BegunOwes DEF Done, Sound
<1>4. /\ devices \in SUBSET Device
      /\ \A d \in devices : Origin(s.r, d) # "unknown" /\ StopBoot(s.r, d) # 0
  BY <1>3 DEF Rules!StopOrders, Machines, Unreachable, StopBoot
<1> HIDE DEF devices
<1>5. Ordered(h, k, devices)
  <2>1. \A d \in devices : Origin(h.r, d) # "unknown"
    BY <1>2, <1>4
  <2>2. Ordered(h, IssueStops(h, devices), devices)
    BY <1>3, <1>4, <2>1, IssueStopsEffect
  <2> QED
    BY <1>1, <2>2
<1> HIDE DEF k
<1>6. Queued(k) = Queued(h) /\ Settled(k) = Settled(h)
  BY <1>5 DEF Queued, Settled, Ordered
<1>7. Sound(k) /\ Told(k)
  BY <1>2, <1>5, <1>6 DEF Done, Sound, Told, Ordered
<1>8. Lawful(k)
  <2>1. \A d : ScopesIn(k, d) = ScopesIn(h, d)
    BY <1>5 DEF ScopesIn, Ordered
  <2> QED
    BY <1>2, <1>5, <2>1 DEF Done, Lawful, Ordered
<1>9. ASSUME Booted(s.r, field), authority = HostEpoch(s.r)
      PROVE  StopsRight(k)
  <2>1. \A x \in StopsOf(k) : /\ x.device \in devices /\ x.to = Origin(s.r, x.device)
                              /\ x.boot = StopBoot(s.r, x.device) /\ x.epoch = HostEpoch(s.r)
    BY <1>2, <1>5 DEF StopsOf, Done, Stopless, Ordered
  <2>2. \A d \in devices : /\ d \in SimDevice => Origin(s.r, d) = "world" /\ StopBoot(s.r, d) = 1
                           /\ d \notin SimDevice => /\ Origin(s.r, d) = "gateway"
                                                   /\ Known(StopBoot(s.r, d), field, d)
    BY <1>4, <1>9 DEF Booted, Origin, StopBoot
  <2>3. \A d \in devices : \E x \in StopsOf(k) : x.device = d
    BY <1>5 DEF StopsOf, Ordered
  <2>4. k.stopped = {x.device : x \in StopsOf(k)}
    BY <1>5, <2>1, <2>3 DEF Ordered
  <2>5. \A x \in StopsOf(k) :
          x.epoch = authority /\ IsKnownBoot(x.boot, x.device) /\ Aimed(x, k.attached)
    BY <1>9, <2>1, <2>2 DEF Aimed, IsKnownBoot, Known
  <2> QED
    BY <2>4, <2>5 DEF StopsRight
<1> QED
  BY <1>2, <1>5, <1>7, <1>8, <1>9 DEF Ready, Ordered, k

(* A control that loosens, or asks for approvals, changes no more than that. *)
LEMMA ControlledIsDone ==
    ASSUME NEW s, Begun(s), NEW m \in Machines, m.pending = s.m.pending, m.inventory = s.m.inventory
    PROVE  Done([s EXCEPT !.m = m]) /\ [s EXCEPT !.m = m].r = s.r
<1> DEFINE k == [s EXCEPT !.m = m]
<1>1. /\ s \in Steps /\ s.out = {} /\ s.stopped = {}
      /\ Apart(s.m.pending) /\ Charted(s.m, s.l)
      /\ s.r.host # "shaken" => s.m.pending = {}
      /\ s.r.host = "shaken" => NamesOf(s.m.pending) = owed
  BY BegunOwes
<1>2. /\ k \in Steps /\ k.m = m /\ k.r = s.r /\ k.l = s.l /\ k.out = {} /\ k.stopped = {}
  BY <1>1 DEF Steps
<1> HIDE DEF k
<1>3. Sound(k)
  BY <1>1, <1>2 DEF Sound, Charted
<1>4. Told(k) /\ Lawful(k) /\ Stopless(k)
  BY <1>1, <1>2 DEF Told, Lawful, Stopless, Queued, Settled
<1> QED
  BY <1>2, <1>3, <1>4 DEF Done, k

LEMMA DoneIsReady ==
    ASSUME NEW s, Done(s)
    PROVE  Ready(s) /\ StopsRight(s)
BY StoplessIsRight DEF Done, Ready

LEMMA BegunIsDone ==
    ASSUME NEW s, Begun(s)
    PROVE  Done(s)
BY DEF Begun, Done, Lawful, Stopless

LEMMA ScopedIsReady ==
    ASSUME RelayControlAssumption, NEW s, Begun(s), NEW scope \in Scopes,
           NEW op \in {"hold", "estop", "release", "approve_mode", "approve_off"}
    PROVE  /\ Ready(Scoped(s, op, scope)) /\ Scoped(s, op, scope).r = s.r
           /\ Booted(s.r, field) /\ authority = HostEpoch(s.r) => StopsRight(Scoped(s, op, scope))
<1>1. s.m \in Machines /\ s \in Steps
  BY BegunOwes
<1> DEFINE rejected == op \in {"hold", "estop", "approve_mode"} /\ ~Rules(s.l)!Accepts(s.m, op, scope)
<1>2. Scoped(s, op, scope) =
        IF rejected THEN s
        ELSE CASE op = "hold" -> Hold(s, scope, FALSE)
               [] op = "estop" -> EStop(s, scope)
               [] op = "release" -> [s EXCEPT !.m = Rules(s.l)!ClearHold(s.m, scope)]
               [] OTHER -> [s EXCEPT !.m = Rules(s.l)!SetApprove(s.m, scope, op = "approve_mode")]
  BY <1>1 DEF Scoped, Steps
<1> HIDE DEF rejected
<1>3. CASE rejected
  BY <1>2, <1>3, BegunIsDone, DoneIsReady
<1>4. CASE ~rejected /\ op = "hold"
  <2>1. Done(Hold(s, scope, FALSE)) /\ Hold(s, scope, FALSE).r = s.r
    BY HoldIsDone
  <2>2. Scoped(s, op, scope) = Hold(s, scope, FALSE)
    BY <1>2, <1>4
  <2> QED
    BY <2>1, <2>2, DoneIsReady
<1>5. CASE ~rejected /\ op = "estop"
  BY <1>2, <1>5, EStopIsReady
<1>6. CASE ~rejected /\ op = "release"
  <2> DEFINE m == Rules(s.l)!ClearHold(s.m, scope)
             holds == [s.m.holds EXCEPT ![scope] = "off"]
  <2>1. m = [s.m EXCEPT !.holds = holds] /\ holds \in [Scopes -> {"off", "held", "latched"}]
    BY <1>1 DEF Rules!ClearHold, Machines
  <2> HIDE DEF m, holds
  <2>2. m \in Machines /\ m.pending = s.m.pending /\ m.inventory = s.m.inventory
    BY <1>1, <2>1 DEF Machines
  <2>3. Scoped(s, op, scope) = [s EXCEPT !.m = m]
    BY <1>2, <1>6 DEF m
  <2> QED
    BY <2>2, <2>3, ControlledIsDone, DoneIsReady
<1>7. CASE ~rejected /\ op \in {"approve_mode", "approve_off"}
  <2> DEFINE m == Rules(s.l)!SetApprove(s.m, scope, op = "approve_mode")
             approves == IF op = "approve_mode" THEN s.m.approves \cup {scope} ELSE s.m.approves \ {scope}
  <2>1. m = [s.m EXCEPT !.approves = approves] /\ approves \in SUBSET Scopes
    BY <1>1 DEF Rules!SetApprove, Machines
  <2> HIDE DEF m, approves
  <2>2. m \in Machines /\ m.pending = s.m.pending /\ m.inventory = s.m.inventory
    BY <1>1, <2>1 DEF Machines
  <2>3. Scoped(s, op, scope) = [s EXCEPT !.m = m]
    BY <1>2, <1>7 DEF m
  <2> QED
    BY <2>2, <2>3, ControlledIsDone, DoneIsReady
<1> QED
  BY <1>3, <1>4, <1>5, <1>6, <1>7

-----------------------------------------------------------------------------
(* What every step leads to                                                 *)

LEMMA LeadsLawful ==
    ASSUME NEW s \in Steps, NEW k \in Steps, Leads(s, k), Lawful(s)
    PROVE  Lawful(k)
<1>1. CASE Degrades(s, k)
  BY <1>1, DegradesLawful
<1>2. CASE Dialled(s, k)
  <2>1. PICK j \in Steps : Degrades(s, j) /\ Degrades(Attached(j), k)
    BY <1>2 DEF Dialled
  <2>2. Lawful(j)
    BY <2>1, DegradesLawful
  <2>3. Lawful(Attached(j)) /\ Attached(j) \in Steps
    <3>1. \A d : ScopesIn(Attached(j), d) = ScopesIn(j, d)
      BY AttachedType DEF ScopesIn, Current, BoardNow
    <3>2. /\ Attached(j) \in Steps /\ Attached(j).out = j.out /\ Attached(j).m = j.m
      BY AttachedType
    <3> QED
      BY <2>2, <3>1, <3>2 DEF Lawful
  <2> QED
    BY <2>1, <2>3, DegradesLawful
<1> QED
  BY <1>1, <1>2 DEF Leads

LEMMA LeadsStops ==
    ASSUME NEW s \in Steps, NEW k \in Steps, Leads(s, k), StopsRight(s)
    PROVE  StopsRight(k)
<1>1. CASE Degrades(s, k)
  BY <1>1, DegradesStops
<1>2. CASE Dialled(s, k)
  <2>1. PICK j \in Steps : Degrades(s, j) /\ Degrades(Attached(j), k)
    BY <1>2 DEF Dialled
  <2>2. StopsRight(j)
    BY <2>1, DegradesStops
  <2>3. StopsRight(Attached(j)) /\ Attached(j) \in Steps
    BY <2>2, AttachedType DEF StopsRight, StopsOf
  <2> QED
    BY <2>1, <2>3, DegradesStops
<1> QED
  BY <1>1, <1>2 DEF Leads

LEMMA LeadsStopless ==
    ASSUME NEW s \in Steps, NEW k \in Steps, Leads(s, k), Stopless(s)
    PROVE  Stopless(k)
<1>1. ASSUME NEW a \in Steps, NEW b \in Steps, Degrades(a, b), Stopless(a)
      PROVE  Stopless(b)
  <2>1. \A y \in a.out : Nobody(y).type = y.type
    BY DEF Steps, Written, Nobody
  <2> QED
    BY <1>1, <2>1 DEF Degrades, Stopless
<1>2. CASE Degrades(s, k)
  BY <1>1, <1>2
<1>3. CASE Dialled(s, k)
  <2>1. PICK j \in Steps : Degrades(s, j) /\ Degrades(Attached(j), k)
    BY <1>3 DEF Dialled
  <2>2. Stopless(j)
    BY <1>1, <2>1
  <2>3. Stopless(Attached(j)) /\ Attached(j) \in Steps
    BY <2>2, AttachedType DEF Stopless
  <2> QED
    BY <1>1, <2>1, <2>3
<1> QED
  BY <1>2, <1>3 DEF Leads

LEMMA DegradesBooted ==
    ASSUME NEW s \in Steps, NEW k \in Steps, Degrades(s, k), NEW f, Booted(s.r, f)
    PROVE  Booted(k.r, f)
<1>1. CASE k.r.devices = s.r.devices /\ k.r.boots = s.r.boots
  BY <1>1 DEF Degrades, Booted
<1>2. CASE /\ k.r.devices = {}
           /\ k.r.boots = [d \in Device |-> IF d \in s.r.devices THEN 0 ELSE s.r.boots[d]]
  <2>1. k.r.admitted => k.r.devices = DOMAIN k.r.birth
    BY DEF Degrades, Booted
  <2>2. \A d \in Device : k.r.boots[d] = IF d \in s.r.devices THEN 0 ELSE s.r.boots[d]
    BY <1>2
  <2>3. \A d \in Device \ (k.r.devices \cup SimDevice) :
          k.r.boots[d] = 0 \/ (d \in f.strays /\ k.r.boots[d] = f.boot[d])
    BY <1>2, <2>2 DEF Booted
  <2>4. \A d \in SimDevice : d \in Device => k.r.boots[d] \in {0, 1}
    BY <2>2 DEF Booted
  <2>5. SimDevice \subseteq Device
    BY RelayControlAssumption DEF RelayControlAssumption
  <2>6. \A d \in Device \ SimDevice : k.r.admitted \/ d \in k.r.devices => Known(k.r.boots[d], f, d)
    <3>1. k.r.admitted => s.r.admitted /\ s.r.devices = {}
      BY <1>2 DEF Degrades
    <3> QED
      BY <1>2, <2>2, <3>1 DEF Booted
  <2> QED
    BY <1>2, <2>1, <2>3, <2>4, <2>5, <2>6 DEF Booted
<1> QED
  BY <1>1, <1>2 DEF Degrades

LEMMA LeadsBooted ==
    ASSUME NEW s \in Steps, NEW k \in Steps, Leads(s, k), NEW f, Booted(s.r, f)
    PROVE  Booted(k.r, f)
<1>1. CASE Degrades(s, k)
  BY <1>1, DegradesBooted
<1>2. CASE Dialled(s, k)
  <2>1. PICK j \in Steps : Degrades(s, j) /\ Degrades(Attached(j), k)
    BY <1>2 DEF Dialled
  <2>2. Booted(j.r, f)
    BY <2>1, DegradesBooted
  <2>3. Booted(Attached(j).r, f) /\ Attached(j) \in Steps
    <3>1. /\ Attached(j) \in Steps /\ Attached(j).r.devices = j.r.devices
          /\ Attached(j).r.boots = j.r.boots /\ Attached(j).r.admitted = j.r.admitted
          /\ Attached(j).r.birth = j.r.birth
      BY AttachedType
    <3> QED
      BY <2>2, <3>1 DEF Booted
  <2> QED
    BY <2>1, <2>3, DegradesBooted
<1> QED
  BY <1>1, <1>2 DEF Leads

LEMMA LeadsEpoch ==
    ASSUME NEW s \in Steps, NEW k \in Steps, Leads(s, k)
    PROVE  HostEpoch(k.r) = HostEpoch(s.r)
<1>1. CASE Degrades(s, k)
  BY <1>1 DEF Degrades
<1>2. CASE Dialled(s, k)
  BY <1>2, AttachedType DEF Dialled, Degrades
<1> QED
  BY <1>1, <1>2 DEF Leads

-----------------------------------------------------------------------------
(* The actions                                                              *)

Sane == TypeInv /\ OwedInv /\ authority = HostEpoch(relay)

BootInv == Booted(relay, field)

(* A step: what its handler decides, s, and what the writes make of it.     *)
Outcome(s) ==
    /\ Ready(s)
    /\ authority' = HostEpoch(s.r) /\ authority' \in Nat
    /\ field' \in Fields
    /\ BootInv =>
         /\ Booted(s.r, field')
         /\ Stopless(s) \/ (StopsRight(s) /\ field' = field /\ authority' = authority)

Moves == \E s \in Steps, k \in Steps : Outcome(s) /\ Leads(s, k) /\ Continue(k)

LEMMA DoMoves ==
    ASSUME NEW s, Outcome(s), Do(s)
    PROVE  Moves
<1>1. s \in Steps
  BY DEF Outcome, Ready, Sound
<1> QED
  BY <1>1, DoLeads DEF Moves, Leads

LEMMA RedialMoves ==
    ASSUME NEW s, Outcome(s), Redial(s)
    PROVE  Moves
<1>1. s \in Steps
  BY DEF Outcome, Ready, Sound
<1> QED
  BY <1>1, RedialLeads DEF Moves

LEMMA SyncedIsBegun ==
    ASSUME Sane
    PROVE  Begun(Sync(Loop)) /\ Sync(Loop).r = relay /\ Sync(Loop).m.pending = gate.pending
BY LoopIsSound, SyncEffect, RelayControlAssumption DEF Sane

(* Steps that begin with the inventory and leave who is there to the writes. *)
LEMMA QuietOutcome ==
    ASSUME Sane, NEW s, Ready(s), s.r = relay,
           BootInv => Stopless(s) \/ StopsRight(s),
           field' = field, authority' = authority
    PROVE  Outcome(s)
BY DEF Sane, TypeInv, Outcome, BootInv

LEMMA RefuseKeeps ==
    ASSUME NEW s \in Steps, NEW gone
    PROVE  Refuse(s, gone).r = s.r
BY DEF Refuse, Answer, Steps

LEMMA OnwardKeeps ==
    ASSUME NEW s \in Steps, NEW d, NEW cs, NEW settles
    PROVE  Onward(s, d, cs, settles).r = s.r
BY DEF Onward, Carry, Answer, Steps

LEMMA JudgedKeeps ==
    ASSUME NEW s \in Steps, NEW c, NEW now
    PROVE  Judged(s, c, now).r = s.r
<1> DEFINE verdict == Rules(s.l)!Verdict(s.m, c, now)
<1>1. /\ Answer([s EXCEPT !.m = Rules(s.l)!Enqueue(s.m, c)], "queued", {c}, FALSE).r = s.r
      /\ Answer([s EXCEPT !.m = Rules(s.l)!Join(s.m, c)], "queued", {c}, FALSE).r = s.r
      /\ Answer(s, "queued", {c}, FALSE).r = s.r /\ Answer(s, "refused", {c}, FALSE).r = s.r
  BY DEF Answer, Steps
<1>2. Onward(s, c.content.device, {c}, FALSE).r = s.r
  BY OnwardKeeps
<1>3. Judged(s, c, now) =
        CASE verdict = "pass" -> Onward(s, c.content.device, {c}, FALSE)
          [] verdict = "queue" -> Answer([s EXCEPT !.m = Rules(s.l)!Enqueue(s.m, c)], "queued", {c}, FALSE)
          [] verdict = "join" -> Answer([s EXCEPT !.m = Rules(s.l)!Join(s.m, c)], "queued", {c}, FALSE)
          [] verdict = "retry" -> Answer(s, "queued", {c}, FALSE)
          [] OTHER -> Answer(s, "refused", {c}, FALSE)
  BY DEF Judged, Steps
<1> HIDE DEF verdict
<1> QED
  BY <1>1, <1>2, <1>3

LEMMA TickMoves ==
    ASSUME Sane, Tick
    PROVE  Moves
<1> USE RelayControlAssumption
<1> DEFINE b == Sync(Loop)
<1>1. Begun(b) /\ b.r = relay /\ b.m.pending = gate.pending
  BY SyncedIsBegun
<1>2. PICK overdue \in SUBSET gate.pending : Redial(Refuse(b, overdue))
  BY DEF Tick
<1> HIDE DEF b
<1>3. Done(Refuse(b, overdue)) /\ Refuse(b, overdue).r = relay
  BY <1>1, OverdueIsDone, RefuseKeeps, BegunOwes
<1>4. Ready(Refuse(b, overdue)) /\ StopsRight(Refuse(b, overdue))
  BY <1>3, DoneIsReady
<1>5. Outcome(Refuse(b, overdue))
  BY <1>3, <1>4, QuietOutcome DEF Tick
<1> QED
  BY <1>2, <1>5, RedialMoves

LEMMA ServeMoves ==
    ASSUME Sane, Serve
    PROVE  Moves
<1> USE RelayControlAssumption
<1> DEFINE b == Sync(Loop)
<1>1. Begun(b) /\ b.r = relay /\ b.m.pending = gate.pending
  BY SyncedIsBegun
<1>2. \/ \E op \in {"hold", "estop", "release", "approve_mode", "approve_off"}, scope \in ControlScope :
             Do(Scoped(b, op, scope))
      \/ \E p \in gate.pending, approve \in BOOLEAN : Do(Decided(b, p, approve))
  BY DEF Serve
<1>3. UNCHANGED <<field, authority>>
  BY DEF Serve
<1> HIDE DEF b
<1>4. ASSUME NEW op \in {"hold", "estop", "release", "approve_mode", "approve_off"},
             NEW scope \in ControlScope, Do(Scoped(b, op, scope))
      PROVE  Moves
  <2>1. scope \in Scopes
    BY DEF RelayControlAssumption, Scopes
  <2>2. /\ Ready(Scoped(b, op, scope)) /\ Scoped(b, op, scope).r = relay
        /\ BootInv => StopsRight(Scoped(b, op, scope))
    BY <1>1, <2>1, ScopedIsReady DEF Sane, BootInv
  <2>3. Outcome(Scoped(b, op, scope))
    BY <1>3, <2>2, QuietOutcome
  <2> QED
    BY <1>4, <2>3, DoMoves
<1>5. ASSUME NEW p \in gate.pending, NEW approve \in BOOLEAN, Do(Decided(b, p, approve))
      PROVE  Moves
  <2>1. Done(Decided(b, p, approve))
    BY <1>1, DecidedIsDone
  <2>2. Decided(b, p, approve).r = relay
    <3> DEFINE t == [b EXCEPT !.m = Rules(b.l)!Drop(b.m, {p})]
    <3>1. b \in Steps
      BY <1>1, BegunOwes
    <3>2. t \in Steps /\ t.r = relay
      BY <1>1, <3>1, DropType DEF Steps
    <3>3. \/ Decided(b, p, approve) = Refuse(b, {p})
          \/ Decided(b, p, approve) = Onward(t, p.content.device, Payloads(p), TRUE)
          \/ Decided(b, p, approve) = t
      BY <3>1 DEF Decided, Steps
    <3> HIDE DEF t
    <3>4. Refuse(b, {p}).r = relay
      BY <1>1, <3>1, RefuseKeeps
    <3>5. Onward(t, p.content.device, Payloads(p), TRUE).r = relay
      BY <3>2, OnwardKeeps
    <3> QED
      BY <3>2, <3>3, <3>4, <3>5
  <2>3. Ready(Decided(b, p, approve)) /\ StopsRight(Decided(b, p, approve))
    BY <2>1, DoneIsReady
  <2>4. Outcome(Decided(b, p, approve))
    BY <1>3, <2>2, <2>3, QuietOutcome
  <2> QED
    BY <1>5, <2>4, DoMoves
<1> QED
  BY <1>2, <1>4, <1>5

LEMMA HostSendsMoves ==
    ASSUME Sane, NEW c \in HostCommands, HostSends(c)
    PROVE  Moves
<1> USE RelayControlAssumption
<1> DEFINE b == Sync(Loop)
<1>1. Begun(b) /\ b.r = relay /\ b.m.pending = gate.pending
  BY SyncedIsBegun
<1>2. PICK now : Do(Judged(b, c, now))
  BY DEF HostSends, Judge
<1>3. UNCHANGED <<field, authority>> /\ relay.host = "shaken"
  BY DEF HostSends
<1> HIDE DEF b
<1>4. Done(Judged(b, c, now))
  BY <1>1, <1>3, JudgedIsDone
<1>5. Judged(b, c, now).r = relay
  BY <1>1, BegunOwes, JudgedKeeps
<1>6. Ready(Judged(b, c, now)) /\ StopsRight(Judged(b, c, now))
  BY <1>4, DoneIsReady
<1>7. Outcome(Judged(b, c, now))
  BY <1>3, <1>5, <1>6, QuietOutcome
<1> QED
  BY <1>2, <1>7, DoMoves

-----------------------------------------------------------------------------
(* Steps that read a record, or find an end gone.                           *)

(* Such a step writes no more than what it carries; a host may answer.      *)
LEMMA FreshReady ==
    ASSUME Sane, NEW r \in Relays, NEW down \in BOOLEAN, NEW up \in BOOLEAN,
           r.host = relay.host \/ r.host = "shaken"
    PROVE  LET s == [Loop EXCEPT !.r = r, !.down = down, !.up = up]
           IN  Ready(s) /\ Stopless(s) /\ s.r = r
<1> DEFINE s == [Loop EXCEPT !.r = r, !.down = down, !.up = up]
<1>1. /\ Loop \in Steps /\ Loop.m = gate /\ Loop.l = listed /\ Loop.out = {} /\ Loop.stopped = {}
  BY LoopIsSound DEF Sane, Sound
<1>2. /\ s \in Steps /\ s.r = r /\ s.m = gate /\ s.l = listed /\ s.out = {} /\ s.stopped = {}
  BY <1>1 DEF Steps
<1> HIDE DEF s
<1>3. Sound(s)
  BY <1>2 DEF Sane, OwedInv, Sound
<1>4. Told(s)
  BY <1>2 DEF Sane, OwedInv, Told, Queued, Settled
<1> QED
  BY <1>2, <1>3, <1>4 DEF Ready, Lawful, Stopless, s

LEMMA LoopIsReady ==
    ASSUME Sane
    PROVE  Ready(Loop) /\ Stopless(Loop) /\ Loop.r = relay /\ Loop \in Steps
BY LoopIsSound DEF Sane, Ready, Sound, Lawful, Stopless

(* What a step that loses an end comes to, it may have come to by a write.  *)
LEMMA LossMoves ==
    ASSUME Sane, NEW s \in Steps, NEW j \in Steps, Outcome(s), Degrades(s, j), Do(j)
    PROVE  Moves
<1>1. PICK k \in Steps : Degrades(j, k) /\ Continue(k)
  BY DoLeads
<1>2. Degrades(s, k)
  BY <1>1, DegradesTrans
<1> QED
  BY <1>1, <1>2 DEF Moves, Leads

LEMMA GatewayDiesMoves ==
    ASSUME Sane, GatewayDies
    PROVE  Moves
<1>1. Outcome(Loop)
  BY LoopIsReady, QuietOutcome DEF GatewayDies
<1>2. Loop \in Steps /\ DiedUp(Loop) \in Steps /\ Degrades(Loop, DiedUp(Loop))
  BY LoopIsReady, DiedUpDegrades
<1>3. ClearGateway(DiedUp(Loop)) \in Steps /\ Degrades(Loop, ClearGateway(DiedUp(Loop)))
  BY <1>2, ClearGatewayDegrades, DegradesTrans
<1> QED
  BY <1>1, <1>2, <1>3, LossMoves DEF GatewayDies

LEMMA LinkEndsMoves ==
    ASSUME Sane, LinkEnds
    PROVE  Moves
<1>1. Outcome(Loop) /\ Loop \in Steps
  BY LoopIsReady, QuietOutcome DEF LinkEnds
<1>2. /\ LoseGateway(Loop) \in Steps /\ Degrades(Loop, LoseGateway(Loop))
      /\ LoseHost(Loop) \in Steps /\ Degrades(Loop, LoseHost(Loop))
  BY <1>1, LoseGatewayDegrades, LoseHostDegrades
<1> QED
  BY <1>1, <1>2, LossMoves DEF LinkEnds

LEMMA BootedAfter ==
    ASSUME Sane, NEW s, Ready(s), Stopless(s), authority' = HostEpoch(s.r), authority' \in Nat,
           field' \in Fields,
           BootInv => Booted(s.r, field')
    PROVE  Outcome(s)
BY DEF Outcome

LEMMA GatewayBirthsMoves ==
    ASSUME Sane, GatewayBirths
    PROVE  Moves
<1> USE RelayControlAssumption
<1>1. PICK a \in Announcements :
        LET taken == [Forget(relay, relay.devices) EXCEPT
                        !.birth = a, !.devices = DOMAIN a, !.admitted = TRUE]
            there == relay.host = "shaken"
        IN Redial([Loop EXCEPT !.r = taken, !.down = there, !.up = there])
  BY DEF GatewayBirths
<1> DEFINE boots == [d \in Device |-> IF d \in relay.devices THEN 0 ELSE relay.boots[d]]
           r == [relay EXCEPT !.boots = boots, !.birth = a, !.devices = DOMAIN a, !.admitted = TRUE]
           there == relay.host = "shaken"
           s == [Loop EXCEPT !.r = r, !.down = there, !.up = there]
<1>2. relay \in Relays /\ field \in Fields /\ authority \in Nat
  BY DEF Sane, TypeInv
<1>3. [Forget(relay, relay.devices) EXCEPT !.birth = a, !.devices = DOMAIN a, !.admitted = TRUE] = r
  BY <1>2 DEF Forget, Relays
<1>4. boots \in [Device -> Nat] /\ DOMAIN a \in SUBSET Device /\ there \in BOOLEAN
  BY <1>2 DEF Relays, RelayControlAssumption
<1>5. /\ \A d \in relay.devices : d \in Device => boots[d] = 0
      /\ \A d \in Device : d \notin relay.devices => boots[d] = relay.boots[d]
  OBVIOUS
<1>6. Redial(s)
  BY <1>1, <1>3
<1> HIDE DEF boots, there
<1>7. /\ r \in Relays /\ r.host = relay.host /\ r.birth = a /\ r.devices = DOMAIN a
      /\ r.boots = boots /\ HostEpoch(r) = HostEpoch(relay)
  BY <1>2, <1>4 DEF Relays, HostEpoch
<1> HIDE DEF r
<1>8. Ready(s) /\ Stopless(s) /\ s.r = r
  BY <1>4, <1>7, FreshReady
<1> HIDE DEF s
<1>9. field' = [field EXCEPT !.told = NoBoots] /\ authority' = authority
  BY DEF GatewayBirths
<1>10. /\ field'.told = [d \in Device |-> 0] /\ field'.strays = field.strays
       /\ field'.boot = field.boot /\ field' \in Fields
  BY <1>2, <1>9 DEF NoBoots, Fields
<1>11. BootInv => Booted(r, field')
  BY <1>5, <1>7, <1>10 DEF BootInv, Booted, Known, RelayControlAssumption
<1>12. Outcome(s)
  BY <1>2, <1>7, <1>8, <1>9, <1>10, <1>11, BootedAfter DEF Sane
<1> QED
  BY <1>6, <1>12, RedialMoves

LEMMA GatewayRebornMoves ==
    ASSUME Sane, GatewayReborn
    PROVE  Moves
<1> USE RelayControlAssumption
<1>1. PICK a \in Announcements :
        /\ Redial([Loop EXCEPT !.r = [relay EXCEPT !.birth = a, !.devices = DOMAIN a],
                               !.up = relay.host = "shaken"])
        /\ field' = [field EXCEPT !.strays = @ \cup (relay.devices \ DOMAIN a)]
  BY DEF GatewayReborn
<1> DEFINE r == [relay EXCEPT !.birth = a, !.devices = DOMAIN a]
           up == relay.host = "shaken"
           s == [Loop EXCEPT !.r = r, !.down = FALSE, !.up = up]
<1>2. relay \in Relays /\ field \in Fields /\ authority \in Nat
  BY DEF Sane, TypeInv
<1>3. Redial(s)
  BY <1>1, LoopIsSound DEF Sane, Sound, Steps
<1>4. up \in BOOLEAN
  OBVIOUS
<1>5. DOMAIN a \in SUBSET Device
  BY DEF RelayControlAssumption
<1> HIDE DEF up
<1>6. /\ r \in Relays /\ r.host = relay.host /\ r.birth = a /\ r.devices = DOMAIN a
      /\ r.boots = relay.boots /\ r.admitted = relay.admitted /\ HostEpoch(r) = HostEpoch(relay)
  BY <1>2, <1>5 DEF Relays, HostEpoch
<1> HIDE DEF r
<1>7. Ready(s) /\ Stopless(s) /\ s.r = r
  BY <1>4, <1>6, FreshReady
<1> HIDE DEF s
<1>8. /\ authority' = authority /\ relay.admitted /\ field' \in Fields
      /\ field'.told = field.told /\ field'.boot = field.boot
      /\ field'.strays = field.strays \cup (relay.devices \ DOMAIN a)
  BY <1>1, <1>2 DEF GatewayReborn, Fields, Relays
<1>9. ASSUME BootInv
      PROVE  Booted(r, field')
  <2>1. /\ r.devices \subseteq Device \ SimDevice /\ r.admitted
        /\ \A d \in SimDevice : r.boots[d] \in {0, 1}
    BY <1>6, <1>8, <1>9 DEF BootInv, Booted, RelayControlAssumption
  <2>2. \A d \in Device : field'.told[d] = 0 \/ field'.told[d] = field'.boot[d]
    BY <1>8, <1>9 DEF BootInv, Booted
  <2>3. \A d \in Device \ SimDevice : Known(relay.boots[d], field, d)
    BY <1>8, <1>9 DEF BootInv, Booted
  <2>4. \A d \in Device \ SimDevice : Known(r.boots[d], field', d)
    BY <1>6, <1>8, <2>3 DEF Known
  <2>5. ASSUME NEW d \in Device \ (r.devices \cup SimDevice)
        PROVE  r.boots[d] = 0 \/ (d \in field'.strays /\ r.boots[d] = field'.boot[d])
    <3>1. CASE d \in relay.devices
      BY <1>6, <1>8, <2>2, <2>3, <3>1 DEF Known
    <3>2. CASE d \notin relay.devices
      BY <1>6, <1>8, <1>9, <3>2 DEF BootInv, Booted
    <3> QED
      BY <3>1, <3>2
  <2> QED
    BY <1>6, <2>1, <2>2, <2>4, <2>5 DEF Booted
<1>10. Outcome(s)
  BY <1>2, <1>6, <1>7, <1>8, <1>9, BootedAfter DEF Sane
<1> QED
  BY <1>3, <1>10, RedialMoves

(* A record carried up: what it tells changes the relay alone.              *)
LEMMA ReadMoves ==
    ASSUME Sane, NEW r \in Relays, r.host = relay.host, HostEpoch(r) = HostEpoch(relay),
           Read(r), authority' = authority,
           field' \in Fields,
           BootInv => Booted(r, field')
    PROVE  Moves
<1> DEFINE up == relay.host = "shaken"
           s == [Loop EXCEPT !.r = r, !.down = FALSE, !.up = up]
<1>1. Do(s)
  BY LoopIsSound DEF Sane, Sound, Steps, Read
<1>2. up \in BOOLEAN
  OBVIOUS
<1> HIDE DEF up
<1>3. Ready(s) /\ Stopless(s) /\ s.r = r
  BY <1>2, FreshReady
<1> HIDE DEF s
<1>4. Outcome(s)
  BY <1>3, BootedAfter DEF Sane, TypeInv
<1> QED
  BY <1>1, <1>4, DoMoves

LEMMA DeviceBirthsMoves ==
    ASSUME Sane, NEW d \in Device, DeviceBirths(d)
    PROVE  Moves
<1> USE RelayControlAssumption
<1>1. PICK boot \in field.boot[d]..MaxBoot :
        /\ Read([relay EXCEPT !.boots[d] = boot, !.kinds = @ \cup {d}])
        /\ field' = [boot |-> [field.boot EXCEPT ![d] = boot],
                     told |-> [field.told EXCEPT ![d] = boot], strays |-> field.strays \ {d}]
  BY DEF DeviceBirths
<1>2. /\ relay \in Relays /\ field.boot \in [Device -> Nat] /\ field.told \in [Device -> Nat]
      /\ field.strays \subseteq Device
  BY DEF Sane, TypeInv, Fields
<1>3. boot \in Nat /\ d \in relay.devices /\ authority' = authority
  BY <1>2 DEF DeviceBirths, RelayControlAssumption
<1> DEFINE boots == [relay.boots EXCEPT ![d] = boot]
           told == [field.told EXCEPT ![d] = boot]
           kinds == relay.kinds \cup {d}
           r == [relay EXCEPT !.boots = boots, !.kinds = kinds]
<1>4. Read(r)
  BY <1>1, <1>2 DEF Relays
<1>5. /\ boots \in [Device -> Nat] /\ told \in [Device -> Nat] /\ kinds \in SUBSET Device
      /\ boots[d] = boot /\ told[d] = boot
      /\ \A e \in Device : e # d => boots[e] = relay.boots[e] /\ told[e] = field.told[e]
  BY <1>2, <1>3 DEF Relays
<1>6. /\ field'.told = told /\ field'.strays = field.strays \ {d} /\ field' \in Fields
      /\ field'.boot[d] = boot /\ \A e \in Device : e # d => field'.boot[e] = field.boot[e]
  BY <1>1, <1>2, <1>3 DEF Fields
<1> HIDE DEF boots, told, kinds
<1>7. /\ r \in Relays /\ r.host = relay.host /\ r.birth = relay.birth /\ r.devices = relay.devices
      /\ r.boots = boots /\ r.admitted = relay.admitted /\ HostEpoch(r) = HostEpoch(relay)
  BY <1>2, <1>5 DEF Relays, HostEpoch
<1> HIDE DEF r
<1>8. BootInv => Booted(r, field')
  BY <1>3, <1>5, <1>6, <1>7 DEF BootInv, Booted, Known, RelayControlAssumption
<1> QED
  BY <1>3, <1>4, <1>6, <1>7, <1>8, ReadMoves

LEMMA DeviceDiesMoves ==
    ASSUME Sane, NEW d \in Device, DeviceDies(d)
    PROVE  Moves
<1> USE RelayControlAssumption
<1>1. /\ Read([relay EXCEPT !.boots[d] = 0]) /\ field' = [field EXCEPT !.told[d] = 0, !.strays = @ \ {d}]
      /\ d \in relay.devices /\ authority' = authority
  BY DEF DeviceDies
<1>2. /\ relay \in Relays /\ field \in Fields
  BY DEF Sane, TypeInv
<1> DEFINE boots == [relay.boots EXCEPT ![d] = 0]
           told == [field.told EXCEPT ![d] = 0]
           r == [relay EXCEPT !.boots = boots]
<1>4. Read(r)
  BY <1>1, <1>2 DEF Relays
<1>5. /\ boots \in [Device -> Nat] /\ told \in [Device -> Nat]
      /\ boots[d] = 0 /\ told[d] = 0
      /\ \A e \in Device : e # d => boots[e] = relay.boots[e] /\ told[e] = field.told[e]
  BY <1>2 DEF Relays, Fields
<1>6. /\ field'.told = told /\ field'.strays = field.strays \ {d}
      /\ field'.boot = field.boot /\ field' \in Fields
  <2>1. field' = [field EXCEPT !.told = told, !.strays = field.strays \ {d}]
    BY <1>1, <1>2 DEF Fields
  <2> HIDE DEF told
  <2> QED
    BY <1>2, <1>5, <2>1 DEF Fields
<1> HIDE DEF boots, told
<1>7. /\ r \in Relays /\ r.host = relay.host /\ r.birth = relay.birth /\ r.devices = relay.devices
      /\ r.boots = boots /\ r.admitted = relay.admitted /\ HostEpoch(r) = HostEpoch(relay)
  BY <1>2, <1>5 DEF Relays, HostEpoch
<1> HIDE DEF r
<1>8. BootInv => Booted(r, field')
  BY <1>1, <1>5, <1>6, <1>7 DEF BootInv, Booted, Known, RelayControlAssumption
<1> QED
  BY <1>1, <1>4, <1>6, <1>7, <1>8, ReadMoves

LEMMA WorldBirthsMoves ==
    ASSUME Sane, NEW d \in SimDevice, WorldBirths(d)
    PROVE  Moves
<1> USE RelayControlAssumption
<1>1. /\ Read([relay EXCEPT !.boots[d] = 1, !.kinds = @ \cup {d}])
      /\ field' = field /\ authority' = authority
  BY DEF WorldBirths
<1>2. relay \in Relays /\ field \in Fields /\ d \in Device
  BY DEF Sane, TypeInv, RelayControlAssumption
<1> DEFINE boots == [relay.boots EXCEPT ![d] = 1]
           kinds == relay.kinds \cup {d}
           r == [relay EXCEPT !.boots = boots, !.kinds = kinds]
<1>4. Read(r)
  BY <1>1, <1>2 DEF Relays
<1>5. /\ boots \in [Device -> Nat] /\ kinds \in SUBSET Device
      /\ boots[d] = 1
      /\ \A e \in Device : e # d => boots[e] = relay.boots[e]
  BY <1>2 DEF Relays
<1> HIDE DEF boots, kinds
<1>7. /\ r \in Relays /\ r.host = relay.host /\ r.birth = relay.birth /\ r.devices = relay.devices
      /\ r.boots = boots /\ r.admitted = relay.admitted /\ HostEpoch(r) = HostEpoch(relay)
  BY <1>2, <1>5 DEF Relays, HostEpoch
<1> HIDE DEF r
<1>8. BootInv => Booted(r, field')
  BY <1>1, <1>2, <1>5, <1>7 DEF BootInv, Booted, RelayControlAssumption
<1> QED
  BY <1>1, <1>2, <1>4, <1>7, <1>8, ReadMoves

(* The world's end, of its session or of the world.                         *)
LEMMA WorldGoes ==
    ASSUME Sane, NEW r \in Relays, r.host = relay.host, HostEpoch(r) = HostEpoch(relay),
           Do(DiedUp([Loop EXCEPT !.r = r])), field' = field, authority' = authority,
           BootInv => Booted(r, field)
    PROVE  Moves
<1> DEFINE s == [Loop EXCEPT !.r = r, !.down = FALSE, !.up = FALSE]
<1>1. [Loop EXCEPT !.r = r] = s
  BY LoopIsSound DEF Sane, Sound, Steps
<1>2. Ready(s) /\ Stopless(s) /\ s.r = r
  BY FreshReady
<1> HIDE DEF s
<1>3. Outcome(s)
  BY <1>2, BootedAfter DEF Sane, TypeInv
<1>4. s \in Steps /\ DiedUp(s) \in Steps /\ Degrades(s, DiedUp(s))
  BY <1>2, DiedUpDegrades DEF Ready, Sound
<1> QED
  BY <1>1, <1>3, <1>4, LossMoves

LEMMA WorldDiesMoves ==
    ASSUME Sane, WorldDies
    PROVE  Moves
<1> USE RelayControlAssumption
<1>1. relay \in Relays
  BY DEF Sane, TypeInv
<1> DEFINE boots == [d \in Device |-> IF d \in SimDevice THEN 0 ELSE relay.boots[d]]
           r == [relay EXCEPT !.boots = boots, !.ended = TRUE]
<1>2. [Forget(relay, SimDevice) EXCEPT !.ended = TRUE] = r
  BY <1>1 DEF Forget, Relays
<1>3. /\ boots \in [Device -> Nat] /\ \A d \in SimDevice : boots[d] = 0
      /\ \A d \in Device \ SimDevice : boots[d] = relay.boots[d]
  BY <1>1 DEF Relays, RelayControlAssumption
<1>4. Do(DiedUp([Loop EXCEPT !.r = r])) /\ field' = field /\ authority' = authority
  BY <1>2 DEF WorldDies
<1> HIDE DEF boots
<1>5. /\ r \in Relays /\ r.host = relay.host /\ r.birth = relay.birth /\ r.devices = relay.devices
      /\ r.boots = boots /\ r.admitted = relay.admitted /\ HostEpoch(r) = HostEpoch(relay)
  BY <1>1, <1>3 DEF Relays, HostEpoch
<1> HIDE DEF r
<1>6. BootInv => Booted(r, field)
  BY <1>3, <1>5 DEF BootInv, Booted
<1> QED
  BY <1>4, <1>5, <1>6, WorldGoes

LEMMA WorldLostMoves ==
    ASSUME Sane, WorldLost
    PROVE  Moves
<1>1. relay \in Relays
  BY DEF Sane, TypeInv
<1> DEFINE r == [relay EXCEPT !.ended = TRUE, !.lost = TRUE]
<1>2. Do(DiedUp([Loop EXCEPT !.r = r])) /\ field' = field /\ authority' = authority
  <2>1. [Loop EXCEPT !.r.ended = TRUE, !.r.lost = TRUE] = [Loop EXCEPT !.r = r]
    BY <1>1, LoopIsSound DEF Sane, Sound, Steps
  <2> QED
    BY <2>1 DEF WorldLost
<1>3. /\ r \in Relays /\ r.host = relay.host /\ r.birth = relay.birth /\ r.devices = relay.devices
      /\ r.boots = relay.boots /\ r.admitted = relay.admitted /\ HostEpoch(r) = HostEpoch(relay)
  BY <1>1 DEF Relays, HostEpoch
<1> HIDE DEF r
<1>4. BootInv => Booted(r, field)
  BY <1>3 DEF BootInv, Booted
<1> QED
  BY <1>2, <1>3, <1>4, WorldGoes

LEMMA HostStatesMoves ==
    ASSUME Sane, HostStates
    PROVE  Moves
<1> USE RelayControlAssumption
<1>1. PICK e \in relay.epoch..MaxEpoch :
        /\ Do([Loop EXCEPT !.r.host = "shaken", !.r.epoch = e, !.down = relay.admitted])
        /\ authority' = IF e > 0 THEN e ELSE authority
  BY DEF HostStates
<1>2. relay \in Relays /\ authority = HostEpoch(relay) /\ authority \in Nat
  BY DEF Sane, TypeInv
<1>3. e \in Nat /\ relay.epoch \in Nat /\ relay.lastEpoch \in Nat /\ relay.epoch <= e
  BY <1>2 DEF Relays, RelayControlAssumption
<1> DEFINE r == [relay EXCEPT !.host = "shaken", !.epoch = e]
           s == [Loop EXCEPT !.r = r, !.down = relay.admitted, !.up = FALSE]
<1>4. Do(s)
  <2>1. [Loop EXCEPT !.r.host = "shaken", !.r.epoch = e, !.down = relay.admitted] = s
    BY LoopIsSound DEF Sane, Sound, Steps
  <2> QED
    BY <1>1, <2>1
<1>5. relay.admitted \in BOOLEAN
  BY <1>2 DEF Relays
<1>6. /\ r \in Relays /\ r.host = "shaken" /\ r.birth = relay.birth /\ r.devices = relay.devices
      /\ r.boots = relay.boots /\ r.admitted = relay.admitted
      /\ r.epoch = e /\ r.lastEpoch = relay.lastEpoch
  BY <1>2, <1>3 DEF Relays
<1> HIDE DEF r
<1>7. Ready(s) /\ Stopless(s) /\ s.r = r
  BY <1>5, <1>6, FreshReady
<1> HIDE DEF s
<1>8. authority' = HostEpoch(r) /\ authority' \in Nat
  BY <1>1, <1>2, <1>3, <1>6 DEF HostEpoch
<1>9. BootInv => Booted(r, field')
  BY <1>6 DEF BootInv, Booted, HostStates
<1>10. Outcome(s)
  BY <1>7, <1>8, <1>9, BootedAfter DEF Sane, TypeInv, HostStates
<1> QED
  BY <1>4, <1>10, DoMoves

-----------------------------------------------------------------------------
(* The theorems                                                             *)

LEMMA NextMoves ==
    ASSUME Sane, Next
    PROVE  Moves \/ GatewayConnects
BY TickMoves, ServeMoves, GatewayBirthsMoves, GatewayRebornMoves, GatewayDiesMoves,
   DeviceBirthsMoves, DeviceDiesMoves, LinkEndsMoves, HostStatesMoves, HostSendsMoves,
   WorldBirthsMoves, WorldDiesMoves, WorldLostMoves DEF Next

LEMMA InitIsSane ==
    ASSUME Init
    PROVE  Sane /\ BootInv /\ LocalControlStands /\ StopsGoWhereTheySay
<1> USE RelayControlAssumption
<1>1. NoBoots \in [Device -> Nat] /\ \A d \in Device : NoBoots[d] = 0
  BY DEF NoBoots
<1>2. /\ relay \in Relays /\ relay.host = "away" /\ relay.devices = {} /\ relay.boots = NoBoots
      /\ relay.admitted = FALSE /\ HostEpoch(relay) = 0
  BY <1>1 DEF Init, NewRelay, Relays, HostEpoch
<1>3. gate \in Machines /\ gate.pending = {}
  BY DEF Init, Rules!NewInterrupts, Rules!Scope, Machines, Scopes
<1>4. listed \in Lists /\ \A d \in Device : listed.board[d] = All
  BY DEF Init, NewListed, Lists
<1>5. field = [boot |-> [d \in Device |-> 1], told |-> NoBoots, strays |-> {}]
  BY DEF Init
<1>6. field \in Fields /\ field.told = NoBoots
  BY <1>1, <1>5 DEF Fields
<1>7. Sane
  BY <1>2, <1>3, <1>4, <1>6 DEF Init, Sane, TypeInv, OwedInv, Apart, NamesOf, Charted
<1>8. BootInv
  BY <1>1, <1>2, <1>6 DEF BootInv, Booted, Known, RelayControlAssumption
<1> QED
  BY <1>7, <1>8 DEF Init, LocalControlStands, StopsGoWhereTheySay, Stops

LEMMA StepKeeps ==
    ASSUME Sane, LocalControlStands, [Next]_vars
    PROVE  Sane' /\ LocalControlStands'
<1>1. CASE UNCHANGED vars
  BY <1>1 DEF vars, Sane, TypeInv, OwedInv, LocalControlStands, ScopesOf
<1>2. CASE GatewayConnects
  <2>1. Sane'
    BY <1>2 DEF GatewayConnects, Sane, TypeInv, OwedInv
  <2> QED
    BY <1>2, <2>1 DEF GatewayConnects, LocalControlStands
<1>3. CASE Moves
  <2>1. PICK s \in Steps, k \in Steps : Outcome(s) /\ Leads(s, k) /\ Continue(k)
    BY <1>3 DEF Moves
  <2>2. Sound(k) /\ Told(k) /\ Lawful(k)
    BY <2>1, LeadsSound, LeadsLawful DEF Outcome, Ready
  <2>3. /\ OwedInv' /\ relay' \in Relays /\ gate' \in Machines /\ listed' \in Lists
        /\ attached' \in BOOLEAN
    BY <2>1, <2>2, ContinueKeeps
  <2>4. authority' = HostEpoch(relay')
    BY <2>1, LeadsEpoch DEF Outcome, Continue
  <2>5. Sane'
    BY <2>1, <2>3, <2>4 DEF Sane, TypeInv, Outcome
  <2>6. /\ relay' = k.r /\ gate' = k.m /\ listed' = k.l /\ out' \subseteq k.out
    BY <2>1 DEF Continue
  <2>7. LocalControlStands'
    BY <2>2, <2>6 DEF Lawful, ScopesIn, LocalControlStands, ScopesOf
  <2> QED
    BY <2>5, <2>7
<1> QED
  BY <1>1, <1>2, <1>3, NextMoves

LEMMA StepKeepsStops ==
    ASSUME Sane, BootInv, StopsGoWhereTheySay, [Next]_vars
    PROVE  BootInv' /\ StopsGoWhereTheySay'
<1>1. CASE UNCHANGED vars
  BY <1>1 DEF vars, BootInv, StopsGoWhereTheySay, Stops, IsKnownBoot
<1>2. CASE GatewayConnects
  BY <1>2 DEF GatewayConnects, BootInv, StopsGoWhereTheySay, Stops
<1>3. CASE Moves
  <2>1. PICK s \in Steps, k \in Steps : Outcome(s) /\ Leads(s, k) /\ Continue(k)
    BY <1>3 DEF Moves
  <2>2. /\ Booted(s.r, field')
        /\ Stopless(s) \/ (StopsRight(s) /\ field' = field /\ authority' = authority)
    BY <2>1 DEF Outcome
  <2>3. Booted(k.r, field')
    BY <2>1, <2>2, LeadsBooted
  <2>4. /\ relay' = k.r /\ attached' = k.attached /\ stopped' = k.stopped
        /\ out' = {x \in k.out : x.type \in {"command", "stop"}}
    BY <2>1 DEF Continue
  <2>5. BootInv'
    BY <2>3, <2>4 DEF BootInv
  <2>6. Stops' = StopsOf(k)
    BY <2>4 DEF Stops, StopsOf
  <2>7. CASE Stopless(s)
    <3>1. Stopless(k)
      BY <2>1, <2>7, LeadsStopless
    <3> QED
      BY <2>4, <2>5, <2>6, <3>1 DEF Stopless, StopsOf, StopsGoWhereTheySay
  <2>8. CASE StopsRight(s) /\ field' = field /\ authority' = authority
    <3>1. StopsRight(k)
      BY <2>1, <2>8, LeadsStops
    <3>2. /\ k.stopped = {x.device : x \in StopsOf(k)}
          /\ \A x \in StopsOf(k) :
                x.epoch = authority /\ IsKnownBoot(x.boot, x.device) /\ Aimed(x, k.attached)
      BY <3>1 DEF StopsRight
    <3>3. stopped' = {x.device : x \in Stops'}
      BY <2>4, <2>6, <3>2
    <3>4. ASSUME NEW x \in Stops'
          PROVE  /\ x.epoch = authority' /\ IsKnownBoot(x.boot, x.device)'
                 /\ Aimed(x, k.attached)
      <4>1. x.epoch = authority /\ IsKnownBoot(x.boot, x.device) /\ Aimed(x, k.attached)
        BY <2>6, <3>2
      <4> QED
        BY <2>8, <4>1 DEF IsKnownBoot
    <3> QED
      BY <2>4, <2>5, <3>3, <3>4 DEF StopsGoWhereTheySay, Aimed
  <2> QED
    BY <2>2, <2>7, <2>8
<1> QED
  BY <1>1, <1>2, <1>3, NextMoves

LEMMA AlwaysSane ==
    Spec => [](Sane /\ LocalControlStands)
<1>1. Init => Sane /\ LocalControlStands
  BY InitIsSane
<1>2. Sane /\ LocalControlStands /\ [Next]_vars => (Sane /\ LocalControlStands)'
  BY StepKeeps
<1> QED
  BY <1>1, <1>2, PTL DEF Spec

(* A host is owed an answer for exactly the ids that wait for the operator, *)
(* whatever is lost while they wait (relay_interrupts.go applyGate,         *)
(* leaveHost).                                                              *)
THEOREM TheHostIsOwedWhatWaits ==
    Spec => []WaitingIsOwed
<1>1. Sane /\ LocalControlStands => WaitingIsOwed
  BY HoldersAreNames DEF Sane, OwedInv, WaitingIsOwed
<1> QED
  BY <1>1, AlwaysSane, PTL

(* No command but a declared stop goes down to a device under a hold, on    *)
(* whichever board the gateway has it now (relay_interrupts.go              *)
(* gatedCommand, Control).                                                  *)
THEOREM NothingPassesAHold ==
    Spec => []LocalControlStands
BY AlwaysSane, PTL

(* An emergency stop names exactly the devices it orders to stop, each on   *)
(* its side, under the last authority and the boot the relay was told last: *)
(* one of this session, but of a device that a rebirth left out             *)
(* (relay_stops.go issueStop).                                              *)
THEOREM StopsAreRight ==
    Spec => []StopsGoWhereTheySay
<1>1. Init => BootInv /\ StopsGoWhereTheySay
  BY InitIsSane
<1>2. /\ Sane /\ LocalControlStands
      /\ BootInv /\ StopsGoWhereTheySay /\ [Next]_vars
      => (BootInv /\ StopsGoWhereTheySay)'
  BY StepKeepsStops
<1> QED
  BY <1>1, <1>2, AlwaysSane, PTL DEF Spec
=============================================================================
