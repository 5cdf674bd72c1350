--------------------------- MODULE Bridge_proofs ---------------------------
(***************************************************************************)
(* One child at a time, directories that follow it, and what a closing     *)
(* bridge leaves behind, for any number of requests and of sessions.       *)
(***************************************************************************)
EXTENDS Bridge, TLAPS

(***************************************************************************)
(* The invariant.                                                          *)
(***************************************************************************)

(* A session the slot has not reached is untouched, and in nobody's hands. *)
AheadIsFresh ==
  /\ \A s \in Session : s > slot => session[s] = Fresh /\ child[s] = "none"
  /\ \A a \in Actor : on[a] <= slot

(* Who launches has the session in the slot, which cannot be given away     *)
(* while its child may still appear, and is alone in doing so.             *)
Launching(h) == at[h] \in {"control", "offer", "launch", "attach"}

LauncherOwnsTheSlot ==
  /\ \A h \in Handler : Launching(h) =>
       /\ on[h] = slot /\ slot # 0
       /\ ~session[slot].failed /\ ~session[slot].attached
       /\ at[h] \in {"control", "offer", "launch"} => child[slot] = "none"
  /\ \A h, g \in Handler : Launching(h) /\ Launching(g) => h = g

(* Who claims the slot holds stateMu alone, over a session that is over    *)
(* and whose remover has been taken.                                       *)
HolderIsAlone ==
  /\ \A h \in Handler : Holding(h) =>
       on[h] = slot /\ (slot # 0 => ~Live(slot) /\ ~session[slot].remove)
  /\ \A h, g \in Handler : Holding(h) /\ Holding(g) => h = g
  /\ ~Holding(Closer)

FailedHasNoChild == \A s \in Session : session[s].failed => child[s] = "none"

SlotInv == TypeOK /\ AheadIsFresh /\ LauncherOwnsTheSlot /\ HolderIsAlone /\ FailedHasNoChild /\ OneChild

(* Somebody is to delete each directory; a request does it for a session   *)
(* that is over.                                                           *)
DirectoryIsKnown ==
  /\ \A s \in directory : Owned(s)
  /\ \A h \in Handler : at[h] \in {"vacate", "remove"} => on[h] \in Session /\ ~Live(on[h])

(* A child not attached yet is in the hands of the request that launched   *)
(* it; a stop that was asked and not carried out is in somebody's hands;   *)
(* and what the closing bridge has left behind had been asked to stop.     *)
InHand(s, a) == on[a] = s /\ at[a] \in {"attach", "signal", "exit"}

StopIsInHand ==
  /\ \A s \in Session : Alive(s) /\ ~session[s].attached => \E h \in Handler : on[h] = s /\ at[h] = "attach"
  /\ \A s \in Session : Alive(s) /\ session[s].stopping => \E a \in Actor : InHand(s, a)
  /\ at[Closer] \in {"signal", "exit", "release", "remove", "director", "closed"} /\ on[Closer] # 0 =>
       session[on[Closer]].stopping \/ session[on[Closer]].failed

-----------------------------------------------------------------------------
(***************************************************************************)
(* Types.                                                                  *)
(***************************************************************************)

LEMMA TypeInit == Init => TypeOK
<1> Fresh \in LiveSession
  BY DEF Fresh, LiveSession
<1>1. ASSUME Init
      PROVE  /\ slot \in 0 .. MaxSessions /\ on \in [Actor -> 0 .. MaxSessions]
             /\ session \in [Session -> LiveSession]
  BY <1>1, BridgeAssumption DEF Init
<1>2. ASSUME Init
      PROVE  child \in [Session -> {"none", "running", "interrupted", "exited"}] /\ at \in [Actor -> Places]
  BY <1>2 DEF Init, Places
<1> QED
  BY <1>1, <1>2 DEF Init, TypeOK

(* Setting one flag of a session.                                          *)
LEMMA FlagsType ==
    ASSUME NEW r \in LiveSession, NEW b \in BOOLEAN
    PROVE  /\ [r EXCEPT !.attached = b] \in LiveSession
           /\ [r EXCEPT !.stopping = b] \in LiveSession
           /\ [r EXCEPT !.failed = b] \in LiveSession
           /\ [r EXCEPT !.remove = b] \in LiveSession
BY DEF LiveSession

LEMMA FlagSet ==
    ASSUME session \in [Session -> LiveSession], NEW s, NEW b \in BOOLEAN
    PROVE  /\ [session EXCEPT ![s].attached = b] \in [Session -> LiveSession]
           /\ [session EXCEPT ![s].stopping = b] \in [Session -> LiveSession]
           /\ [session EXCEPT ![s].failed = b] \in [Session -> LiveSession]
           /\ [session EXCEPT ![s].remove = b] \in [Session -> LiveSession]
<1>1. CASE s \in Session
  BY <1>1, FlagsType
<1>2. CASE s \notin Session
  BY <1>2
<1> QED
  BY <1>1, <1>2

LEMMA ReleaseType ==
    ASSUME TypeOK, NEW a, NEW s, NEW removes \in Places, NEW done \in Places,
           ReleaseControl(a, s, removes, done)
    PROVE  session' \in [Session -> LiveSession] /\ at' \in [Actor -> Places]
BY FlagSet DEF TypeOK, ReleaseControl, Goes

LEMMA RemoveType == ASSUME TypeOK, NEW a \in Actor, RemoveControl(a) PROVE TypeOK'
BY DEF RemoveControl, AfterRemove, Goes, TypeOK, Places

LEMMA StopType ==
    ASSUME TypeOK, NEW a \in Actor, RequestStop(a) \/ Signal(a) \/ AwaitExit(a) \/ Kill(a)
    PROVE  TypeOK'
<1>1. CASE RequestStop(a)
  <2>1. session' \in [Session -> LiveSession]
    <3>1. session' = session \/ session' = [session EXCEPT ![on[a]].stopping = TRUE]
      BY <1>1 DEF RequestStop
    <3>2. [session EXCEPT ![on[a]].stopping = TRUE] \in [Session -> LiveSession]
      BY FlagSet DEF TypeOK
    <3> QED
      BY <3>1, <3>2 DEF TypeOK
  <2>2. at' \in [Actor -> Places]
    BY <1>1 DEF RequestStop, AfterStop, Goes, TypeOK, Places
  <2> QED
    BY <1>1, <2>1, <2>2 DEF RequestStop, TypeOK
<1>2. CASE Signal(a) \/ AwaitExit(a) \/ Kill(a)
  BY <1>2 DEF Signal, AwaitExit, Kill, AfterExit, Goes, TypeOK, Places
<1> QED
  BY <1>1, <1>2

LEMMA HandlerType ==
    ASSUME TypeOK, LauncherOwnsTheSlot, NEW h \in Handler,
           Start(h) \/ Status(h) \/ StopSession(h) \/ Moves(h)
    PROVE  TypeOK'
<1> h \in Actor
  BY DEF Actor
<1>1. CASE Start(h) \/ PrecheckFails(h) \/ AwaitOpen(h)
  BY <1>1 DEF Start, PrecheckFails, AwaitOpen, Goes, TypeOK, Places
<1>2. CASE Vacate(h) \/ ClaimSession(h)
  <2>1. CASE Vacate(h)
    <3>1. "vacate" \in Places /\ "claim" \in Places /\ "answered" \in Places
      BY DEF Places
    <3>2. session' \in [Session -> LiveSession] /\ at' \in [Actor -> Places]
      <4>1. CASE ReleaseControl(h, slot, "vacate", "claim")
        BY <3>1, <4>1, ReleaseType
      <4>2. CASE UNCHANGED session /\ (Goes(h, "claim") \/ Goes(h, "answered"))
        BY <3>1, <4>2 DEF TypeOK, Goes
      <4> QED
        BY <2>1, <4>1, <4>2 DEF Vacate
    <3>3. on' \in [Actor -> 0 .. MaxSessions]
      BY <2>1 DEF Vacate, TypeOK
    <3> QED
      BY <2>1, <3>2, <3>3 DEF Vacate, TypeOK
  <2>2. CASE ClaimSession(h)
    <3>1. slot' \in 0 .. MaxSessions /\ on' \in [Actor -> 0 .. MaxSessions] /\ at' \in [Actor -> Places]
      BY <2>2, BridgeAssumption DEF ClaimSession, Goes, TypeOK, Places
    <3> QED
      BY <2>2, <3>1 DEF ClaimSession, TypeOK
  <2> QED
    BY <1>2, <2>1, <2>2
<1>3. CASE ControlFlags(h) \/ OfferControl(h)
  <2>1. on[h] \in Session
    BY <1>3, BridgeAssumption DEF ControlFlags, OfferControl, LauncherOwnsTheSlot, Launching, TypeOK, Session
  <2>2. session' = session \/ session' = [session EXCEPT ![on[h]].remove = TRUE]
    BY <1>3 DEF ControlFlags, OfferControl
  <2>3. session' \in [Session -> LiveSession]
    <3>1. [session EXCEPT ![on[h]].remove = TRUE] \in [Session -> LiveSession]
      BY FlagSet DEF TypeOK
    <3> QED
      BY <2>2, <3>1 DEF TypeOK
  <2>4. directory' \subseteq Session
    BY <1>3, <2>1 DEF ControlFlags, OfferControl, TypeOK
  <2> QED
    BY <1>3, <2>3, <2>4 DEF ControlFlags, OfferControl, Goes, TypeOK, Places
<1>4. CASE StartLasting(h)
  <2>1. session' \in [Session -> LiveSession]
    <3>1. session' = session \/ session' = [session EXCEPT ![on[h]].failed = TRUE]
      BY <1>4 DEF StartLasting
    <3>2. [session EXCEPT ![on[h]].failed = TRUE] \in [Session -> LiveSession]
      BY FlagSet DEF TypeOK
    <3> QED
      BY <3>1, <3>2 DEF TypeOK
  <2> QED
    BY <1>4, <2>1 DEF StartLasting, Goes, TypeOK, Places
<1>5. CASE Attach(h)
  <2>1. session' \in [Session -> LiveSession]
    BY <1>5, FlagSet DEF Attach, TypeOK
  <2> QED
    BY <1>5, <2>1 DEF Attach, AfterAttach, Goes, TypeOK, Places
<1>6. CASE StatusOf(h) \/ RemoveControl(h)
  <2>1. CASE StatusOf(h)
    <3>1. "remove" \in Places /\ "answered" \in Places
      BY DEF Places
    <3>2. session' \in [Session -> LiveSession] /\ at' \in [Actor -> Places]
      <4>1. CASE ReleaseControl(h, on[h], "remove", "answered")
        BY <3>1, <4>1, ReleaseType
      <4>2. CASE UNCHANGED session /\ Goes(h, "answered")
        BY <3>1, <4>2 DEF TypeOK, Goes
      <4> QED
        BY <2>1, <4>1, <4>2 DEF StatusOf
    <3> QED
      BY <2>1, <3>2 DEF StatusOf, TypeOK
  <2> QED
    BY <1>6, <2>1, RemoveType
<1>7. CASE Status(h) \/ StopSession(h)
  BY <1>7 DEF Status, StopSession, CurrentSession, Goes, TypeOK, Places
<1>8. CASE RequestStop(h) \/ Signal(h) \/ AwaitExit(h) \/ Kill(h)
  BY <1>8, StopType
<1> QED
  BY <1>1, <1>2, <1>3, <1>4, <1>5, <1>6, <1>7, <1>8 DEF Moves

LEMMA TypeNext == TypeOK /\ LauncherOwnsTheSlot /\ [Next]_vars => TypeOK'
<1> SUFFICES ASSUME TypeOK, LauncherOwnsTheSlot, [Next]_vars
             PROVE  TypeOK'
  OBVIOUS
<1>1. CASE \E h \in Handler : Start(h) \/ Status(h) \/ StopSession(h) \/ Moves(h)
  BY <1>1, HandlerType
<1>2. CASE Closes
  <2>1. CASE StopLiving \/ Exit
    BY <2>1 DEF StopLiving, CurrentSession, Exit, Goes, TypeOK, Places
  <2>2. CASE CloseControl
    <3>1. "remove" \in Places /\ "director" \in Places
      BY DEF Places
    <3>2. session' \in [Session -> LiveSession] /\ at' \in [Actor -> Places]
      BY <2>2, <3>1, ReleaseType DEF CloseControl
    <3> QED
      BY <2>2, <3>2 DEF CloseControl, TypeOK
  <2> QED
    BY <1>2, <2>1, <2>2, StopType, RemoveType DEF Closes, Actor
<1>3. CASE (\E s \in Session : ChildExits(s)) \/ Interrupted
  BY <1>3 DEF ChildExits, Interrupted, TypeOK
<1>4. CASE Terminated \/ UNCHANGED vars
  BY <1>4 DEF Terminated, TypeOK, vars
<1> QED
  BY <1>1, <1>2, <1>3, <1>4 DEF Next

-----------------------------------------------------------------------------
(***************************************************************************)
(* One child.                                                              *)
(***************************************************************************)

LEMMA SlotInvInit == Init => SlotInv
<1> SUFFICES ASSUME Init
             PROVE  SlotInv
  OBVIOUS
<1>1. \A a \in Actor : at[a] = "idle"
  BY DEF Init
<1>2. LauncherOwnsTheSlot /\ HolderIsAlone
  BY <1>1 DEF LauncherOwnsTheSlot, Launching, HolderIsAlone, Holding, Actor
<1>3. AheadIsFresh /\ FailedHasNoChild /\ OneChild
  BY DEF Init, AheadIsFresh, FailedHasNoChild, OneChild, Alive, Fresh
<1> QED
  BY <1>2, <1>3, TypeInit DEF SlotInv

(* What is left of the invariant when the slot stays: children come from   *)
(* the one that launches, and the flags that matter from nobody else.      *)
SlotKept ==
  /\ slot' = slot
  /\ \A a \in Actor : on'[a] <= slot
  /\ \A h \in Handler : Launching(h)' => Launching(h) /\ on'[h] = on[h] /\ at'[h] = at[h]
  /\ \A a \in Actor : Holding(a)' => Holding(a) /\ on'[a] = on[a]
  /\ \A s \in Session :
       /\ session'[s].failed = session[s].failed /\ session'[s].attached = session[s].attached
       /\ session'[s].remove => session[s].remove
       /\ child[s] = "exited" => child'[s] = "exited"
       /\ s > slot => session'[s] = session[s]
       /\ Alive(s)' => Alive(s)
       /\ child[s] = "none" <=> child'[s] = "none"

LEMMA KeepsSlot ==
    ASSUME SlotInv, SlotKept, TypeOK'
    PROVE  SlotInv'
<1>1. AheadIsFresh'
  BY DEF SlotInv, SlotKept, AheadIsFresh, TypeOK, Alive, Launching
<1>2. LauncherOwnsTheSlot'
  <2>1. slot # 0 => slot \in Session
    BY BridgeAssumption DEF SlotInv, TypeOK, Session
  <2> QED
    BY <2>1 DEF SlotInv, SlotKept, LauncherOwnsTheSlot, Launching, Alive
<1>3. HolderIsAlone'
  <2>1. slot # 0 => slot \in Session
    BY BridgeAssumption DEF SlotInv, TypeOK, Session
  <2>2. slot # 0 /\ ~Live(slot) => ~Live(slot)'
    BY <2>1 DEF SlotKept, Live
  <2> QED
    BY <2>1, <2>2 DEF SlotInv, SlotKept, HolderIsAlone, Actor
<1>4. FailedHasNoChild' /\ OneChild'
  BY DEF SlotInv, SlotKept, FailedHasNoChild, OneChild, Alive, Launching
<1> QED
  BY <1>1, <1>2, <1>3, <1>4 DEF SlotInv

(* Taking a remover, by a request or by the bridge that closes.            *)
LEMMA ReleaseKeepsSlot ==
    ASSUME SlotInv, NEW a \in Actor, NEW removes, NEW done, ReleaseControl(a, on[a], removes, done),
           removes \notin {"control", "offer", "launch", "attach", "vacate", "claim"},
           done \notin {"control", "offer", "launch", "attach", "vacate", "claim"},
           UNCHANGED <<slot, child, on>>
    PROVE  SlotKept
<1>1. /\ \A g \in Handler : Launching(g)' => Launching(g) /\ at'[g] = at[g]
      /\ \A b \in Actor : Holding(b)' => Holding(b)
  BY DEF ReleaseControl, Goes, SlotInv, TypeOK, Launching, Holding, Actor
<1>2. \A s \in Session : /\ session'[s].failed = session[s].failed
                         /\ session'[s].attached = session[s].attached
                         /\ session'[s].remove => session[s].remove
  BY DEF ReleaseControl, SlotInv, TypeOK, LiveSession
<1>3. \A s \in Session : s > slot => session'[s] = session[s]
  <2>1. \A s \in Session : s > slot => s # on[a]
    BY BridgeAssumption DEF SlotInv, AheadIsFresh, TypeOK, Session
  <2> QED
    BY <2>1 DEF ReleaseControl, SlotInv, TypeOK
<1> QED
  BY <1>1, <1>2, <1>3 DEF SlotKept, SlotInv, AheadIsFresh, Alive

LEMMA RemoveKeepsSlot == ASSUME SlotInv, NEW a \in Actor, RemoveControl(a) PROVE SlotKept
<1>1. /\ \A g \in Handler : Launching(g)' => Launching(g) /\ at'[g] = at[g]
      /\ \A b \in Actor : Holding(b)' => Holding(b)
  BY DEF RemoveControl, AfterRemove, Goes, SlotInv, TypeOK, Launching, Holding, Actor
<1> QED
  BY <1>1 DEF RemoveControl, SlotKept, SlotInv, AheadIsFresh, TypeOK, Alive

(* Who finds the slot's session over holds stateMu from then on.           *)
LEMMA VacateKeepsSlot ==
    ASSUME SlotInv, NEW h \in Handler, Vacate(h), TypeOK'
    PROVE  SlotInv'
<1> h \in Actor
  BY DEF Actor
<1>0. \A g \in Handler : ~Holding(g)
  BY DEF Vacate, Unheld
<1>1. /\ slot' = slot /\ child' = child /\ on' = [on EXCEPT ![h] = slot]
      /\ slot # 0 => slot \in Session
  BY BridgeAssumption DEF Vacate, SlotInv, TypeOK, Session
<1>2. /\ at'[h] \in {"vacate", "claim", "answered"}
      /\ at'[h] \in {"vacate", "claim"} /\ slot # 0 => ~Live(slot)
      /\ \A g \in Actor : g # h => at'[g] = at[g] /\ on'[g] = on[g]
  BY <1>1 DEF Vacate, ReleaseControl, Goes, SlotInv, TypeOK, Actor
<1>3. \A s \in Session : /\ session'[s].failed = session[s].failed
                         /\ session'[s].attached = session[s].attached
                         /\ s # slot => session'[s] = session[s]
                         /\ at'[h] \in {"vacate", "claim"} /\ s = slot => ~session'[s].remove
  <2>1. CASE session' = session /\ (slot = 0 \/ at' = [at EXCEPT ![h] = "answered"])
    BY <1>1, <2>1 DEF SlotInv, TypeOK, Session
  <2>2. CASE session' = [session EXCEPT ![slot].remove = FALSE]
    BY <2>2 DEF SlotInv, TypeOK, LiveSession
  <2> QED
    BY <2>1, <2>2 DEF Vacate, ReleaseControl, Goes
<1>4. AheadIsFresh'
  <2>1. \A a \in Actor : on'[a] <= slot
    BY <1>1 DEF SlotInv, AheadIsFresh, TypeOK
  <2>2. \A s \in Session : s > slot => session'[s] = session[s]
    BY <1>3 DEF SlotInv, TypeOK, Session
  <2> QED
    BY <1>1, <2>1, <2>2 DEF SlotInv, AheadIsFresh
<1>5. LauncherOwnsTheSlot'
  <2>1. \A g \in Handler : Launching(g)' => g # h /\ Launching(g)
    BY <1>2 DEF Launching, Actor
  <2> QED
    BY <1>1, <1>2, <1>3, <2>1 DEF Actor, SlotInv, LauncherOwnsTheSlot, Launching
<1>6. HolderIsAlone'
  <2>1. (\A g \in Handler : Holding(g)' => g = h) /\ ~Holding(Closer)'
    BY <1>0, <1>2, BridgeAssumption DEF Holding, Actor, SlotInv, HolderIsAlone
  <2>2. on'[h] = slot
    BY <1>1 DEF SlotInv, TypeOK
  <2>3. Holding(h)' /\ slot # 0 => ~Live(slot)' /\ ~session'[slot].remove
    BY <1>1, <1>2, <1>3 DEF Holding, Live
  <2> QED
    BY <1>1, <2>1, <2>2, <2>3 DEF HolderIsAlone
<1>7. FailedHasNoChild' /\ OneChild'
  BY <1>1, <1>3 DEF SlotInv, FailedHasNoChild, OneChild, Alive
<1> QED
  BY <1>4, <1>5, <1>6, <1>7 DEF SlotInv

LEMMA ClaimKeepsSlot ==
    ASSUME SlotInv, NEW h \in Handler, ClaimSession(h), TypeOK'
    PROVE  SlotInv'
<1>1. CASE at' = [at EXCEPT ![h] = "answered"] /\ UNCHANGED <<slot, on>>
  <2>1. SlotKept
    BY <1>1 DEF ClaimSession, SlotKept, SlotInv, AheadIsFresh, TypeOK, Launching, Holding, Alive, Actor
  <2> QED
    BY <2>1, KeepsSlot
<1>2. CASE /\ slot < MaxSessions /\ slot' = slot + 1
           /\ on' = [on EXCEPT ![h] = slot + 1]
           /\ at' = [at EXCEPT ![h] = "control"]
  <2> USE BridgeAssumption
  <2>0. Holding(h) /\ session' = session
    BY DEF ClaimSession, Holding
  <2>1. child' = child /\ slot \in Nat /\ slot' \in Session /\ slot' > slot
    BY <1>2 DEF ClaimSession, SlotInv, TypeOK, Session
  <2>a. slot # 0 => ~Live(slot)
    BY <2>0 DEF SlotInv, HolderIsAlone
  <2>2. session'[slot'] = Fresh /\ child'[slot'] = "none"
    BY <2>0, <2>1 DEF SlotInv, AheadIsFresh
  <2>3. AheadIsFresh'
    <3>1. \A s \in Session : s > slot' => session'[s] = Fresh /\ child'[s] = "none"
      BY <2>0, <2>1 DEF SlotInv, AheadIsFresh, Session
    <3>2. \A a \in Actor : on'[a] <= slot'
      BY <1>2, <2>1 DEF SlotInv, AheadIsFresh, TypeOK
    <3> QED
      BY <3>1, <3>2 DEF AheadIsFresh
  <2>4. \A g \in Handler : ~Launching(g)
    BY <2>1, <2>a DEF SlotInv, LauncherOwnsTheSlot, Live
  <2>5. LauncherOwnsTheSlot'
    <3>1. \A g \in Handler : Launching(g)' => g = h
      BY <1>2, <2>4 DEF Launching, SlotInv, TypeOK, Actor
    <3>2. on'[h] = slot' /\ slot' # 0
      BY <1>2, <2>1 DEF SlotInv, TypeOK, Actor
    <3> QED
      BY <3>1, <3>2, <2>2 DEF LauncherOwnsTheSlot, Launching, Fresh
  <2>6. HolderIsAlone'
    <3>1. \A g \in Actor : ~Holding(g)'
      BY <1>2, <2>0 DEF Holding, SlotInv, HolderIsAlone, TypeOK, Actor
    <3> QED
      BY <3>1 DEF HolderIsAlone, Actor
  <2>7. FailedHasNoChild'
    BY <2>0, <2>1 DEF SlotInv, FailedHasNoChild
  <2>8. \A s \in Session : ~Alive(s)
    BY <2>1, <2>a DEF SlotInv, OneChild, FailedHasNoChild, Live, Alive, Session
  <2>9. OneChild'
    BY <2>1, <2>8 DEF OneChild, Alive
  <2> QED
    BY <2>3, <2>5, <2>6, <2>7, <2>9 DEF SlotInv
<1> QED
  BY <1>1, <1>2 DEF ClaimSession, Goes

LEMMA LaunchKeepsSlot ==
    ASSUME SlotInv, NEW h \in Handler, ControlFlags(h) \/ OfferControl(h) \/ StartLasting(h) \/ Attach(h), TypeOK'
    PROVE  SlotInv'
<1> slot' = slot /\ on' = on
  BY DEF ControlFlags, OfferControl, StartLasting, Attach
<1>1. /\ Launching(h) /\ on[h] = slot /\ slot \in Session
      /\ ~session[slot].failed /\ ~session[slot].attached
      /\ \A g \in Handler : Launching(g) => g = h
      /\ at[h] \in {"control", "offer", "launch"} => child[slot] = "none"
  BY BridgeAssumption DEF ControlFlags, OfferControl, StartLasting, Attach, SlotInv, LauncherOwnsTheSlot, Launching,
                          TypeOK, Session
<1>2. /\ \A s \in Session : s # slot => session'[s] = session[s] /\ child'[s] = child[s]
      /\ \A g \in Actor : g # h => at'[g] = at[g]
      /\ \A g \in Handler : g # h => at'[g] = at[g]
  BY <1>1 DEF ControlFlags, OfferControl, StartLasting, Attach, SlotInv, TypeOK, Goes, Actor
<1>a. HolderIsAlone'
  <2>1. \A g \in Actor : ~Holding(g)
    BY <1>1, BridgeAssumption DEF SlotInv, HolderIsAlone, Live, Session, Actor
  <2>2. ~Holding(h)'
    BY DEF ControlFlags, OfferControl, StartLasting, Attach, AfterAttach, Goes, Holding, SlotInv, TypeOK, Actor
  <2> QED
    BY <1>2, <2>1, <2>2 DEF HolderIsAlone, Holding, Actor
<1>3. AheadIsFresh'
  BY <1>1, <1>2 DEF SlotInv, AheadIsFresh, TypeOK, Session
<1>4. OneChild'
  BY <1>2 DEF SlotInv, OneChild, Alive
<1>5. CASE ControlFlags(h) \/ OfferControl(h)
  <2>1. session'[slot].failed = session[slot].failed /\ session'[slot].attached = session[slot].attached
    BY <1>1, <1>5 DEF ControlFlags, OfferControl, SlotInv, TypeOK, LiveSession
  <2>2. at'[h] \in {"offer", "launch"} /\ child' = child
    BY <1>5 DEF ControlFlags, OfferControl, Goes, SlotInv, TypeOK, Actor
  <2>3. child[slot] = "none"
    BY <1>1, <1>5 DEF ControlFlags, OfferControl
  <2>4. LauncherOwnsTheSlot'
    BY <1>1, <1>2, <2>1, <2>2, <2>3 DEF SlotInv, LauncherOwnsTheSlot, Launching
  <2>5. FailedHasNoChild'
    BY <1>1, <1>2, <2>1, <2>2 DEF SlotInv, FailedHasNoChild
  <2> QED
    BY <1>3, <1>4, <1>a, <2>4, <2>5 DEF SlotInv
<1>6. CASE StartLasting(h)
  <2>1. CASE at'[h] = "attach"
    <3>1. session' = session
      BY <1>6, <2>1 DEF StartLasting, Goes, SlotInv, TypeOK, Actor
    <3> QED
      BY <1>1, <1>2, <1>3, <1>4, <1>a, <2>1, <3>1 DEF SlotInv, LauncherOwnsTheSlot, FailedHasNoChild, Launching
  <2>2. CASE at'[h] = "answered" /\ child' = child
    <3>1. child[slot] = "none"
      BY <1>1, <1>6 DEF StartLasting
    <3> QED
      BY <1>1, <1>2, <1>3, <1>4, <1>a, <2>2, <3>1 DEF SlotInv, LauncherOwnsTheSlot, FailedHasNoChild, Launching
  <2> QED
    BY <1>6, <2>1, <2>2 DEF StartLasting, Goes, SlotInv, TypeOK, Actor
<1>7. CASE Attach(h)
  <2>1. session'[slot].failed = session[slot].failed /\ child' = child
    BY <1>1, <1>7 DEF Attach, SlotInv, TypeOK, LiveSession
  <2>2. at'[h] \in {"signal", "open"}
    BY <1>7 DEF Attach, AfterAttach, Goes, SlotInv, TypeOK, Actor
  <2> QED
    BY <1>1, <1>2, <1>3, <1>4, <1>a, <2>1, <2>2 DEF SlotInv, LauncherOwnsTheSlot, FailedHasNoChild, Launching
<1> QED
  BY <1>5, <1>6, <1>7

(* A stop, by a request or by the bridge that closes.                      *)
LEMMA StopKeepsSlot ==
    ASSUME SlotInv, NEW a \in Actor, RequestStop(a) \/ Signal(a) \/ AwaitExit(a) \/ Kill(a), TypeOK'
    PROVE  SlotInv'
<1>1. /\ \A g \in Handler : Launching(g)' => Launching(g) /\ at'[g] = at[g]
      /\ \A b \in Actor : Holding(b)' => Holding(b)
  BY DEF RequestStop, Signal, AwaitExit, Kill, AfterStop, AfterExit, Goes, Launching, Holding, SlotInv, TypeOK, Actor
<1>2. \A s \in Session : Alive(s)' => Alive(s)
  BY DEF RequestStop, Signal, AwaitExit, Kill, Alive, SlotInv, TypeOK
<1>3. \A s \in Session : /\ child[s] = "none" <=> child'[s] = "none"
                         /\ child[s] = "exited" => child'[s] = "exited"
  BY DEF RequestStop, Signal, AwaitExit, Kill, Alive, SlotInv, TypeOK
<1>4. \A s \in Session : /\ session'[s].failed = session[s].failed
                         /\ session'[s].attached = session[s].attached
                         /\ session'[s].remove => session[s].remove
  BY DEF RequestStop, Signal, AwaitExit, Kill, SlotInv, TypeOK, LiveSession
<1>5. slot' = slot /\ \A a2 \in Actor : on'[a2] = on[a2]
  BY DEF RequestStop, Signal, AwaitExit, Kill
<1>6. \A s \in Session : s > slot => session'[s] = session[s]
  <2>1. \A s \in Session : s > slot => s # on[a]
    BY BridgeAssumption DEF SlotInv, AheadIsFresh, TypeOK, Session
  <2> QED
    BY <2>1 DEF RequestStop, Signal, AwaitExit, Kill, SlotInv, TypeOK
<1>7. SlotKept
  <2>1. \A g \in Handler : g \in Actor
    BY DEF Actor
  <2> QED
    BY <1>1, <1>2, <1>3, <1>4, <1>5, <1>6, <2>1 DEF SlotKept, SlotInv, AheadIsFresh
<1> QED
  BY <1>7, KeepsSlot

LEMMA SlotInvNext == SlotInv /\ [Next]_vars => SlotInv'
<1> SUFFICES ASSUME SlotInv, [Next]_vars
             PROVE  SlotInv'
  OBVIOUS
<1> TypeOK'
  BY TypeNext DEF SlotInv
<1>1. CASE \E h \in Handler : Start(h) \/ Status(h) \/ StopSession(h) \/ Moves(h)
  <2>1. PICK h \in Handler : Start(h) \/ Status(h) \/ StopSession(h) \/ Moves(h)
    BY <1>1
  <2> h \in Actor
    BY DEF Actor
  <2>2. CASE Start(h) \/ Status(h) \/ StopSession(h) \/ PrecheckFails(h) \/ AwaitOpen(h)
    <3>1. SlotKept
      BY <2>2 DEF Start, Status, StopSession, CurrentSession, PrecheckFails, AwaitOpen, Goes, SlotKept, SlotInv,
                  AheadIsFresh, TypeOK, Launching, Holding, Alive, Actor
    <3> QED
      BY <3>1, KeepsSlot
  <2>3. CASE StatusOf(h)
    <3>1. CASE UNCHANGED session /\ Goes(h, "answered")
      <4>1. SlotKept
        BY <2>3, <3>1 DEF StatusOf, Goes, SlotKept, SlotInv, AheadIsFresh, TypeOK, Launching, Holding, Alive, Actor
      <4> QED
        BY <4>1, KeepsSlot
    <3>2. CASE ReleaseControl(h, on[h], "remove", "answered")
      <4>1. SlotKept
        BY <2>3, <3>2, ReleaseKeepsSlot DEF StatusOf
      <4> QED
        BY <4>1, KeepsSlot
    <3> QED
      BY <2>3, <3>1, <3>2 DEF StatusOf
  <2> QED
    BY <2>1, <2>2, <2>3, VacateKeepsSlot, ClaimKeepsSlot, LaunchKeepsSlot, StopKeepsSlot, RemoveKeepsSlot, KeepsSlot
    DEF Moves
<1>2. CASE Closes
  <2> Closer \in Actor
    BY DEF Actor
  <2>1. CASE StopLiving \/ Exit
    <3>1. SlotKept
      BY <2>1, BridgeAssumption DEF StopLiving, CurrentSession, Exit, Goes, SlotKept, SlotInv, AheadIsFresh,
                                    TypeOK, Launching, Holding, Alive, Actor
    <3> QED
      BY <3>1, KeepsSlot
  <2>2. CASE CloseControl
    <3>1. SlotKept
      BY <2>2, ReleaseKeepsSlot DEF CloseControl
    <3> QED
      BY <3>1, KeepsSlot
  <2> QED
    BY <1>2, <2>1, <2>2, StopKeepsSlot, RemoveKeepsSlot, KeepsSlot DEF Closes
<1>3. CASE (\E s \in Session : ChildExits(s)) \/ Interrupted \/ Terminated \/ UNCHANGED vars
  <2>1. SlotKept
    BY <1>3 DEF ChildExits, Interrupted, Terminated, vars, SlotKept, SlotInv, AheadIsFresh, TypeOK, Launching, Holding,
                  Alive
  <2> QED
    BY <2>1, KeepsSlot
<1> QED
  BY <1>1, <1>2, <1>3 DEF Next

(* The bridge never has two session children: the one that lives is that   *)
(* of the session in the slot.                                             *)
THEOREM AtMostOneChild == Spec => []OneChild
<1>1. Init => SlotInv
  BY SlotInvInit
<1>2. SlotInv /\ [Next]_vars => SlotInv'
  BY SlotInvNext
<1>3. SlotInv => OneChild
  BY DEF SlotInv
<1> QED
  BY <1>1, <1>2, <1>3, PTL DEF Spec

-----------------------------------------------------------------------------
(***************************************************************************)
(* Directories.                                                            *)
(***************************************************************************)

DirectoryInv == SlotInv /\ DirectoryIsKnown

(* A session that is over stays so.                                        *)
LEMMA OverStays ==
    ASSUME SlotInv, [Next]_vars, NEW s \in Session, ~Live(s)
    PROVE  ~Live(s)'
<1> SUFFICES /\ session[s].failed => session'[s].failed
             /\ session[s].attached => session'[s].attached
             /\ child[s] = "exited" => child'[s] = "exited"
  BY DEF Live
<1>1. CASE \E h \in Handler : Start(h) \/ Status(h) \/ StopSession(h) \/ Moves(h)
  <2>1. PICK h \in Handler : Start(h) \/ Status(h) \/ StopSession(h) \/ Moves(h)
    BY <1>1
  <2>2. CASE UNCHANGED <<session, child>>
    BY <2>2
  <2>3. CASE Vacate(h) \/ OfferControl(h) \/ StatusOf(h) \/ Attach(h) \/ RequestStop(h)
    BY <2>3 DEF Vacate, OfferControl, StatusOf, ReleaseControl, Attach, RequestStop, SlotInv, TypeOK, LiveSession
  <2>4. CASE Signal(h) \/ Kill(h)
    BY <2>4 DEF Signal, Kill, SlotInv, TypeOK
  <2>5. CASE StartLasting(h)
    <3>1. on[h] = slot /\ slot \in Session /\ child[slot] = "none"
      BY <2>5, BridgeAssumption DEF StartLasting, SlotInv, LauncherOwnsTheSlot, Launching, TypeOK, Session
    <3> QED
      BY <2>5, <3>1 DEF StartLasting, SlotInv, TypeOK, LiveSession
  <2> QED
    BY <2>1, <2>2, <2>3, <2>4, <2>5 DEF Start, Status, StopSession, CurrentSession, Moves, PrecheckFails, ClaimSession,
       ControlFlags, AwaitOpen, AwaitExit, RemoveControl
<1>2. CASE Closes
  <2>1. CASE UNCHANGED <<session, child>>
    BY <2>1
  <2>2. CASE CloseControl \/ RequestStop(Closer)
    BY <2>2 DEF CloseControl, ReleaseControl, RequestStop, SlotInv, TypeOK, LiveSession
  <2>3. CASE Signal(Closer) \/ Kill(Closer)
    BY <2>3 DEF Signal, Kill, SlotInv, TypeOK
  <2> QED
    BY <1>2, <2>1, <2>2, <2>3 DEF Closes, StopLiving, CurrentSession, AwaitExit, RemoveControl, Exit
<1>3. CASE (\E c \in Session : ChildExits(c)) \/ Interrupted \/ Terminated \/ UNCHANGED vars
  BY <1>3 DEF ChildExits, Interrupted, Terminated, vars, SlotInv, TypeOK
<1> QED
  BY <1>1, <1>2, <1>3 DEF Next

(* A step of one goroutine that had no directory in its hands, and takes a  *)
(* remover only to delete.                                                 *)
OthersStay(a) == \A b \in Actor : b # a => at'[b] = at[b] /\ on'[b] = on[b]

LEMMA OwnedKept ==
    ASSUME DirectoryInv, slot' = slot, NEW a \in Actor, OthersStay(a),
           at[a] \notin {"offer", "vacate", "remove"},
           \A s \in Session : session[s].remove => session'[s].remove \/ Removing(a, s)',
           NEW d \in directory
    PROVE  Owned(d)'
<1>1. d \in Session /\ Owned(d)
  BY DEF DirectoryInv, DirectoryIsKnown, SlotInv, TypeOK
<1>2. CASE d = slot /\ session[d].remove
  BY <1>1, <1>2 DEF Owned
<1>3. CASE \E h \in Handler : on[h] = d /\ at[h] = "offer"
  BY <1>3 DEF Owned, OthersStay, Actor
<1>4. CASE \E b \in Actor : Removing(b, d)
  BY <1>4 DEF Owned, OthersStay, Removing
<1> QED
  BY <1>1, <1>2, <1>3, <1>4 DEF Owned

LEMMA RemoveKeepsOwned ==
    ASSUME DirectoryInv, NEW a \in Actor, RemoveControl(a), NEW d \in directory'
    PROVE  Owned(d)'
<1>1. d \in directory /\ d # on[a] /\ Owned(d)
  BY DEF RemoveControl, DirectoryInv, DirectoryIsKnown
<1>2. UNCHANGED <<slot, session, on>> /\ \A b \in Actor : b # a => at'[b] = at[b]
  BY DEF RemoveControl, Goes, DirectoryInv, SlotInv, TypeOK
<1>3. at[a] # "offer"
  BY DEF RemoveControl
<1> QED
  BY <1>1, <1>2, <1>3 DEF Owned, Removing, Actor

(* The steps of a request that have to do with its own session.            *)
LEMMA LaunchKeepsOwned ==
    ASSUME DirectoryInv, NEW h \in Handler, ClaimSession(h) \/ ControlFlags(h) \/ OfferControl(h),
           NEW d \in directory'
    PROVE  Owned(d)'
<1> h \in Actor
  BY DEF Actor
<1>1. OthersStay(h)
  BY DEF OthersStay, ClaimSession, ControlFlags, OfferControl, Goes, DirectoryInv, SlotInv, TypeOK
<1>2. CASE ClaimSession(h)
  <2>1. d \in directory /\ d \in Session /\ Owned(d) /\ session' = session /\ at[h] = "claim"
    BY <1>2 DEF ClaimSession, DirectoryInv, DirectoryIsKnown, SlotInv, TypeOK
  <2>2. CASE d = slot /\ session[d].remove
    BY <2>1, <2>2, BridgeAssumption DEF DirectoryInv, SlotInv, HolderIsAlone, Holding, Session
  <2>3. CASE \E g \in Handler : on[g] = d /\ at[g] = "offer"
    BY <1>1, <2>1, <2>3 DEF OthersStay, Owned, Actor
  <2>4. CASE \E b \in Actor : Removing(b, d)
    BY <1>1, <2>1, <2>4 DEF OthersStay, Owned, Removing
  <2> QED
    BY <2>1, <2>2, <2>3, <2>4 DEF Owned
<1>3. CASE ControlFlags(h)
  <2>1. CASE d \in directory
    BY <1>1, <1>3, <2>1, OwnedKept DEF ControlFlags
  <2>2. CASE d \notin directory
    <3>1. at'[h] = "offer" /\ on'[h] = d
      BY <1>3, <2>2 DEF ControlFlags, Goes, DirectoryInv, SlotInv, TypeOK
    <3> QED
      BY <3>1 DEF Owned
  <2> QED
    BY <2>1, <2>2
<1>4. CASE OfferControl(h)
  <2>1. d \in directory /\ d \in Session /\ Owned(d) /\ slot' = slot
    BY <1>4 DEF OfferControl, DirectoryInv, DirectoryIsKnown, SlotInv, TypeOK
  <2>2. Launching(h) /\ on[h] = slot
    BY <1>4 DEF OfferControl, Launching, DirectoryInv, SlotInv, LauncherOwnsTheSlot
  <2>3. d = slot => session'[d].remove
    BY <1>4, <2>1, <2>2 DEF OfferControl, DirectoryInv, SlotInv, TypeOK, LiveSession
  <2>4. CASE d = slot
    BY <2>1, <2>3, <2>4 DEF Owned
  <2>5. CASE \E g \in Handler : on[g] = d /\ at[g] = "offer"
    <3>1. d = slot
      BY <2>2, <2>5 DEF DirectoryInv, SlotInv, LauncherOwnsTheSlot, Launching
    <3> QED
      BY <2>4, <3>1
  <2>6. CASE \E b \in Actor : Removing(b, d)
    BY <1>1, <1>4, <2>6 DEF OthersStay, Owned, Removing, OfferControl
  <2> QED
    BY <2>1, <2>4, <2>5, <2>6 DEF Owned
<1> QED
  BY <1>2, <1>3, <1>4

LEMMA OwnedNext == DirectoryInv /\ [Next]_vars => \A d \in directory' : Owned(d)'
<1> SUFFICES ASSUME DirectoryInv, [Next]_vars, NEW d \in directory'
             PROVE  Owned(d)'
  OBVIOUS
<1>1. CASE \E h \in Handler : Start(h) \/ Status(h) \/ StopSession(h) \/ Moves(h)
  <2>1. PICK h \in Handler : Start(h) \/ Status(h) \/ StopSession(h) \/ Moves(h)
    BY <1>1
  <2> h \in Actor
    BY DEF Actor
  <2>2. CASE \/ Start(h) \/ Status(h) \/ StopSession(h) \/ PrecheckFails(h) \/ AwaitOpen(h) \/ Signal(h)
             \/ AwaitExit(h) \/ Kill(h)
    <3>1. OthersStay(h) /\ at[h] \notin {"offer", "vacate", "remove"}
      BY <2>2 DEF Start, Status, StopSession, CurrentSession, PrecheckFails, AwaitOpen, Signal, AwaitExit, Kill, Goes,
                  OthersStay, DirectoryInv, SlotInv, TypeOK
    <3>2. UNCHANGED <<slot, session, directory>>
      BY <2>2 DEF Start, Status, StopSession, CurrentSession, PrecheckFails, AwaitOpen, Signal, AwaitExit, Kill
    <3> QED
      BY <3>1, <3>2, OwnedKept
  <2>3. CASE StartLasting(h) \/ Attach(h) \/ RequestStop(h)
    <3>1. OthersStay(h) /\ at[h] \notin {"offer", "vacate", "remove"} /\ UNCHANGED <<slot, directory>>
      BY <2>3 DEF StartLasting, Attach, RequestStop, Goes, OthersStay, DirectoryInv, SlotInv, TypeOK
    <3>2. \A s \in Session : session'[s].remove = session[s].remove
      BY <2>3 DEF StartLasting, Attach, RequestStop, DirectoryInv, SlotInv, TypeOK, LiveSession
    <3> QED
      BY <3>1, <3>2, OwnedKept
  <2>4. CASE StatusOf(h) \/ Vacate(h)
    <3>1. OthersStay(h) /\ at[h] \notin {"offer", "vacate", "remove"} /\ UNCHANGED <<slot, directory>>
      BY <2>4 DEF StatusOf, Vacate, ReleaseControl, Goes, OthersStay, DirectoryInv, SlotInv, TypeOK
    <3>2. \A s \in Session : session[s].remove => session'[s].remove \/ Removing(h, s)'
      BY <2>4 DEF StatusOf, Vacate, ReleaseControl, Goes, Removing, DirectoryInv, SlotInv, TypeOK, LiveSession
    <3> QED
      BY <3>1, <3>2, OwnedKept
  <2> QED
    BY <2>1, <2>2, <2>3, <2>4, LaunchKeepsOwned, RemoveKeepsOwned DEF Moves
<1>2. CASE Closes
  <2> Closer \in Actor
    BY DEF Actor
  <2>1. CASE StopLiving \/ Signal(Closer) \/ AwaitExit(Closer) \/ Kill(Closer) \/ Exit
    <3>1. OthersStay(Closer) /\ at[Closer] \notin {"offer", "vacate", "remove"}
      BY <2>1 DEF StopLiving, CurrentSession, Signal, AwaitExit, Kill, Exit, Goes, OthersStay, DirectoryInv, SlotInv,
                  TypeOK
    <3>2. UNCHANGED <<slot, session, directory>>
      BY <2>1 DEF StopLiving, CurrentSession, Signal, AwaitExit, Kill, Exit
    <3> QED
      BY <3>1, <3>2, OwnedKept
  <2>2. CASE RequestStop(Closer)
    <3>1. OthersStay(Closer) /\ at[Closer] \notin {"offer", "vacate", "remove"} /\ UNCHANGED <<slot, directory>>
      BY <2>2 DEF RequestStop, Goes, OthersStay, DirectoryInv, SlotInv, TypeOK
    <3>2. \A s \in Session : session'[s].remove = session[s].remove
      BY <2>2 DEF RequestStop, DirectoryInv, SlotInv, TypeOK, LiveSession
    <3> QED
      BY <3>1, <3>2, OwnedKept
  <2>3. CASE CloseControl
    <3>1. OthersStay(Closer) /\ at[Closer] \notin {"offer", "vacate", "remove"} /\ UNCHANGED <<slot, directory>>
      BY <2>3 DEF CloseControl, ReleaseControl, Goes, OthersStay, DirectoryInv, SlotInv, TypeOK
    <3>2. \A s \in Session : session[s].remove => session'[s].remove \/ Removing(Closer, s)'
      BY <2>3 DEF CloseControl, ReleaseControl, Goes, Removing, DirectoryInv, SlotInv, TypeOK, LiveSession
    <3> QED
      BY <3>1, <3>2, OwnedKept
  <2> QED
    BY <1>2, <2>1, <2>2, <2>3, RemoveKeepsOwned DEF Closes
<1>3. CASE (\E c \in Session : ChildExits(c)) \/ Interrupted \/ Terminated \/ UNCHANGED vars
  <2>1. UNCHANGED <<slot, session, directory, at, on>>
    BY <1>3 DEF ChildExits, Interrupted, Terminated, vars
  <2>2. Owned(d)
    BY <2>1 DEF DirectoryInv, DirectoryIsKnown
  <2> QED
    BY <2>1, <2>2 DEF Owned, Removing
<1> QED
  BY <1>1, <1>2, <1>3 DEF Next

(* A request deletes for a session that is over.                           *)
RemoversAreRight == \A h \in Handler : at[h] \in {"vacate", "remove"} => on[h] \in Session /\ ~Live(on[h])

LEMMA RemoversNext == DirectoryInv /\ [Next]_vars => RemoversAreRight'
<1> SUFFICES ASSUME DirectoryInv, [Next]_vars
             PROVE  RemoversAreRight'
  OBVIOUS
<1> Closer \in Actor
  BY DEF Actor
<1>0. \A h \in Handler : at[h] \in {"vacate", "remove"} =>
        on[h] \in Session /\ \A s \in Session : s = on[h] => ~Live(s)'
  BY OverStays DEF DirectoryInv, DirectoryIsKnown
<1>a. ASSUME NEW a \in Actor, OthersStay(a),
             a \in Handler /\ at'[a] \in {"vacate", "remove"} =>
               on'[a] \in Session /\ \A s \in Session : s = on'[a] => ~Live(s)'
      PROVE  RemoversAreRight'
  <2> SUFFICES ASSUME NEW g \in Handler, at'[g] \in {"vacate", "remove"}
               PROVE  on'[g] \in Session /\ ~Live(on[g])'
    BY DEF RemoversAreRight
  <2>1. on'[g] \in Session /\ \A s \in Session : s = on'[g] => ~Live(s)'
    BY <1>0, <1>a DEF OthersStay, Actor
  <2> QED
    BY <2>1 DEF Live
<1>1. CASE \E h \in Handler : Start(h) \/ Status(h) \/ StopSession(h) \/ Moves(h)
  <2>1. PICK h \in Handler : Start(h) \/ Status(h) \/ StopSession(h) \/ Moves(h)
    BY <1>1
  <2> h \in Actor
    BY DEF Actor
  <2>2. OthersStay(h)
    BY <2>1, BridgeAssumption DEF Start, Status, StopSession, CurrentSession, Moves, PrecheckFails, Vacate,
       ReleaseControl, ClaimSession, ControlFlags, OfferControl, StartLasting, Attach, AwaitOpen, StatusOf, RequestStop,
       Signal, AwaitExit, Kill, RemoveControl, Goes, OthersStay, DirectoryInv, SlotInv, TypeOK
  <2>3. at'[h] \in {"vacate", "remove"} => on'[h] \in Session /\ ~Live(on'[h])
    <3>1. CASE Vacate(h)
      BY <3>1, BridgeAssumption DEF Vacate, Goes, ReleaseControl, DirectoryInv, SlotInv, TypeOK, Session
    <3>2. CASE StatusOf(h)
      BY <3>2, BridgeAssumption DEF StatusOf, Goes, ReleaseControl, Controlling, DirectoryInv, SlotInv, TypeOK, Session
    <3>3. CASE ~Vacate(h) /\ ~StatusOf(h)
      BY <2>1, <3>3 DEF Start, Status, StopSession, CurrentSession, Moves, PrecheckFails, ClaimSession, ControlFlags,
         OfferControl, StartLasting, Attach, AfterAttach, AwaitOpen, RequestStop, AfterStop, Signal, AwaitExit,
         AfterExit, Kill, RemoveControl, AfterRemove, Goes, DirectoryInv, SlotInv, TypeOK
    <3> QED
      BY <3>1, <3>2, <3>3
  <2>4. at'[h] \in {"vacate", "remove"} => on'[h] \in Session /\ \A s \in Session : s = on'[h] => ~Live(s)'
    BY <2>3, OverStays DEF DirectoryInv
  <2> QED
    BY <1>a, <2>2, <2>4
<1>2. CASE Closes
  <2>1. OthersStay(Closer)
    BY <1>2 DEF Closes, StopLiving, CurrentSession, RequestStop, Signal, AwaitExit, Kill, CloseControl,
       ReleaseControl, RemoveControl, Exit, Goes, OthersStay, DirectoryInv, SlotInv, TypeOK
  <2> QED
    BY <1>a, <2>1, BridgeAssumption
<1>3. CASE (\E c \in Session : ChildExits(c)) \/ Interrupted \/ Terminated \/ UNCHANGED vars
  <2>1. OthersStay(Closer)
    BY <1>3 DEF ChildExits, Interrupted, Terminated, vars, OthersStay
  <2> QED
    BY <1>a, <2>1, BridgeAssumption
<1> QED
  BY <1>1, <1>2, <1>3 DEF Next

LEMMA DirectoryNext == DirectoryInv /\ [Next]_vars => DirectoryIsKnown'
BY OwnedNext, RemoversNext DEF DirectoryIsKnown, RemoversAreRight

(* What a step may do to the directories.                                  *)
LEMMA DirectoryStep ==
    ASSUME DirectoryInv, DirectoryIsKnown', [Next]_vars
    PROVE  /\ \A s \in directory' : Owned(s)'
           /\ \A s \in directory \ directory' : Live(s) => Removing(Closer, s)
<1>1. \A s \in directory' : Owned(s)'
  BY DEF DirectoryIsKnown
<1>2. ASSUME NEW s \in directory, s \notin directory', Live(s)
      PROVE  Removing(Closer, s)
  <2>1. CASE \E h \in Handler : Start(h) \/ Status(h) \/ StopSession(h) \/ Moves(h)
    <3>1. PICK h \in Handler : Start(h) \/ Status(h) \/ StopSession(h) \/ Moves(h)
      BY <2>1
    <3>2. CASE RemoveControl(h)
      BY <1>2, <3>2 DEF RemoveControl, DirectoryInv, DirectoryIsKnown
    <3>3. CASE ControlFlags(h)
      BY <1>2, <3>3 DEF ControlFlags
    <3> QED
      BY <1>2, <3>1, <3>2, <3>3 DEF Start, Status, StopSession, CurrentSession, Moves, PrecheckFails, Vacate,
         ClaimSession, OfferControl, StartLasting, Attach, AwaitOpen, StatusOf, RequestStop, Signal, AwaitExit, Kill
  <2>2. CASE Closes
    BY <1>2, <2>2 DEF Closes, StopLiving, CurrentSession, RequestStop, Signal, AwaitExit, Kill, CloseControl,
                      RemoveControl, Removing, Exit
  <2>3. CASE (\E c \in Session : ChildExits(c)) \/ Interrupted \/ Terminated \/ UNCHANGED vars
    BY <1>2, <2>3 DEF ChildExits, Interrupted, Terminated, vars
  <2> QED
    BY <2>1, <2>2, <2>3 DEF Next
<1> QED
  BY <1>1, <1>2

LEMMA DirectoryInvInit == Init => DirectoryInv
<1> SUFFICES ASSUME Init
             PROVE  DirectoryInv
  OBVIOUS
<1>1. directory = {} /\ \A a \in Actor : at[a] = "idle"
  BY DEF Init
<1> QED
  BY <1>1, SlotInvInit DEF DirectoryInv, DirectoryIsKnown, Actor

(* A control directory always has somebody to delete it: the session in    *)
(* the slot, the request that has just made it, or a goroutine that is     *)
(* about to.  It is taken from a living session by nobody but the bridge   *)
(* that closes.                                                            *)
THEOREM DirectoriesFollow == Spec => DirectoryFollowsSession
<1>1. Init => DirectoryInv
  BY DirectoryInvInit
<1>2. DirectoryInv /\ [Next]_vars => DirectoryInv'
  BY SlotInvNext, DirectoryNext DEF DirectoryInv
<1>3. DirectoryInv /\ DirectoryInv' /\ [Next]_vars =>
        [/\ \A s \in directory' : Owned(s)'
         /\ \A s \in directory \ directory' : Live(s) => Removing(Closer, s)]_vars
  BY DirectoryStep DEF DirectoryInv
<1> QED
  BY <1>1, <1>2, <1>3, PTL DEF Spec, DirectoryFollowsSession

-----------------------------------------------------------------------------
(***************************************************************************)
(* A bridge that closes.                                                   *)
(***************************************************************************)

StopInv == SlotInv /\ StopIsInHand

ChildInHand == \A s \in Session : Alive(s) /\ ~session[s].attached => \E h \in Handler : on[h] = s /\ at[h] = "attach"
StopInHand == \A s \in Session : Alive(s) /\ session[s].stopping => \E a \in Actor : InHand(s, a)
CloserHasAsked ==
  at[Closer] \in {"signal", "exit", "release", "remove", "director", "closed"} /\ on[Closer] # 0 =>
    session[on[Closer]].stopping \/ session[on[Closer]].failed

(* A step of one goroutine that takes nothing out of its hands, and revives *)
(* no child.                                                               *)
LEMMA OthersKeepHands ==
    ASSUME StopInv, NEW a \in Actor,
           \A b \in Actor : b # a => at'[b] = at[b] /\ on'[b] = on[b],
           at[a] \notin {"attach", "signal", "exit"},
           \A s \in Session : /\ Alive(s)' => Alive(s)
                              /\ session'[s].attached = session[s].attached
                              /\ session'[s].stopping = session[s].stopping
    PROVE  ChildInHand' /\ StopInHand'
<1>1. ChildInHand'
  BY DEF StopInv, StopIsInHand, ChildInHand, Alive, Actor
<1>2. StopInHand'
  BY DEF StopInv, StopIsInHand, StopInHand, InHand, Alive
<1> QED
  BY <1>1, <1>2

(* The steps of a stop, by a request or by the bridge that closes.         *)
LEMMA StopKeepsHands ==
    ASSUME StopInv, NEW a \in Actor, RequestStop(a) \/ Signal(a) \/ AwaitExit(a) \/ Kill(a)
    PROVE  ChildInHand' /\ StopInHand'
<1> on' = on
  BY DEF RequestStop, Signal, AwaitExit, Kill
<1>1. \A b \in Actor : b # a => at'[b] = at[b]
  BY DEF RequestStop, Signal, AwaitExit, Kill, Goes, StopInv, SlotInv, TypeOK
<1>2. \A s \in Session : session'[s].attached = session[s].attached /\ (Alive(s)' => Alive(s))
  BY DEF RequestStop, Signal, AwaitExit, Kill, Alive, StopInv, SlotInv, TypeOK, LiveSession
<1>3. ChildInHand'
  <2>1. at[a] # "attach"
    BY DEF RequestStop, Signal, AwaitExit, Kill
  <2> QED
    BY <1>1, <1>2, <2>1 DEF StopInv, StopIsInHand, ChildInHand, Actor, Alive
<1>4. StopInHand'
  <2>1. CASE RequestStop(a)
    <3> SUFFICES ASSUME NEW s \in Session, Alive(s)', session'[s].stopping
                 PROVE  (\E b \in Actor : InHand(s, b))'
      BY DEF StopInHand
    <3>1. Alive(s) /\ child' = child
      BY <1>2, <2>1 DEF RequestStop
    <3>2. CASE session[s].stopping
      BY <1>1, <2>1, <3>1, <3>2 DEF RequestStop, StopInv, StopIsInHand, InHand
    <3>3. CASE ~session[s].stopping
      <4>1. s = on[a] /\ ~session[s].failed
        BY <2>1, <3>3 DEF RequestStop, StopInv, SlotInv, TypeOK
      <4>2. CASE session[s].attached
        BY <2>1, <3>3, <4>1, <4>2 DEF RequestStop, Goes, InHand, StopInv, SlotInv, TypeOK
      <4>3. CASE ~session[s].attached
        <5>1. PICK h \in Handler : on[h] = s /\ at[h] = "attach"
          BY <3>1, <4>3 DEF StopInv, StopIsInHand
        <5> QED
          BY <1>1, <2>1, <5>1 DEF RequestStop, InHand, Actor
      <4> QED
        BY <4>2, <4>3
    <3> QED
      BY <3>2, <3>3
  <2>2. CASE Signal(a)
    <3>1. session' = session /\ at'[a] = "exit"
      BY <2>2 DEF Signal, Goes, StopInv, SlotInv, TypeOK
    <3> QED
      BY <1>1, <1>2, <3>1 DEF StopInv, StopIsInHand, StopInHand, InHand, Alive
  <2>3. CASE AwaitExit(a)
    BY <1>1, <2>3 DEF AwaitExit, StopInv, StopIsInHand, StopInHand, InHand, Alive
  <2>4. CASE Kill(a)
    BY <1>2, <2>4 DEF Kill, StopInv, StopIsInHand, StopInHand, InHand, Alive
  <2> QED
    BY <2>1, <2>2, <2>3, <2>4
<1> QED
  BY <1>3, <1>4

(* A request that launches has its session in hand until the stop that was *)
(* asked in between is in its hands too.                                   *)
LEMMA LaunchKeepsHands ==
    ASSUME StopInv, NEW h \in Handler, StartLasting(h) \/ Attach(h)
    PROVE  ChildInHand' /\ StopInHand'
<1> h \in Actor /\ on' = on /\ slot' = slot
  BY DEF Actor, StartLasting, Attach
<1>1. \A b \in Actor : b # h => at'[b] = at[b]
  BY DEF StartLasting, Attach, Goes, StopInv, SlotInv, TypeOK
<1>2. on[h] = slot /\ slot \in Session
  BY BridgeAssumption DEF StartLasting, Attach, StopInv, SlotInv, LauncherOwnsTheSlot, Launching, TypeOK, Session
<1>3. \A s \in Session : s # slot => session'[s] = session[s] /\ child'[s] = child[s]
  BY <1>2 DEF StartLasting, Attach, StopInv, SlotInv, TypeOK
<1>4. \A s \in Session : Alive(s)' => s = slot
  BY <1>3 DEF StopInv, SlotInv, OneChild, Alive
<1>5. CASE StartLasting(h)
  <2>1. CASE at'[h] = "attach"
    BY <1>2, <1>4, <2>1 DEF ChildInHand, StopInHand, InHand
  <2>2. CASE at'[h] = "answered" /\ child' = child
    <3>1. ~Alive(slot)'
      BY <1>2, <1>5, <2>2 DEF StartLasting, StopInv, SlotInv, LauncherOwnsTheSlot, Launching, Alive
    <3> QED
      BY <1>4, <3>1 DEF ChildInHand, StopInHand, Alive
  <2> QED
    BY <1>5, <2>1, <2>2 DEF StartLasting, Goes, StopInv, SlotInv, TypeOK
<1>6. CASE Attach(h)
  <2>1. session'[slot].attached /\ session'[slot].stopping = session[slot].stopping
    BY <1>2, <1>6 DEF Attach, StopInv, SlotInv, TypeOK, LiveSession
  <2>2. session[slot].stopping => at'[h] = "signal"
    BY <1>2, <1>6 DEF Attach, AfterAttach, Goes, StopInv, SlotInv, TypeOK
  <2> QED
    BY <1>2, <1>4, <2>1, <2>2 DEF ChildInHand, StopInHand, InHand, Alive
<1> QED
  BY <1>5, <1>6

LEMMA HandsNext == StopInv /\ [Next]_vars => ChildInHand' /\ StopInHand'
<1> SUFFICES ASSUME StopInv, [Next]_vars
             PROVE  ChildInHand' /\ StopInHand'
  OBVIOUS
<1>1. CASE \E h \in Handler : Start(h) \/ Status(h) \/ StopSession(h) \/ Moves(h)
  <2>1. PICK h \in Handler : Start(h) \/ Status(h) \/ StopSession(h) \/ Moves(h)
    BY <1>1
  <2> h \in Actor
    BY DEF Actor
  <2>2. CASE \/ Start(h) \/ Status(h) \/ StopSession(h) \/ PrecheckFails(h) \/ AwaitOpen(h) \/ Vacate(h)
             \/ ClaimSession(h) \/ ControlFlags(h) \/ OfferControl(h) \/ StatusOf(h) \/ RemoveControl(h)
    <3>1. /\ \A b \in Actor : b # h => at'[b] = at[b] /\ on'[b] = on[b]
          /\ at[h] \notin {"attach", "signal", "exit"} /\ child' = child
      BY <2>2 DEF Start, Status, StopSession, CurrentSession, PrecheckFails, AwaitOpen, Vacate, ClaimSession,
                  ControlFlags, OfferControl, StatusOf, ReleaseControl, RemoveControl, Goes, StopInv, SlotInv, TypeOK
    <3>2. \A s \in Session : /\ session'[s].attached = session[s].attached
                             /\ session'[s].stopping = session[s].stopping
      <4>1. CASE session' = session
        BY <4>1
      <4>2. CASE Vacate(h) \/ OfferControl(h) \/ StatusOf(h)
        BY <4>2 DEF Vacate, OfferControl, StatusOf, ReleaseControl, StopInv, SlotInv, TypeOK, LiveSession
      <4> QED
        BY <2>2, <4>1, <4>2 DEF Start, Status, StopSession, CurrentSession, PrecheckFails, AwaitOpen, ClaimSession,
                                ControlFlags, RemoveControl
    <3> QED
      BY <3>1, <3>2, OthersKeepHands DEF Alive
  <2> QED
    BY <2>1, <2>2, StopKeepsHands, LaunchKeepsHands DEF Moves
<1>2. CASE Closes
  <2> Closer \in Actor
    BY DEF Actor
  <2>1. CASE StopLiving \/ CloseControl \/ RemoveControl(Closer) \/ Exit
    <3>1. /\ \A b \in Actor : b # Closer => at'[b] = at[b] /\ on'[b] = on[b]
          /\ at[Closer] \notin {"attach", "signal", "exit"} /\ child' = child
      BY <2>1 DEF StopLiving, CurrentSession, CloseControl, ReleaseControl, RemoveControl, Exit, Goes, StopInv,
                  SlotInv, TypeOK
    <3>2. \A s \in Session : /\ session'[s].attached = session[s].attached
                             /\ session'[s].stopping = session[s].stopping
      <4>1. CASE session' = session
        BY <4>1
      <4>2. CASE CloseControl
        BY <4>2 DEF CloseControl, ReleaseControl, StopInv, SlotInv, TypeOK, LiveSession
      <4> QED
        BY <2>1, <4>1, <4>2 DEF StopLiving, CurrentSession, RemoveControl, Exit
    <3> QED
      BY <3>1, <3>2, OthersKeepHands DEF Alive
  <2> QED
    BY <1>2, <2>1, StopKeepsHands DEF Closes
<1>3. CASE (\E s \in Session : ChildExits(s)) \/ Interrupted \/ Terminated \/ UNCHANGED vars
  BY <1>3 DEF ChildExits, Interrupted, Terminated, vars, StopInv, StopIsInHand, ChildInHand, StopInHand, InHand,
              Alive, SlotInv, TypeOK
<1> QED
  BY <1>1, <1>2, <1>3 DEF Next

(* Nobody takes a stop or a failure back.                                  *)
LEMMA StopsStay ==
    ASSUME StopInv, [Next]_vars, NEW s \in Session, session[s].stopping \/ session[s].failed
    PROVE  session'[s].stopping \/ session'[s].failed
<1>1. CASE \E h \in Handler : Start(h) \/ Status(h) \/ StopSession(h) \/ Moves(h)
  <2>1. PICK h \in Handler : Start(h) \/ Status(h) \/ StopSession(h) \/ Moves(h)
    BY <1>1
  <2>2. CASE UNCHANGED session
    BY <2>2
  <2>3. CASE Vacate(h) \/ OfferControl(h) \/ StatusOf(h)
    BY <2>3 DEF Vacate, OfferControl, StatusOf, ReleaseControl, StopInv, SlotInv, TypeOK, LiveSession
  <2>4. CASE StartLasting(h) \/ Attach(h) \/ RequestStop(h)
    BY <2>4 DEF StartLasting, Attach, RequestStop, StopInv, SlotInv, TypeOK, LiveSession
  <2> QED
    BY <2>1, <2>2, <2>3, <2>4 DEF Start, Status, StopSession, CurrentSession, Moves, PrecheckFails, AwaitOpen,
       ClaimSession, ControlFlags, RemoveControl, Signal, AwaitExit, Kill
<1>2. CASE Closes
  BY <1>2 DEF Closes, StopLiving, CurrentSession, RequestStop, Signal, AwaitExit, Kill, CloseControl, Exit,
              RemoveControl, ReleaseControl, StopInv, SlotInv, TypeOK, LiveSession
<1>3. CASE (\E c \in Session : ChildExits(c)) \/ Interrupted \/ Terminated \/ UNCHANGED vars
  BY <1>3 DEF ChildExits, Interrupted, Terminated, vars
<1> QED
  BY <1>1, <1>2, <1>3 DEF Next

LEMMA CloserNext == StopInv /\ [Next]_vars => CloserHasAsked'
<1> SUFFICES ASSUME StopInv, [Next]_vars, on'[Closer] # 0,
                    at'[Closer] \in {"signal", "exit", "release", "remove", "director", "closed"}
             PROVE  (session[on[Closer]].stopping \/ session[on[Closer]].failed)'
  BY DEF CloserHasAsked
<1> Closer \in Actor
  BY DEF Actor
<1>1. CASE RequestStop(Closer)
  <2>1. on'[Closer] = on[Closer] /\ on[Closer] \in Session
    BY <1>1, BridgeAssumption DEF RequestStop, StopInv, SlotInv, TypeOK, Session
  <2> QED
    BY <1>1, <2>1 DEF RequestStop, StopInv, SlotInv, TypeOK, LiveSession
<1>2. CASE StopLiving
  BY <1>2 DEF StopLiving, CurrentSession, Goes, StopInv, SlotInv, TypeOK
<1>3. CASE /\ on'[Closer] = on[Closer]
           /\ at[Closer] \in {"signal", "exit", "release", "remove", "director", "closed"}
  <2>1. on[Closer] \in Session
    BY <1>3, BridgeAssumption DEF StopInv, SlotInv, TypeOK, Session
  <2>2. session[on[Closer]].stopping \/ session[on[Closer]].failed
    BY <1>3 DEF StopInv, StopIsInHand
  <2> QED
    BY <1>3, <2>1, <2>2, StopsStay
<1>4. CASE Closes /\ ~StopLiving /\ ~RequestStop(Closer)
  BY <1>3, <1>4 DEF Closes, Signal, AwaitExit, Kill, CloseControl, RemoveControl, Exit, StopInv, SlotInv, HolderIsAlone,
                      Holding
<1>5. CASE \E h \in Handler : Start(h) \/ Status(h) \/ StopSession(h) \/ Moves(h)
  <2>1. PICK h \in Handler : Start(h) \/ Status(h) \/ StopSession(h) \/ Moves(h)
    BY <1>5
  <2>2. at'[Closer] = at[Closer] /\ on'[Closer] = on[Closer]
    BY <2>1, BridgeAssumption DEF Start, Status, StopSession, CurrentSession, Moves, PrecheckFails, Vacate,
       ClaimSession, ControlFlags, OfferControl, StartLasting, Attach, AwaitOpen, StatusOf, ReleaseControl, RequestStop,
       Signal, AwaitExit, Kill, RemoveControl, Goes, StopInv, SlotInv, TypeOK
  <2> QED
    BY <1>3, <2>2
<1>6. CASE (\E c \in Session : ChildExits(c)) \/ Interrupted \/ Terminated \/ UNCHANGED vars
  BY <1>3, <1>6 DEF ChildExits, Interrupted, Terminated, vars
<1> QED
  BY <1>1, <1>2, <1>4, <1>5, <1>6 DEF Next

LEMMA StopInvInit == Init => StopInv
<1> SUFFICES ASSUME Init
             PROVE  StopInv
  OBVIOUS
<1>1. at[Closer] = "idle" /\ \A s \in Session : ~Alive(s)
  BY DEF Init, Actor, Alive
<1> QED
  BY <1>1, SlotInvInit DEF StopInv, StopIsInHand

(* Only the child of a session that a request was launching or stopping,   *)
(* or that was claimed behind its back, outlives a bridge that closes.     *)
THEOREM CloseLeavesNothingElse == Spec => []CloseStopsWhatItFinds
<1>1. Init => StopInv
  BY StopInvInit
<1>2. StopInv /\ [Next]_vars => StopInv'
  BY SlotInvNext, HandsNext, CloserNext DEF StopInv, StopIsInHand, ChildInHand, StopInHand, CloserHasAsked
<1>3. StopInv => CloseStopsWhatItFinds
  <2> SUFFICES ASSUME StopInv, Closed, NEW s \in Session, Alive(s), on[Closer] = s
               PROVE  \E h \in Handler : on[h] = s /\ at[h] \in {"attach", "signal", "exit"}
    BY DEF CloseStopsWhatItFinds
  <2>1. session[s].stopping
    BY BridgeAssumption DEF StopInv, StopIsInHand, SlotInv, FailedHasNoChild, Closed, Alive, Session
  <2>2. PICK a \in Actor : InHand(s, a)
    BY <2>1 DEF StopInv, StopIsInHand
  <2> QED
    BY <2>2 DEF InHand, Closed, Actor
<1> QED
  BY <1>1, <1>2, <1>3, PTL DEF Spec
=============================================================================
