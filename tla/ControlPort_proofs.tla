--------------------------- MODULE ControlPort_proofs ---------------------------
(***************************************************************************)
(* Nobody is answered with a state that is not published yet, for any       *)
(* number of clients, calls and changes from elsewhere, and any backlog.    *)
(***************************************************************************)
EXTENDS ControlPort, TLAPS

Places == {"slice", "changed", "barrier", "taken", "judged", "published", "ended"}

(* What is published is never ahead of the state, and is the state itself   *)
(* when the session answers: the change it judged was published before, and *)
(* nothing else changes the state until it is back in its slice.            *)
ShownInv ==
    /\ calls \in Seq(Call)
    /\ session \in Places
    /\ state \in Nat /\ view \in Nat /\ view <= state
    /\ session = "published" => view = state
    /\ RepliesAreVisible

LEMMA ShownInvInit == Init => ShownInv
BY DEF Init, ShownInv, Places, RepliesAreVisible

(* One call is changed, and its reply only to a version that was published. *)
LEMMA CallChanged ==
    ASSUME NEW n, NEW call, calls \in Seq(Call), view \in Nat, RepliesAreVisible,
           n \in 1..Len(calls) => call \in Call /\ call.reply <= view,
           calls' = [calls EXCEPT ![n] = call]
    PROVE  /\ calls' \in Seq(Call)
           /\ \A m \in 1..Len(calls') : calls'[m].reply <= view
<1>1. Len(calls') = Len(calls) /\ Len(calls) \in Nat
  OBVIOUS
<1>2. ASSUME NEW m \in 1..Len(calls)
      PROVE  calls'[m] \in Call /\ calls'[m].reply <= view
  <2>1. CASE m = n
    BY <2>1
  <2>2. CASE m # n
    BY <2>2 DEF RepliesAreVisible
  <2> QED
    BY <2>1, <2>2
<1>3. calls' \in Seq(Call)
  <2>1. CASE n \in 1..Len(calls)
    BY <2>1
  <2>2. CASE n \notin 1..Len(calls)
    <3>1. calls = [m \in 1..Len(calls) |-> calls[m]]
      OBVIOUS
    <3>2. calls' = [m \in 1..Len(calls) |-> calls[m]]
      BY <2>2, <3>1
    <3> QED
      BY <3>1, <3>2
  <2> QED
    BY <2>1, <2>2
<1> QED
  BY <1>1, <1>2, <1>3

LEMMA ConnectionKeepsShown == ShownInv /\ Connection => ShownInv'
<1> SUFFICES ASSUME ShownInv, Connection
             PROVE  ShownInv'
  OBVIOUS
<1>0. UNCHANGED <<session, state, view>>
  BY DEF Connection, Accept, HangUp, Submit, Expire, TellReply, TellBusy, Tell, Stop
<1>1. SUFFICES calls' \in Seq(Call) /\ \A m \in 1..Len(calls') : calls'[m].reply <= view
  BY <1>0 DEF ShownInv, RepliesAreVisible
<1>2. CASE UNCHANGED calls
  BY <1>2 DEF ShownInv, RepliesAreVisible
<1>3. ASSUME NEW c \in Client, NEW estop \in BOOLEAN, Submit(c, estop)
      PROVE  calls' \in Seq(Call) /\ \A m \in 1..Len(calls') : calls'[m].reply <= view
  <2>1. PICK told \in {"busy", "nothing"} : calls' = Append(calls, Arrival(c, estop, told))
    BY <1>3, Zenon DEF Submit
  <2>2. Arrival(c, estop, told) \in Call /\ Arrival(c, estop, told).reply = 0
    BY <2>1 DEF Arrival, Call
  <2> QED
    BY <2>1, <2>2 DEF ShownInv, RepliesAreVisible
<1>4. ASSUME NEW n \in 1..Len(calls), Expire(n) \/ TellReply(n) \/ TellBusy(n)
      PROVE  calls' \in Seq(Call) /\ \A m \in 1..Len(calls') : calls'[m].reply <= view
  <2>1. calls[n] \in Call /\ calls[n].reply <= view
    BY DEF ShownInv, RepliesAreVisible
  <2>2. PICK told \in {"nothing", "reply", "busy"} :
          calls' = [calls EXCEPT ![n] = [calls[n] EXCEPT !.live = FALSE, !.told = told]]
    <3>1. CASE Expire(n)
      <4>1. calls' = [calls EXCEPT ![n] = [calls[n] EXCEPT !.live = FALSE, !.told = calls[n].told]]
        BY <2>1, <3>1 DEF Expire, Call, ShownInv
      <4> QED
        BY <2>1, <4>1 DEF Call
    <3>2. ASSUME NEW told \in {"reply", "busy"}, Tell(n, told)
          PROVE  calls' = [calls EXCEPT ![n] = [calls[n] EXCEPT !.live = FALSE, !.told = told]]
      BY <2>1, <3>2 DEF Tell, Call, ShownInv
    <3> QED
      BY <1>4, <3>1, <3>2 DEF TellReply, TellBusy
  <2> DEFINE call == [calls[n] EXCEPT !.live = FALSE, !.told = told]
  <2>3. call \in Call /\ call.reply = calls[n].reply
    BY <2>1 DEF Call
  <2> HIDE DEF call
  <2> QED
    BY <2>1, <2>2, <2>3, CallChanged DEF call, ShownInv
<1>5. CASE Stop
  <2>1. calls' = [n \in 1..Len(calls) |-> [calls[n] EXCEPT !.live = FALSE]]
    BY <1>5 DEF Stop
  <2>2. ASSUME NEW n \in 1..Len(calls)
        PROVE  [calls[n] EXCEPT !.live = FALSE] \in Call /\ [calls[n] EXCEPT !.live = FALSE].reply <= view
    <3>1. calls[n] \in Call /\ calls[n].reply <= view
      BY DEF ShownInv, RepliesAreVisible
    <3> QED
      BY <3>1 DEF Call
  <2>3. calls' \in Seq(Call) /\ Len(calls') = Len(calls)
    <3>1. Len(calls) \in Nat
      BY DEF ShownInv
    <3> QED
      BY <2>1, <2>2, <3>1
  <2> QED
    BY <2>1, <2>2, <2>3
<1> QED
  BY <1>2, <1>3, <1>4, <1>5 DEF Connection, Accept, HangUp

LEMMA SessionKeepsShown == ShownInv /\ Session => ShownInv'
<1> SUFFICES ASSUME ShownInv, Session
             PROVE  ShownInv'
  OBVIOUS
<1>1. CASE Barrier \/ Change \/ Judge \/ Publish \/ Leave \/ End
  <2>1. UNCHANGED calls /\ state' \in Nat /\ view' \in Nat /\ view <= view' /\ view' <= state'
    BY <1>1 DEF Barrier, Change, Judge, Publish, Leave, End, ShownInv
  <2>2. session' \in Places /\ (session' = "published" => view' = state')
    BY <1>1 DEF Barrier, Change, Judge, Publish, Leave, End, ShownInv, Places
  <2>3. ASSUME NEW n \in 1..Len(calls)
        PROVE  calls[n].reply <= view'
    <3>1. calls[n] \in Call /\ calls[n].reply <= view /\ view \in Nat
      BY DEF ShownInv, RepliesAreVisible
    <3>2. calls[n].reply \in Nat
      BY <3>1 DEF Call
    <3> QED
      BY <2>1, <3>1, <3>2
  <2> QED
    BY <2>1, <2>2, <2>3 DEF ShownInv, RepliesAreVisible
<1>2. CASE Take
  <2>1. UNCHANGED <<state, view>> /\ session' = "taken"
    BY <1>2 DEF Take
  <2>2. PICK first : calls' = [calls EXCEPT ![first].taken = TRUE]
    BY <1>2 DEF Take
  <2> DEFINE call == [calls[first] EXCEPT !.taken = TRUE]
  <2>3. first \in 1..Len(calls) => call \in Call /\ call.reply <= view
    <3>1. first \in 1..Len(calls) => calls[first] \in Call /\ calls[first].reply <= view
      BY DEF ShownInv, RepliesAreVisible
    <3> QED
      BY <3>1 DEF Call
  <2>4. calls' = [calls EXCEPT ![first] = call]
    BY <2>2
  <2> HIDE DEF call
  <2> QED
    BY <2>1, <2>3, <2>4, CallChanged DEF ShownInv, RepliesAreVisible, Places
<1>3. CASE Reply
  <2>1. UNCHANGED <<state, view>> /\ session' \in {"barrier", "ended"} /\ view = state
    BY <1>3 DEF Reply, ShownInv
  <2> DEFINE call == [calls[serving] EXCEPT !.reply = state]
  <2>2. serving \in 1..Len(calls) => call \in Call /\ call.reply <= view
    <3>1. serving \in 1..Len(calls) => calls[serving] \in Call
      BY DEF ShownInv
    <3> QED
      BY <2>1, <3>1 DEF Call, ShownInv
  <2>3. calls' = [calls EXCEPT ![serving] = call]
    BY <1>3 DEF Reply
  <2> HIDE DEF call
  <2> QED
    BY <2>1, <2>2, <2>3, CallChanged DEF ShownInv, RepliesAreVisible, Places
<1> QED
  BY <1>1, <1>2, <1>3 DEF Session, Serve

LEMMA ShownInvNext == ShownInv /\ [Next]_vars => ShownInv'
<1> SUFFICES ASSUME ShownInv, [Next]_vars
             PROVE  ShownInv'
  OBVIOUS
<1>1. CASE Terminated \/ UNCHANGED vars
  BY <1>1 DEF Terminated, vars, ShownInv, RepliesAreVisible
<1> QED
  BY <1>1, ConnectionKeepsShown, SessionKeepsShown DEF Next

(* Who was answered is shown his control or what came after it, however his *)
(* connection and the session interleave.                                   *)
THEOREM AnsweredIsPublished == Spec => []RepliesAreVisible
<1>1. ShownInv => RepliesAreVisible
  BY DEF ShownInv
<1> QED
  BY <1>1, ShownInvInit, ShownInvNext, PTL DEF Spec
=============================================================================
