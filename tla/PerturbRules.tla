---------------------------- MODULE PerturbRules ----------------------------
(***************************************************************************)
(* The delivery perturbation layer (internal/perturb/internal/domain): the *)
(* applied perturbations of a world in the order they were applied, the    *)
(* records two of them hold back, and what each makes of a record.  A      *)
(* layer is a record value; the actions of Run call these operators.       *)
(***************************************************************************)
EXTENDS Naturals, Sequences, FiniteSets, SequencesExt

\* An applied perturbation holds records in its reorder window or its buffer;
\* `until` 0 is a window without an end, `width` the reorder displacement.
Application(n, p) == [id |-> n, kind |-> p.kind, from |-> p.from, until |-> p.until,
                      width |-> IF p.width < 1 THEN 1 ELSE p.width, held |-> <<>>]

EmptyLayer == [active |-> <<>>, seq |-> 0, next |-> 0, pending |-> <<>>]

\* What a record says, when it says it was observed and the reason it is given
\* are left out: no property tells them apart.
Record(n) == [id |-> n, delivered |-> TRUE, malformed |-> FALSE]

\* CheckWindow refuses a window that ends before it starts.
Admitted(p) == p.until = 0 \/ p.until >= p.from

\* Apply numbers applications whatever became of the earlier ones.
Applied(layer, p) ==
  [layer EXCEPT !.active = Append(@, Application(layer.seq, p)), !.seq = @ + 1]

Known(layer, id) == \E i \in DOMAIN layer.active : layer.active[i].id = id

Discarded(records) == [i \in DOMAIN records |-> [records[i] EXCEPT !.delivered = FALSE]]

\* Identities are never given twice: an application has one place in the order.
Ids(records) == [i \in DOMAIN records |-> records[i].id]
Place(ids, id) == CHOOSE i \in DOMAIN ids : ids[i] = id

Kept(layer, id) == RemoveAt(layer.active, Place(Ids(layer.active), id))
HeldBy(layer, id) == layer.active[Place(Ids(layer.active), id)].held

\* Variant: clearing forgets what the application held.
Cleared_Forgets(layer, id) == [layer EXCEPT !.active = Kept(layer, id)]

\* Clear: what the application held is dropped, at the next boundary.
Cleared(layer, id) ==
  [layer EXCEPT !.active = Kept(layer, id), !.pending = @ \o Discarded(HeldBy(layer, id))]

Covers(a, at) == at >= a.from /\ (a.until > 0 => at < a.until)

-----------------------------------------------------------------------------
(***************************************************************************)
(* The transforms.  Records go through an application one by one; `way` is *)
(* how far they are: what the application holds, the identity given last   *)
(* and what has gone on.  `hit` is the set of positions the application's  *)
(* random numbers fall on.                                                 *)
(***************************************************************************)
Way(held, next, out) == [held |-> held, next |-> next, out |-> out]

Withholds(a, at) ==
  \/ a.kind = "producer_flap"
  \/ a.kind = "gross_backfill" /\ a.until > 0 /\ at < a.until

\* A delivery of its own, under the next number; what it says differs by kind.
\* Bound: a storm, which spares no record, gives each one more.
Multiplies(a, struck) == (a.kind \in {"duplicate_burst", "id_reuse"} /\ struck) \/ a.kind = "storm"

\* Only delivered records are touched.  The kinds that are not named rewrite
\* what a record says and leave the records as they are.
Treated(a, at, struck, r, way) ==
  LET lost == [Record(r.id) EXCEPT !.delivered = FALSE]
      copy == [r EXCEPT !.id = way.next + 1]
  IN CASE ~r.delivered -> [way EXCEPT !.out = Append(@, r)]
       [] r.delivered /\ a.kind = "drop" /\ struck -> [way EXCEPT !.out = Append(@, lost)]
       [] r.delivered /\ Multiplies(a, struck) ->
            Way(way.held, way.next + 1, Append(Append(way.out, r), copy))
       [] r.delivered /\ a.kind = "malformed" -> [way EXCEPT !.out = Append(@, [r EXCEPT !.malformed = TRUE])]
       [] r.delivered /\ Withholds(a, at) -> [way EXCEPT !.held = Append(@, r)]
       [] OTHER -> [way EXCEPT !.out = Append(@, r)]

\* mapRecs.
Mapped(a, at, records, hit, next) ==
  LET way[n \in 0 .. Len(records)] ==
        IF n = 0 THEN Way(a.held, next, <<>>) ELSE Treated(a, at, n \in hit, records[n], way[n - 1])
  IN way[Len(records)]

\* popDisplaced, while the window holds more than its width: the head alone or,
\* by chance, behind the one that follows it.
Popped(a, struck, way) ==
  LET w == way.held
  IN IF Len(w) <= a.width THEN way
     ELSE IF Len(w) > 1 /\ struck
       THEN Way(Tail(Tail(w)), way.next, Append(Append(way.out, Head(Tail(w))), Head(w)))
       ELSE Way(Tail(w), way.next, Append(way.out, Head(w)))

\* push: no more leave than came.
Pushed(a, records, hit, next) ==
  LET way[n \in 0 .. Len(records)] ==
        IF n = 0 THEN Way(a.held \o records, next, <<>>) ELSE Popped(a, n \in hit, way[n - 1])
  IN way[Len(records)]

\* applyOne of the i-th application: the layer after it and the records that
\* go on to the next one.
Transformed(layer, i, records, at, hit) ==
  LET a == layer.active[i]
      way == IF a.kind = "reorder" THEN Pushed(a, records, hit, layer.next)
                                   ELSE Mapped(a, at, records, hit, layer.next)
  IN [layer |-> [layer EXCEPT !.active[i].held = way.held, !.next = way.next], out |-> way.out]

-----------------------------------------------------------------------------
(***************************************************************************)
(* Flush at a boundary: what was discarded, then what each application     *)
(* gives back.                                                             *)
(***************************************************************************)
GivesBack(a, at) ==
  \/ a.kind = "reorder"
  \/ a.kind \in {"producer_flap", "gross_backfill"} /\ a.until > 0 /\ at >= a.until

Released(layer, at) ==
  layer.pending \o FlattenSeq([i \in DOMAIN layer.active |->
    IF GivesBack(layer.active[i], at) THEN layer.active[i].held ELSE <<>>])

Emptied(layer, at) ==
  [layer EXCEPT !.pending = <<>>,
     !.active = [i \in DOMAIN @ |-> IF GivesBack(@[i], at) THEN [@[i] EXCEPT !.held = <<>>] ELSE @[i]]]

=============================================================================
