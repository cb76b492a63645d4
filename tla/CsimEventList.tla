---------------------------- MODULE CsimEventList ----------------------------
(***************************************************************************)
(* The event schedule of a csim board pointer by pointer: the field        *)
(* board->evts and the fields next, prev and date of each event, changed   *)
(* assignment by assignment as csim_record_event, csim_cancel_event and    *)
(* csim_run do.  Nothing makes the list a list here: it may become         *)
(* cyclic, lose its tail, or hold an event twice.                          *)
(*                                                                         *)
(* With disciplined clients it implements CsimSchedule, where the list is  *)
(* a sequence.  May says which liberties components take beyond that:      *)
(* "rerecord", "recancel" an event whose trigger is in progress, "late"    *)
(* dates.  Nothing in the code excludes any of them.                       *)
(***************************************************************************)
EXTENDS Integers, FiniteSets, SequencesExt

CONSTANTS
  Event, NULL, Period, Horizon, MaxCalls,   (* as in CsimSchedule *)
  May         (* subset of {"rerecord", "recancel", "late"} *)

VARIABLES
  date, end, pc, running, nest, calls, due, (* as in CsimSchedule *)
  head,       (* board->evts *)
  next,       (* evt->next   *)
  prev,       (* evt->prev   *)
  at,         (* evt->date   *)
  fault       (* "no", "null" (null pointer dereferenced), "hang" *)

control == <<date, end, pc>>
list == <<head, next, prev>>
vars == <<control, list, at, running, nest, fault, calls, due>>

Active == Range(nest) \cup (IF running = NULL THEN {} ELSE {running})

-----------------------------------------------------------------------------
(* The n-th event from h, NULL beyond the end. *)
Node(h, nx) ==
  LET node[n \in 0..Cardinality(Event)] ==
        IF n = 0 THEN h ELSE IF node[n - 1] = NULL THEN NULL ELSE nx[node[n - 1]]
  IN node

(* The events reached from h.  A list longer than Event is cyclic: its     *)
(* walk is cut there.                                                      *)
ChainFrom(h, nx) ==
  LET node == Node(h, nx)
      len == Cardinality({n \in 0..Cardinality(Event) : node[n] # NULL})
  IN [n \in 1..len |-> node[n - 1]]

Chain == ChainFrom(head, next)

(***************************************************************************)
(* The insertion of csim_record_event into the list whose head is h, next  *)
(* and prev fields nx and pv, dates t.  The scan of a cyclic list may not  *)
(* end.                                                                    *)
(***************************************************************************)
AtHead(h, t, e) == IF h = NULL THEN TRUE ELSE t[e] < t[h]

ScanStops(nx, t, e, cur) == nx[cur] = NULL \/ t[cur] >= t[e]

(* Variant: the new event does not take over the rest of the list. *)
LinkCutting(h, nx, pv, t, e) ==
  /\ fault' = "no"
  /\ due' = [due EXCEPT ![e] = IF t[e] <= date THEN date + 1 ELSE t[e]]
  /\ IF AtHead(h, t, e)
     THEN head' = e /\ next' = [nx EXCEPT ![e] = h] /\ prev' = pv
     ELSE head' = h /\ next' = [nx EXCEPT ![h] = e] /\ prev' = [pv EXCEPT ![e] = h]

Link(h, nx, pv, t, e) ==
  LET node == Node(h, nx)
      stop == {n \in DOMAIN node : node[n] # NULL /\ ScanStops(nx, t, e, node[n])}
      cur == node[CHOOSE n \in stop : \A m \in stop : n <= m]
      deadline(d) == [due EXCEPT ![e] = IF d <= date THEN date + 1 ELSE d]
  IN IF AtHead(h, t, e)
     THEN /\ head' = e
          /\ next' = [nx EXCEPT ![e] = h]
          /\ prev' = pv
          /\ due' = deadline(t[e])
          /\ fault' = "no"
     ELSE IF stop = {}
     THEN head' = h /\ next' = nx /\ prev' = pv /\ due' = due /\ fault' = "hang"
     ELSE /\ head' = h
          /\ next' = [nx EXCEPT ![e] = nx[cur], ![cur] = e]
          /\ prev' = [x \in Event |-> IF x = e THEN cur
                                      ELSE IF x = nx[cur] THEN e ELSE pv[x]]
          /\ due' = deadline(IF t[e] < t[cur] THEN t[cur] ELSE t[e])
          /\ fault' = "no"

RecordEvent(h, nx, pv, t, e) ==
  IF t[e] <= date
  THEN /\ nest' = Append(nest, e)
       /\ head' = h /\ next' = nx /\ prev' = pv
       /\ UNCHANGED <<fault, due>>
  ELSE Link(h, nx, pv, t, e) /\ nest' = nest

-----------------------------------------------------------------------------
Init ==
  /\ date = 0 /\ end = 0 /\ pc = "main"
  /\ head = NULL
  /\ next = [e \in Event |-> NULL]
  /\ prev = [e \in Event |-> NULL]
  /\ at = [e \in Event |-> 0]
  /\ running = NULL /\ nest = <<>>
  /\ fault = "no"
  /\ calls = 0
  /\ due = [e \in Event |-> 0]

ClientRuns ==
  /\ fault = "no" /\ calls < MaxCalls
  /\ Active # {} \/ pc \in {"main", "cores"}

ClientRecord(e, d) ==
  /\ ClientRuns
  /\ e \notin Range(Chain) \ Active
  /\ e \notin Active \/ "rerecord" \in May
  /\ d >= date \/ "late" \in May
  /\ at' = [at EXCEPT ![e] = d]
  /\ RecordEvent(head, next, prev, at', e)
  /\ calls' = calls + 1
  /\ UNCHANGED <<control, running>>

(* Variant: the back pointer of the next event is left alone. *)
CancelForwardOnly(e) ==
  /\ ClientRuns
  /\ e \notin Active \/ "recancel" \in May
  /\ next[e] # NULL
  /\ IF head = e
     THEN /\ head' = next[e] /\ next' = [next EXCEPT ![e] = NULL]
          /\ prev' = prev
     ELSE /\ prev[e] # NULL
          /\ next' = [next EXCEPT ![prev[e]] = next[e], ![e] = NULL]
          /\ prev' = [prev EXCEPT ![e] = NULL]
          /\ head' = head
  /\ calls' = calls + 1
  /\ UNCHANGED <<control, at, running, nest, due, fault>>

ClientCancel(e) ==
  /\ ClientRuns
  /\ e \notin Active \/ "recancel" \in May
  /\ IF next[e] = NULL \/ (head # e /\ prev[e] = NULL)
     THEN fault' = "null" /\ UNCHANGED list
     ELSE /\ fault' = "no"
          /\ IF head = e
             THEN /\ prev' = [prev EXCEPT ![next[e]] = NULL]
                  /\ head' = next[e]
                  /\ next' = [next EXCEPT ![e] = NULL]
             ELSE /\ prev' = [prev EXCEPT ![next[e]] = prev[e], ![e] = NULL]
                  /\ next' = [next EXCEPT ![prev[e]] = next[e], ![e] = NULL]
                  /\ head' = head
  /\ calls' = calls + 1
  /\ UNCHANGED <<control, at, running, nest, due>>

RecordTriggerReturns ==
  /\ fault = "no" /\ nest # <<>>
  /\ LET e == Last(nest) IN
       /\ nest' = Front(nest)
       /\ IF Period[e] = 0
          THEN UNCHANGED <<list, at, fault, due>>
          ELSE /\ at' = [at EXCEPT ![e] = @ + Period[e]]
               /\ Link(head, next, prev, at', e)
  /\ UNCHANGED <<control, running, calls>>

-----------------------------------------------------------------------------
Run(t) ==
  /\ fault = "no" /\ pc = "main" /\ Active = {}
  /\ date + t <= Horizon
  /\ end' = date + t
  /\ pc' = IF date < end' THEN "events" ELSE "main"
  /\ UNCHANGED <<date, list, at, running, nest, fault, calls, due>>

HeadDue == IF head = NULL THEN FALSE ELSE at[head] <= date

RunTrigger ==
  /\ fault = "no" /\ pc = "events" /\ Active = {}
  /\ HeadDue
  /\ running' = head
  /\ UNCHANGED <<control, list, at, nest, fault, calls, due>>

(* board->evts = evt->next, whatever the trigger did to the list. *)
RunTriggerReturns ==
  /\ fault = "no" /\ running # NULL /\ nest = <<>>
  /\ LET e == running
         h == next[e]
         p == IF h = NULL THEN prev ELSE [prev EXCEPT ![h] = NULL]
         nx == [next EXCEPT ![e] = NULL]
     IN IF Period[e] = 0
        THEN /\ head' = h /\ next' = nx /\ prev' = p
             /\ UNCHANGED <<at, nest, due, fault>>
        ELSE /\ at' = [at EXCEPT ![e] = @ + Period[e]]
             /\ RecordEvent(h, nx, p, at', e)
  /\ running' = NULL
  /\ UNCHANGED <<control, calls>>

EventsDone ==
  /\ fault = "no" /\ pc = "events" /\ Active = {}
  /\ ~HeadDue
  /\ pc' = "cores"
  /\ UNCHANGED <<date, end, list, at, running, nest, fault, calls, due>>

Tick ==
  /\ fault = "no" /\ pc = "cores" /\ Active = {}
  /\ date' = date + 1
  /\ pc' = IF date' < end THEN "events" ELSE "main"
  /\ calls' = 0
  /\ UNCHANGED <<end, list, at, running, nest, fault, due>>

Next ==
  \/ RecordTriggerReturns \/ RunTriggerReturns
  \/ RunTrigger \/ EventsDone \/ Tick
  \/ \E e \in Event : ClientCancel(e) \/ \E d \in 0..Horizon : ClientRecord(e, d)
  \/ \E t \in 1..Horizon : Run(t)

Spec == Init /\ [][Next]_vars

-----------------------------------------------------------------------------
(* With disciplined clients the pointers are always a list, and they       *)
(* implement CsimSchedule: each operation does to the fields next and prev *)
(* what CsimSchedule does to a sequence.                                   *)
Schedule == INSTANCE CsimSchedule WITH evts <- Chain, fault <- fault # "no"

ImplementsSchedule == Schedule!Spec

(* csim/README: a scheduled event triggers at its date.  So it stays in *)
(* the list until csim_run has triggered it or it is cancelled, whatever   *)
(* other events the action of an event schedules or cancels.               *)
OnlyTriggeredLeave ==
  [][\A e \in Range(Chain) \ Range(Chain') : e = running \/ ClientCancel(e)]_vars

=============================================================================
