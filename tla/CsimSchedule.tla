---------------------------- MODULE CsimSchedule ----------------------------
(***************************************************************************)
(* The event schedule of a csim board (csim/csim.c): csim_record_event,    *)
(* csim_cancel_event and the loop of csim_run.                             *)
(*                                                                         *)
(* The chain board->evts, evts->next, ... is the sequence evts; the field  *)
(* prev is kept apart because the code maintains it only in part and       *)
(* csim_cancel_event dereferences it.  CsimEventList gives the same        *)
(* operations pointer by pointer.                                          *)
(*                                                                         *)
(* Clients (components, whose code runs in their construct functions, in   *)
(* triggers and in core steps) are taken to be disciplined here: they do   *)
(* not schedule in the past and leave an event alone while its trigger is  *)
(* in progress.  CsimEventList lifts both restrictions.                    *)
(***************************************************************************)
EXTENDS Integers, SequencesExt

CONSTANTS
  Event,      (* the csim_evt_t objects of the components                  *)
  NULL,       (* the null pointer                                          *)
  Period,     (* evt->period, 0 for a one-shot event                       *)
  Horizon,    (* bound: no run ends and no client schedules after it       *)
  MaxCalls    (* bound: client calls between two ticks of the board        *)

ASSUME NULLAssumption == NULL \notin Event
ASSUME PeriodAssumption == Period \in [Event -> Nat]
ASSUME BoundsAssumption == Horizon \in Nat /\ MaxCalls \in Nat

VARIABLES
  date,       (* board->date                                               *)
  end,        (* the local variable end of csim_run                        *)
  pc,         (* "main": outside csim_run; "events", "cores": its loops    *)
  evts,       (* the chain from board->evts                                *)
  prev,       (* evt->prev of every event                                  *)
  at,         (* evt->date of every event                                  *)
  running,    (* the event whose trigger csim_run is executing, or NULL    *)
  nest,       (* the events whose trigger csim_record_event is executing,  *)
              (* the innermost last                                        *)
  fault,      (* a null pointer was dereferenced: the process is dead      *)
  calls,      (* client calls since the last tick (bound)                  *)
  due         (* history: the latest date the event may be triggered at,   *)
              (* fixed when it enters the chain                            *)

vars == <<date, end, pc, evts, prev, at, running, nest, fault, calls, due>>

Active == Range(nest) \cup (IF running = NULL THEN {} ELSE {running})

Later(d1, d2) == IF d1 < d2 THEN d2 ELSE d1

-----------------------------------------------------------------------------
(***************************************************************************)
(* The definitions marked "Variant" are faulty forms of the one after      *)
(* them, used to check that the properties notice them.                    *)
(*                                                                         *)
(* Insertion.  An event dated d goes right after position k of the chain   *)
(* q: k = 0 makes it the head, otherwise the scan stops at the first event *)
(* dated d or later, or at the last event.                                 *)
(***************************************************************************)
(* Variant: always at the head. *)
InsertPointAtHead(q, t, d, k) == k = 0

InsertPoint(q, t, d, k) ==
  IF q = <<>> \/ d < t[q[1]]
  THEN k = 0
  ELSE /\ k \in 1..Len(q)
       /\ k = Len(q) \/ d <= t[q[k]]
       /\ \A j \in 1..(k - 1) : t[q[j]] < d

(* Variant: the back pointer of the next event is forgotten. *)
LinkNoBackPointer(q, p, t, e) ==
  \E k \in 0..Len(q) :
    /\ InsertPoint(q, t, t[e], k)
    /\ evts' = InsertAt(q, k + 1, e)
    /\ prev' = IF k > 0 THEN [p EXCEPT ![e] = q[k]] ELSE p
    /\ due' = [due EXCEPT ![e] =
                 Later(IF k > 0 THEN Later(t[e], t[q[k]]) ELSE t[e], date + 1)]

(* Links e into the chain q.  The old head's prev is left as it was. *)
Link(q, p, t, e) ==
  \E k \in 0..Len(q) :
    /\ InsertPoint(q, t, t[e], k)
    /\ evts' = InsertAt(q, k + 1, e)
    /\ prev' = [x \in Event |-> IF k > 0 /\ x = e THEN q[k]
                                ELSE IF k > 0 /\ k < Len(q) /\ x = q[k + 1] THEN e
                                ELSE p[x]]
    /\ due' = [due EXCEPT ![e] =
                 Later(IF k > 0 THEN Later(t[e], t[q[k]]) ELSE t[e], date + 1)]

(* csim_record_event: an event whose date is not in the future is          *)
(* triggered within the call, the others are linked.                       *)
RecordEvent(q, p, t, e) ==
  IF t[e] <= date
  THEN /\ nest' = Append(nest, e)
       /\ evts' = q
       /\ prev' = p
       /\ due' = due
  ELSE Link(q, p, t, e) /\ nest' = nest

-----------------------------------------------------------------------------
Init ==
  /\ date = 0 /\ end = 0 /\ pc = "main"
  /\ evts = <<>>
  /\ prev = [e \in Event |-> NULL]
  /\ at \in [Event -> {0}]
  /\ running = NULL /\ nest = <<>>
  /\ fault = FALSE
  /\ calls = 0
  /\ due = [e \in Event |-> 0]

(* Component code runs: in a trigger, in a core step, or before a run. *)
ClientRuns ==
  /\ ~fault /\ calls < MaxCalls
  /\ Active # {} \/ pc \in {"main", "cores"}

(* A component sets evt->date and calls csim_record_event. *)
ClientRecord(e, d) ==
  /\ ClientRuns
  /\ e \notin Active \cup Range(evts)
  /\ at' = [at EXCEPT ![e] = d]
  /\ RecordEvent(evts, prev, at', e)
  /\ calls' = calls + 1
  /\ UNCHANGED <<date, end, pc, running, fault>>

(* csim_cancel_event follows evt->next and, unless evt is the head,        *)
(* evt->prev: the call dies on the last event of the chain, on an event    *)
(* that is not scheduled, and on one whose prev was not maintained.        *)
CancelFaults(e) ==
  \/ e \notin Range(evts)
  \/ e = Last(evts)
  \/ e # evts[1] /\ prev[e] = NULL

(* evt->next->prev takes the prev of evt, and the next of that one is the  *)
(* next of evt: whatever prev names, the chain goes on from it to          *)
(* evt->next.                                                              *)
Unlink(e) ==
  \E i \in 1..Len(evts) - 1 :
    /\ evts[i] = e
    /\ IF i = 1
       THEN /\ evts' = SubSeq(evts, 2, Len(evts))
            /\ prev' = [prev EXCEPT ![evts[2]] = NULL]
       ELSE \E k \in 1..Len(evts) :
              /\ evts[k] = prev[e]
              /\ evts' = SubSeq(evts, 1, k) \o SubSeq(evts, i + 1, Len(evts))
              /\ prev' = [prev EXCEPT ![evts[i + 1]] = prev[e], ![e] = NULL]

ClientCancel(e) ==
  /\ ClientRuns
  /\ e \notin Active
  /\ fault' = CancelFaults(e)
  /\ IF CancelFaults(e)
     THEN UNCHANGED <<evts, prev>>
     ELSE Unlink(e)
  /\ calls' = calls + 1
  /\ UNCHANGED <<date, end, pc, at, running, nest, due>>

(* A trigger called by csim_record_event returns: a periodic event is      *)
(* linked for its next date, even when that date is past too.              *)
RecordTriggerReturns ==
  /\ ~fault /\ nest # <<>>
  /\ LET e == Last(nest) IN
       /\ nest' = Front(nest)
       /\ IF Period[e] = 0
          THEN UNCHANGED <<at, evts, prev, due>>
          ELSE /\ at' = [at EXCEPT ![e] = @ + Period[e]]
               /\ Link(evts, prev, at', e)
  /\ UNCHANGED <<date, end, pc, running, fault, calls>>

-----------------------------------------------------------------------------
(* csim_run(board, t) is called. *)
Run(t) ==
  /\ ~fault /\ pc = "main" /\ Active = {}
  /\ date + t <= Horizon
  /\ end' = date + t
  /\ pc' = IF date < end' THEN "events" ELSE "main"
  /\ UNCHANGED <<date, evts, prev, at, running, nest, fault, calls, due>>

(* Variant: strict comparison with the board's date. *)
HeadOverdue == evts # <<>> /\ at[evts[1]] < date

HeadDue == evts # <<>> /\ at[evts[1]] <= date

(* The head of the chain is due: its trigger is called, the event still    *)
(* being the head.                                                         *)
RunTrigger ==
  /\ ~fault /\ pc = "events" /\ Active = {}
  /\ HeadDue
  /\ running' = evts[1]
  /\ UNCHANGED <<date, end, pc, evts, prev, at, nest, fault, calls, due>>

(* What board->evts = evt->next leaves of the chain. *)
ChainAfter(q, e) ==
  LET i == CHOOSE j \in 1..Len(q) : q[j] = e
  IN SubSeq(q, i + 1, Len(q))

(* Variant: the date of a periodic event does not advance. *)
RunTriggerSameDate ==
  /\ ~fault /\ running # NULL /\ nest = <<>>
  /\ evts' = IF Period[running] = 0 THEN ChainAfter(evts, running) ELSE evts
  /\ running' = NULL
  /\ UNCHANGED <<date, end, pc, prev, at, nest, fault, calls, due>>

(* A trigger called by csim_run returns: the event leaves the chain and,   *)
(* when periodic, is recorded again for its next date.                     *)
RunTriggerReturns ==
  /\ ~fault /\ running # NULL /\ nest = <<>>
  /\ LET e == running
         rest == ChainAfter(evts, e)
         p == IF rest = <<>> THEN prev ELSE [prev EXCEPT ![rest[1]] = NULL]
     IN IF Period[e] = 0
        THEN evts' = rest /\ prev' = p /\ UNCHANGED <<at, nest, due>>
        ELSE /\ at' = [at EXCEPT ![e] = @ + Period[e]]
             /\ RecordEvent(rest, p, at', e)
  /\ running' = NULL
  /\ UNCHANGED <<date, end, pc, fault, calls>>

(* Variant: one event per date, as if the inner loop were a test. *)
EventsDoneEarly ==
  /\ ~fault /\ pc = "events" /\ Active = {}
  /\ pc' = "cores"
  /\ UNCHANGED <<date, end, evts, prev, at, running, nest, fault, calls, due>>

(* Nothing is due any more: the cores step. *)
EventsDone ==
  /\ ~fault /\ pc = "events" /\ Active = {}
  /\ ~HeadDue
  /\ pc' = "cores"
  /\ UNCHANGED <<date, end, evts, prev, at, running, nest, fault, calls, due>>

(* The cores have stepped: the date advances and csim_run loops or ends. *)
Tick ==
  /\ ~fault /\ pc = "cores" /\ Active = {}
  /\ date' = date + 1
  /\ pc' = IF date' < end THEN "events" ELSE "main"
  /\ calls' = 0
  /\ UNCHANGED <<end, evts, prev, at, running, nest, fault, due>>

Scheduler ==
  \/ RecordTriggerReturns \/ RunTriggerReturns
  \/ RunTrigger \/ EventsDone \/ Tick

Client ==
  \E e \in Event : ClientCancel(e) \/ \E d \in date..Horizon : ClientRecord(e, d)

Next == Scheduler \/ Client \/ \E t \in 1..Horizon : Run(t)

Spec == Init /\ [][Next]_vars

(* The simulator is one thread of control: whatever is in progress goes on *)
(* to its end.  Nothing obliges the main program to call csim_run, nor a   *)
(* component to make any call.                                             *)
FairSpec == Spec /\ WF_vars(Scheduler)

-----------------------------------------------------------------------------
TypeOK ==
  /\ date \in Nat /\ end \in Nat
  /\ pc \in {"main", "events", "cores"}
  /\ evts \in Seq(Event)
  /\ prev \in [Event -> Event \cup {NULL}]
  /\ at \in [Event -> Nat]
  /\ running \in Event \cup {NULL}
  /\ nest \in Seq(Event)
  /\ fault \in BOOLEAN
  /\ calls \in Nat
  /\ due \in [Event -> Nat]

(* The chain links no event twice (it would be a cycle), and an event      *)
(* recorded inside another trigger is not in it while its own trigger runs.*)
Linked ==
  /\ \A i, j \in 1..Len(evts) : evts[i] = evts[j] => i = j
  /\ \A i, j \in 1..Len(nest) : nest[i] = nest[j] => i = j
  /\ \A i \in 1..Len(evts), j \in 1..Len(nest) : evts[i] # nest[j]

(* The event csim_run is triggering is still the head when its trigger     *)
(* returns, whatever the trigger recorded or cancelled: the assignment     *)
(* board->evts = evt->next removes that event and no other.                *)
RunningIsHead ==
  running # NULL =>
    /\ pc = "events"
    /\ evts # <<>> /\ evts[1] = running
    /\ at[running] <= date
    /\ \A i \in 1..Len(nest) : at[nest[i]] = date

(* evt->prev is never a wrong event: it is null or the event whose next    *)
(* csim_cancel_event has to change.  The head's is null, so is that of an  *)
(* event out of the chain.                                                 *)
PrevSound ==
  /\ \A i \in 1..Len(evts) :
       prev[evts[i]] # NULL => i > 1 /\ prev[evts[i]] = evts[i - 1]
  /\ \A e \in Event : prev[e] # NULL => \E i \in 1..Len(evts) : evts[i] = e

(* No event hides a date later than what the ones behind it may bear: the  *)
(* reason why a chain that is not sorted still delivers in bounded time.   *)
DueCovers ==
  \A i, j \in 1..Len(evts) : i <= j => at[evts[i]] <= due[evts[j]]

(* Bounded lateness.  The chain is not sorted: csim_record_event puts an   *)
(* event behind the first one dated no earlier.  Still each scheduled      *)
(* event is triggered before the cores step past its own date and the date *)
(* of that one neighbour, whatever is recorded or cancelled in between.    *)
InTime ==
  \A i \in 1..Len(evts) :
    due[evts[i]] >= date + (IF pc = "cores" THEN 1 ELSE 0)

ScheduleInv ==
  TypeOK /\ Linked /\ RunningIsHead /\ PrevSound /\ DueCovers /\ InTime

(* An event leaves the chain in two ways only, one at a time: its trigger, *)
(* called by csim_run, has returned, or it is the one being cancelled.     *)
(* Every other event of the chain stays, in the same order.                *)
NothingLost ==
  [][\A e \in Range(evts) \ Range(evts') :
       /\ e = running \/ ClientCancel(e)
       /\ Range(evts) \ Range(evts') = {e}]_vars

(* Within a call of csim_run, an event due before its end is triggered or  *)
(* cancelled, as long as no null pointer kills the process.                *)
Delivered ==
  \A e \in Event :
    (pc # "main" /\ e \in Range(evts) /\ due[e] < end)
      ~> (fault \/ e \notin Range(evts) \/ e = running)

(* csim_run returns.  *)
RunReturns == (pc # "main") ~> (pc = "main" \/ fault)

=============================================================================
