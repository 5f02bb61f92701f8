-------------------------------- MODULE Esim --------------------------------
(***************************************************************************)
(* The event engine (lib/esim: Engine, Queue, Frame) as operators on the   *)
(* state record s of a model whose event chains it runs.                   *)
(*                                                                         *)
(* s.frames  the live event frames, by identifier.  An identifier is the   *)
(*           path of calls that created the frame, so that the parent of a *)
(*           frame is the front of its identifier.                         *)
(* s.now     the frames scheduled for the current cycle.  The engine's     *)
(*           heap is ordered by time and then by schedule_sequence, so the *)
(*           events of one cycle run first-in first-out.                   *)
(* s.later   the frames scheduled for a future cycle.                      *)
(* s.failed  the panics and assertions that have fired.                    *)
(*                                                                         *)
(* A frame record has at least the fields ev (the event to run next), ret  *)
(* (the event that its parent runs when it returns) and inQueue.           *)
(***************************************************************************)
EXTENDS Naturals, Sequences, SequencesExt

\* A panic, or an assertion that did not hold.
Panic(s, why) == [s EXCEPT !.failed = @ \cup {why}]

\* assert(ok).
Assert_(s, ok, why) == IF ok THEN s ELSE Panic(s, why)

InHeap(s, f) == f \in s.later \/ Contains(s.now, f)

(***************************************************************************)
(* Engine::Schedule: a frame that is suspended in a queue, or that has an  *)
(* event in the heap already, cannot be given another event.  The event    *)
(* runs in this cycle (after = 0) or in a later one.                       *)
(***************************************************************************)
CanSchedule(s, f) == ~ s.frames[f].inQueue /\ ~ InHeap(s, f)

Schedule(s, f, ev) ==
    IF CanSchedule(s, f)
    THEN [s EXCEPT !.frames[f].ev = ev, !.now = Append(@, f)]
    ELSE Panic(s, "frame_scheduled_twice")

ScheduleAfter(s, f, ev) ==
    IF CanSchedule(s, f)
    THEN [s EXCEPT !.frames[f].ev = ev, !.later = @ \cup {f}]
    ELSE Panic(s, "frame_scheduled_twice")

\* Engine::Call: frame r becomes a child of f, named by key, and runs ev now.
CallFrame(s, f, key, r, ev, ret) ==
    LET g == Append(f, key)
    IN  [s EXCEPT !.frames = [h \in DOMAIN @ \cup {g} |->
                                IF h = g THEN [r EXCEPT !.ev = ev, !.ret = ret]
                                         ELSE @[h]],
                  !.now = Append(@, g)]

\* The last reference to frame f is dropped.
FreeFrame(s, f) ==
    [s EXCEPT !.frames = [h \in DOMAIN @ \ {f} |-> @[h]]]

\* Engine::Return: the chain of f ends; its parent, if any, runs its return event.
ReturnFrom(s, f) ==
    IF Len(f) = 1 THEN FreeFrame(s, f)
                  ELSE Schedule(FreeFrame(s, f), Front(f), s.frames[f].ret)

\* Queue::Wait, apart from the insertion of f in the queue itself.
Suspend(s, f, ev) ==
    [s EXCEPT !.frames[f].ev = ev, !.frames[f].inQueue = TRUE]

\* Queue::WakeupOne for the frame g that was taken from the head of a queue.
Wakeup(s, g) ==
    Schedule([s EXCEPT !.frames[g].inQueue = FALSE], g, s.frames[g].ev)

\* Queue::WakeupAll for the frames q of a queue, head first.
WakeupAll(s, q) == FoldLeft(Wakeup, s, q)

=============================================================================
