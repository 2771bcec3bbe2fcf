---------------------------- MODULE EventMailbox ----------------------------
(***************************************************************************)
(* Events of the graphical front end: the GUI thread pushes them into the  *)
(* bounded mailbox of newbcpl-runtime/src/igui/channels.rs, the language   *)
(* thread takes them out, first in the driver's worker loop and, while a   *)
(* program runs, in the program's own calls of next_event and              *)
(* next_event_for.  The stash and the filter belong to the language thread *)
(* alone; the mailbox is what the two threads share.                       *)
(*                                                                         *)
(* Events are numbered in the order the window procedures produce them.    *)
(***************************************************************************)
EXTENDS Naturals, SequencesExt

CONSTANTS
  Windows,
  NoWindow,    (* the target of a global event                             *)
  Capacity,    (* CAPACITY of the mailbox                                  *)
  MaxEvents,   (* bound: events produced                                   *)
  Timeouts     (* what programs pass: "forever" (< 0), "wait" (> 0),       *)
               (* "poll" (0)                                               *)

ASSUME MailboxAssumption ==
  /\ NoWindow \notin Windows
  /\ Capacity \in Nat \ {0}
  /\ MaxEvents \in Nat
  /\ Timeouts \subseteq {"forever", "wait", "poll"}

VARIABLES
  mailbox,   (* the channel                                                *)
  closing,   (* WM_CLOSE has been handled                                  *)
  stash,     (* EVENT_STASH                                                *)
  filter,    (* EVENT_FILTER                                               *)
  mode,      (* the language thread: "worker", "program", "done"           *)
  call,      (* the call it waits in, or NoCall                            *)
  produced,  (* number of events so far                                    *)
  taken,     (* the events handed out, in order                            *)
  lost,      (* the events dropped at a full mailbox                       *)
  discarded, (* the events thrown away from the stash                      *)
  started    (* the Run event the program that runs was started by         *)

vars == <<mailbox, closing, stash, filter, mode, call, produced, taken, lost,
          discarded, started>>

NoCall == [wants |-> {}, timeout |-> "none"]

Kinds == {"window", "run", "frame_close", "global"}

Event == [no : 1 .. MaxEvents, kind : Kinds, window : Windows \cup {NoWindow}]

Numbers(events) == {e.no : e \in ToSet(events)}

-----------------------------------------------------------------------------
Init ==
  /\ mailbox = <<>> /\ stash = <<>> /\ filter = {}
  /\ closing = FALSE
  /\ mode = "worker" /\ call = NoCall
  /\ produced = 0 /\ taken = <<>> /\ lost = {} /\ discarded = {}
  /\ started = 0

-----------------------------------------------------------------------------
(* The GUI thread.                                                         *)

(* Fault: the mailbox takes one event more than it has room for.           *)
PushPastFull(kind, window) ==
  LET e == [no |-> produced + 1, kind |-> kind, window |-> window]
  IN /\ produced < MaxEvents
     /\ produced' = produced + 1
     /\ IF Len(mailbox) <= Capacity
        THEN mailbox' = Append(mailbox, e) /\ UNCHANGED lost
        ELSE lost' = lost \cup {e.no} /\ UNCHANGED mailbox

(* push: a full mailbox drops the event, it never blocks the GUI.          *)
Push(kind, window) ==
  LET e == [no |-> produced + 1, kind |-> kind, window |-> window]
  IN /\ produced < MaxEvents
     /\ produced' = produced + 1
     /\ IF Len(mailbox) < Capacity
        THEN mailbox' = Append(mailbox, e) /\ UNCHANGED lost
        ELSE lost' = lost \cup {e.no} /\ UNCHANGED mailbox

WindowMessage ==
  /\ \E w \in Windows : Push("window", w)
  /\ UNCHANGED <<closing, stash, filter, mode, call, taken, discarded, started>>

(* Program > Run, another menu item, or a change of theme.                 *)
FrameMessage ==
  /\ ~closing
  /\ \E kind \in {"run", "global"} : Push(kind, NoWindow)
  /\ UNCHANGED <<closing, stash, filter, mode, call, taken, discarded, started>>

CloseFrame ==
  /\ ~closing
  /\ closing' = TRUE
  /\ Push("frame_close", NoWindow)
  /\ UNCHANGED <<stash, filter, mode, call, taken, discarded, started>>

-----------------------------------------------------------------------------
(* The language thread.                                                    *)

(* Fault: an event of no window is no event of the window asked for.       *)
MatchesWindowOnly(e, wants) == e.window \in wants

(* matches_filter and matches_target: an event of no window matches always.*)
Matches(e, wants) == e.window = NoWindow \/ e.window \in wants

(* An empty filter lets everything through.                                *)
Wanted == IF filter = {} THEN Windows ELSE filter

(* Fault: the filter and the stash of the last program stay.               *)
RunProgramUnreset(e) ==
  /\ mode' = "program"
  /\ started' = e.no
  /\ UNCHANGED <<filter, stash, discarded>>

(* gui_run_program resets the event subsystem before anything else.        *)
RunProgram(e) ==
  /\ mode' = "program"
  /\ started' = e.no
  /\ filter' = {}
  /\ stash' = <<>>
  /\ discarded' = discarded \cup Numbers(stash)

(* What gui_language_worker, or the program, does with event e.            *)
HandOut(e, rest) ==
  /\ taken' = Append(taken, e)
  /\ call' = NoCall
  /\ CASE mode = "worker" /\ e.kind = "run" -> RunProgram(e)
       [] mode = "worker" /\ e.kind = "frame_close" ->
            /\ mode' = "done" /\ stash' = rest
            /\ UNCHANGED <<filter, discarded, started>>
       [] OTHER ->
            /\ stash' = rest
            /\ UNCHANGED <<mode, filter, discarded, started>>

(* The walk over the stash that begins a call, and what the call does when *)
(* the walk finds nothing.  With a timeout of 0 the deadline has passed    *)
(* before the channel is looked at.                                        *)
Ask(wants, timeout) ==
  LET hits == {i \in DOMAIN stash : Matches(stash[i], wants)}
      i    == Min(hits)
  IN /\ call = NoCall
     /\ IF hits # {}
        THEN HandOut(stash[i], RemoveAt(stash, i))
        ELSE /\ call' = IF timeout = "poll" THEN NoCall
                        ELSE [wants |-> wants, timeout |-> timeout]
             /\ UNCHANGED <<stash, filter, mode, taken, discarded, started>>
     /\ UNCHANGED <<mailbox, closing, produced, lost>>

(* gui_language_worker: next_event(-1).                                    *)
WorkerAsks == mode = "worker" /\ Ask(Wanted, "forever")

(* A program: next_event or next_event_for.                                *)
ProgramAsks ==
  /\ mode = "program"
  /\ \E timeout \in Timeouts, wants \in {Wanted} \cup {{w} : w \in Windows} :
       Ask(wants, timeout)

(* Fault: an event that does not match is put at the front of the stash.   *)
ParkFirst(e) == stash' = <<e>> \o stash

(* Fault: an event that does not match is dropped.                         *)
ParkNowhere(e) == UNCHANGED stash

(* A received event that does not match waits for a call it does match.    *)
Park(e) == stash' = Append(stash, e)

(* One turn of the receive loop.                                           *)
Receive ==
  LET e == Head(mailbox)
  IN /\ call # NoCall /\ mailbox # <<>>
     /\ mailbox' = Tail(mailbox)
     /\ IF Matches(e, call.wants)
        THEN HandOut(e, stash)
        ELSE /\ Park(e)
             /\ UNCHANGED <<call, filter, mode, taken, discarded, started>>
     /\ UNCHANGED <<closing, produced, lost>>

(* The deadline is a matter of the whole call and tested before every      *)
(* receive: it may pass with events still in the channel.                  *)
TimeOut ==
  /\ call.timeout = "wait"
  /\ call' = NoCall
  /\ UNCHANGED <<mailbox, closing, stash, filter, mode, produced, taken, lost,
                 discarded, started>>

Filtering ==
  /\ mode = "program" /\ call = NoCall
  /\ \/ \E w \in Windows : filter' \in {filter \cup {w}, filter \ {w}}
     \/ filter' = {}
  /\ UNCHANGED <<mailbox, closing, stash, mode, call, produced, taken, lost,
                 discarded, started>>

Discard ==
  /\ mode = "program" /\ call = NoCall
  /\ stash' = <<>>
  /\ discarded' = discarded \cup Numbers(stash)
  /\ UNCHANGED <<mailbox, closing, filter, mode, call, produced, taken, lost,
                 started>>

ProgramReturns ==
  /\ mode = "program" /\ call = NoCall
  /\ mode' = "worker"
  /\ UNCHANGED <<mailbox, closing, stash, filter, call, produced, taken, lost,
                 discarded, started>>

-----------------------------------------------------------------------------
Next ==
  \/ WindowMessage \/ FrameMessage \/ CloseFrame
  \/ WorkerAsks \/ ProgramAsks \/ Receive \/ TimeOut
  \/ Filtering \/ Discard \/ ProgramReturns

Spec == Init /\ [][Next]_vars

(* The language thread is scheduled; a program that runs keeps asking for  *)
(* events.  Of infinitely many calls with a positive timeout some are not  *)
(* over before their first receive, hence SF.  Nothing is assumed of the   *)
(* user, nor of a program's filters.                                       *)
FairSpec ==
  Spec /\ WF_vars(WorkerAsks) /\ WF_vars(ProgramAsks) /\ SF_vars(Receive)

-----------------------------------------------------------------------------
(* Properties.                                                             *)

(* The state of the two threads has the shape the code gives it, and the   *)
(* mailbox its capacity.                                                   *)
TypeOK ==
  /\ mailbox \in Seq(Event) /\ Len(mailbox) <= Capacity
  /\ stash \in Seq(Event) /\ taken \in Seq(Event)
  /\ filter \subseteq Windows
  /\ mode \in {"worker", "program", "done"}
  /\ call \in [wants : SUBSET Windows,
               timeout : {"none", "forever", "wait"}]
  /\ closing \in BOOLEAN
  /\ produced \in 0 .. MaxEvents /\ started \in 0 .. MaxEvents
  /\ lost \subseteq 1 .. produced /\ discarded \subseteq 1 .. produced

(* No event is lost on the way or seen twice: each is in the mailbox, in   *)
(* the stash, taken, dropped at a full mailbox, or discarded on request.   *)
(* A global event is never stashed, so no discard can lose the close of    *)
(* the frame: "a program in a next_event_for loop still sees them".        *)
EventsAccountedFor ==
  LET places == <<Numbers(mailbox), Numbers(stash), Numbers(taken), lost,
                  discarded>>
  IN /\ UNION ToSet(places) = 1 .. produced
     /\ \A i, j \in DOMAIN places : i # j => places[i] \cap places[j] = {}
     /\ Len(mailbox) + Len(stash) + Len(taken)
          = Cardinality(UNION {places[i] : i \in 1 .. 3})
     /\ \A e \in ToSet(stash) : e.window # NoWindow

(* Events of one window are handed out in the order in which they happened,*)
(* whatever mixture of calls, targets and filters takes them out.          *)
WindowOrder ==
  \A i, j \in DOMAIN taken :
    i < j /\ taken[i].window = taken[j].window => taken[i].no < taken[j].no

(* Nothing that happened before the Run that started a program reaches it: *)
(* "starts from a clean state regardless of what the previous run did".    *)
RunIsolated ==
  mode = "program" =>
    \A e \in ToSet(mailbox) \cup ToSet(stash) : e.no > started

(* The close of the frame, once in the mailbox, reaches the program or the *)
(* worker.                                                                 *)
FrameCloseSeen ==
  (\E e \in ToSet(mailbox) : e.kind = "frame_close")
    ~> (\E e \in ToSet(taken) : e.kind = "frame_close")

=============================================================================
