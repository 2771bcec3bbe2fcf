------------------------- MODULE EventMailboxProofs -------------------------
(***************************************************************************)
(* Machine-checked facts about EventMailbox, for any set of windows, any   *)
(* capacity and any number of events: the types, that every event is       *)
(* accounted for, that the events of a window are taken in order, and that *)
(* nothing from before a program's start reaches it.                       *)
(*                                                                         *)
(* The inductive invariant adds what those properties do not say: that     *)
(* the mailbox is younger than the stash and both are in order, that the   *)
(* stash holds only events of windows, that what was taken is older than   *)
(* what waits for the same window, and that a call that waits has already  *)
(* gone through the stash.                                                 *)
(***************************************************************************)
EXTENDS EventMailbox, SequenceFacts, FiniteSetTheorems, FunctionTheorems

(* The events of s are in the order in which they happened.                *)
InOrder(s) == \A i, j \in DOMAIN s : i < j => s[i].no < s[j].no

(* Every event of s happened before every event of t.                      *)
Before(s, t) == \A e \in ToSet(s), f \in ToSet(t) : e.no < f.no

(* The mailbox and the stash are in order, the mailbox behind the stash    *)
(* and behind everything taken.                                            *)
Queued == InOrder(mailbox) /\ InOrder(stash) /\ Before(stash, mailbox)
          /\ Before(taken, mailbox)

(* What waits in the stash for a window is younger than what was taken for *)
(* it.                                                                     *)
StashBehind ==
  \A e \in ToSet(taken), f \in ToSet(stash) :
    e.window = f.window => e.no < f.no

(* Only the events of windows are ever stashed: the others match always.   *)
OnlyWindows ==
  /\ \A e \in ToSet(mailbox) : e.kind # "window" => e.window = NoWindow
  /\ \A e \in ToSet(stash) : e.kind = "window" /\ e.window # NoWindow

(* A call that waits has found nothing in the stash.                       *)
StashSearched ==
  call # NoCall => \A e \in ToSet(stash) : ~Matches(e, call.wants)

(* No number is given out twice.                                           *)
TakenOnce ==
  \A i, j \in DOMAIN taken : i # j => taken[i].no # taken[j].no

(* Every event is in exactly one place.                                    *)
Places ==
  /\ Numbers(mailbox) \cup Numbers(stash) \cup Numbers(taken) \cup lost
       \cup discarded = 1 .. produced
  /\ Numbers(mailbox) \cap (Numbers(stash) \cup Numbers(taken) \cup lost
       \cup discarded) = {}
  /\ Numbers(stash) \cap (Numbers(taken) \cup lost \cup discarded) = {}
  /\ Numbers(taken) \cap (lost \cup discarded) = {}
  /\ lost \cap discarded = {}

Started == started <= produced

IInv ==
  /\ TypeOK /\ Places /\ TakenOnce
  /\ Queued /\ StashBehind /\ WindowOrder
  /\ OnlyWindows /\ StashSearched
  /\ RunIsolated /\ Started

-----------------------------------------------------------------------------
(* The numbers of the events of a sequence.                                *)

LEMMA NumberIff ==
  ASSUME NEW s, NEW n
  PROVE  n \in Numbers(s) <=> \E e \in ToSet(s) : e.no = n
  BY DEF Numbers

LEMMA NumbersEmpty == Numbers(<<>>) = {} /\ ToSet(<<>>) = {}
  BY DEF Numbers, ToSet

LEMMA NumbersAppended ==
  ASSUME NEW s \in Seq(Event), NEW e \in Event
  PROVE  Numbers(Append(s, e)) = Numbers(s) \cup {e.no}
  BY Appended DEF Numbers

LEMMA NumbersBeheaded ==
  ASSUME NEW s \in Seq(Event), s # <<>>
  PROVE  Numbers(s) = {Head(s).no} \cup Numbers(Tail(s))
  BY Beheaded DEF Numbers

LEMMA NumbersRemoved ==
  ASSUME NEW s \in Seq(Event), NEW k \in 1 .. Len(s)
  PROVE  Numbers(s) = {s[k].no} \cup Numbers(RemoveAt(s, k))
  BY Removed DEF Numbers

(* A sequence whose events have different numbers is as long as the set of *)
(* its numbers is big.                                                     *)
LEMMA NumbersCounted ==
  ASSUME NEW s \in Seq(Event),
         \A i, j \in DOMAIN s : i # j => s[i].no # s[j].no
  PROVE  /\ IsFiniteSet(Numbers(s))
         /\ Cardinality(Numbers(s)) = Len(s)
<1> DEFINE f == [i \in 1 .. Len(s) |-> s[i].no]
<1>1. Len(s) \in Nat /\ DOMAIN s = 1 .. Len(s)
  BY LenProperties
<1>2. \A n : n \in Numbers(s) <=> \E i \in 1 .. Len(s) : s[i].no = n
  <2> TAKE n
  <2>1. n \in Numbers(s) <=> \E e \in ToSet(s) : e.no = n
    BY NumberIff
  <2> QED
    BY <2>1, <1>1 DEF ToSet
<1>3. f \in Bijection(1 .. Len(s), Numbers(s))
  <2>1. f \in [1 .. Len(s) -> Numbers(s)]
    BY <1>2
  <2>2. \A i, j \in 1 .. Len(s) : f[i] = f[j] => i = j
    BY <1>1
  <2>3. \A n \in Numbers(s) : \E i \in 1 .. Len(s) : f[i] = n
    BY <1>2
  <2> QED
    BY <2>1, <2>2, <2>3, Fun_IsBij
<1>4. IsFiniteSet(1 .. Len(s)) /\ Cardinality(1 .. Len(s)) = Len(s)
  BY <1>1, FS_Interval
<1> QED
  BY <1>3, <1>4, FS_Bijection DEF ExistsBijection

(* Two finite sets that share nothing count together what they count alone.*)
LEMMA DisjointCounted ==
  ASSUME NEW S, NEW T, IsFiniteSet(S), IsFiniteSet(T), S \cap T = {}
  PROVE  /\ IsFiniteSet(S \cup T)
         /\ Cardinality(S \cup T) = Cardinality(S) + Cardinality(T)
<1>1. /\ IsFiniteSet(S \cup T)
      /\ Cardinality(S \cup T)
           = Cardinality(S) + Cardinality(T) - Cardinality(S \cap T)
  BY FS_Union
<1>2. /\ Cardinality(S) \in Nat /\ Cardinality(T) \in Nat
      /\ Cardinality(S \cap T) = 0
  BY FS_CardinalityType, FS_EmptySet
<1> QED
  BY <1>1, <1>2

-----------------------------------------------------------------------------
(* The order of the events of a sequence.                                  *)

LEMMA OrderAppended ==
  ASSUME NEW s \in Seq(Event), NEW e \in Event,
         InOrder(s), \A f \in ToSet(s) : f.no < e.no
  PROVE  InOrder(Append(s, e))
<1>1. /\ Append(s, e) \in Seq(Event)
      /\ Len(Append(s, e)) = Len(s) + 1
      /\ \A i \in 1 .. Len(s) : Append(s, e)[i] = s[i]
      /\ Append(s, e)[Len(s) + 1] = e
  BY Appended
<1>2. DOMAIN Append(s, e) = 1 .. Len(s) + 1 /\ DOMAIN s = 1 .. Len(s)
      /\ Len(s) \in Nat
  BY <1>1, LenProperties
<1> SUFFICES ASSUME NEW i \in 1 .. Len(s) + 1, NEW j \in 1 .. Len(s) + 1, i < j
             PROVE  Append(s, e)[i].no < Append(s, e)[j].no
  BY <1>2 DEF InOrder
<1>3. i \in 1 .. Len(s) /\ s[i] \in ToSet(s)
  BY <1>2 DEF ToSet
<1>4. CASE j = Len(s) + 1
  BY <1>1, <1>3, <1>4
<1>5. CASE j # Len(s) + 1
  <2>1. j \in 1 .. Len(s)
    BY <1>5, <1>2
  <2> QED
    BY <2>1, <1>1, <1>2, <1>3 DEF InOrder
<1> QED
  BY <1>4, <1>5

LEMMA OrderBeheaded ==
  ASSUME NEW s \in Seq(Event), s # <<>>, InOrder(s)
  PROVE  /\ InOrder(Tail(s))
         /\ \A f \in ToSet(Tail(s)) : Head(s).no < f.no
<1>1. /\ Len(s) \in Nat \ {0}
      /\ Head(s) = s[1]
      /\ Tail(s) \in Seq(Event) /\ Len(Tail(s)) = Len(s) - 1
      /\ \A i \in 1 .. Len(s) - 1 : Tail(s)[i] = s[i + 1]
  BY Beheaded
<1>2. DOMAIN s = 1 .. Len(s) /\ DOMAIN Tail(s) = 1 .. Len(s) - 1
  BY <1>1, LenProperties
<1>3. \A i \in 1 .. Len(s) - 1 : i + 1 \in 1 .. Len(s) /\ 1 < i + 1
  BY <1>1
<1>4. \A i, j \in 1 .. Len(s) - 1 : i < j => Tail(s)[i].no < Tail(s)[j].no
  <2> TAKE i, j \in 1 .. Len(s) - 1
  <2>1. i < j => i + 1 < j + 1
    BY <1>1
  <2> QED
    BY <2>1, <1>1, <1>2, <1>3 DEF InOrder
<1>5. \A f \in ToSet(Tail(s)) : Head(s).no < f.no
  <2> TAKE f \in ToSet(Tail(s))
  <2>1. PICK i \in 1 .. Len(s) - 1 : f = Tail(s)[i]
    BY <1>2 DEF ToSet
  <2>2. 1 \in DOMAIN s /\ i + 1 \in DOMAIN s /\ 1 < i + 1 /\ f = s[i + 1]
    BY <2>1, <1>1, <1>2, <1>3
  <2> QED
    BY <2>2, <1>1 DEF InOrder
<1> QED
  BY <1>2, <1>4, <1>5 DEF InOrder

LEMMA OrderRemoved ==
  ASSUME NEW s \in Seq(Event), NEW k \in 1 .. Len(s), InOrder(s)
  PROVE  /\ InOrder(RemoveAt(s, k))
         /\ \A f \in ToSet(RemoveAt(s, k)) :
              \E j \in 1 .. Len(s) : j # k /\ f = s[j]
<1> DEFINE r == RemoveAt(s, k)
           back(i) == IF i < k THEN i ELSE i + 1
<1>1. /\ r \in Seq(Event) /\ Len(r) = Len(s) - 1
      /\ \A i \in 1 .. Len(s) - 1 : r[i] = IF i < k THEN s[i] ELSE s[i + 1]
  BY Removed
<1> HIDE DEF r
<1>2. /\ DOMAIN s = 1 .. Len(s) /\ DOMAIN r = 1 .. Len(s) - 1
      /\ Len(s) \in Nat
  BY <1>1, LenProperties
<1>3. \A i \in 1 .. Len(s) - 1 :
        back(i) \in 1 .. Len(s) /\ back(i) # k /\ r[i] = s[back(i)]
  BY <1>1, <1>2
<1>4. \A i, j \in 1 .. Len(s) - 1 : i < j => back(i) < back(j)
  BY <1>2
<1> HIDE DEF back
<1>5. InOrder(r)
  BY <1>2, <1>3, <1>4 DEF InOrder
<1>6. \A f \in ToSet(r) : \E j \in 1 .. Len(s) : j # k /\ f = s[j]
  BY <1>2, <1>3 DEF ToSet
<1> QED
  BY <1>5, <1>6 DEF r

-----------------------------------------------------------------------------
(* The steps.                                                              *)

LEMMA IInvInit == Init => IInv
<1> SUFFICES ASSUME Init
             PROVE  IInv
  OBVIOUS
<1> USE DEF Init
<1>1. mailbox \in Seq(Event) /\ stash \in Seq(Event) /\ taken \in Seq(Event)
  BY EmptySeq
<1>2. TypeOK
  <2>1. Len(mailbox) <= Capacity
    BY EmptySeq, MailboxAssumption
  <2>2. call \in [wants : SUBSET Windows, timeout : {"none", "forever", "wait"}]
    BY DEF NoCall
  <2>3. /\ produced \in 0 .. MaxEvents /\ started \in 0 .. MaxEvents
        /\ lost \subseteq 1 .. produced /\ discarded \subseteq 1 .. produced
    BY MailboxAssumption
  <2> QED
    BY <1>1, <2>1, <2>2, <2>3 DEF TypeOK
<1>3. Places
  BY NumbersEmpty DEF Places
<1>4. DOMAIN mailbox = {} /\ DOMAIN stash = {} /\ DOMAIN taken = {}
  BY <1>1, LenProperties, EmptySeq
<1> QED
  BY <1>2, <1>3, <1>4, NumbersEmpty
     DEF IInv, TakenOnce, Queued, InOrder, Before, StashBehind, WindowOrder,
         OnlyWindows, StashSearched, RunIsolated, Started

(* What the invariant says of the numbers of queued events.                *)
LEMMA NumbersProduced ==
  ASSUME IInv
  PROVE  /\ produced \in Nat
         /\ \A e \in ToSet(mailbox) \cup ToSet(stash) \cup ToSet(taken) :
              e \in Event /\ e.no \in 1 .. produced
<1>1. produced \in Nat
  BY MailboxAssumption DEF IInv, TypeOK
<1> mailbox \in Seq(Event) /\ stash \in Seq(Event) /\ taken \in Seq(Event)
  BY DEF IInv, TypeOK
<1>2. ASSUME NEW s \in Seq(Event)
      PROVE  \A e \in ToSet(s) : e \in Event /\ e.no \in Numbers(s)
  <2>1. \A e \in ToSet(s) : e \in Event
    BY ElementsOf, ElementIff
  <2> QED
    BY <2>1 DEF Numbers
<1>3. /\ \A e \in ToSet(mailbox) : e \in Event /\ e.no \in Numbers(mailbox)
      /\ \A e \in ToSet(stash) : e \in Event /\ e.no \in Numbers(stash)
      /\ \A e \in ToSet(taken) : e \in Event /\ e.no \in Numbers(taken)
  BY <1>2
<1> QED
  BY <1>1, <1>3 DEF IInv, Places

(* An event that happens gets a number of its own, and the mailbox or the  *)
(* losses.                                                                 *)
LEMMA PushKeeps ==
  ASSUME IInv, NEW kind \in Kinds, NEW window \in Windows \cup {NoWindow},
         kind # "window" => window = NoWindow,
         Push(kind, window), closing' \in BOOLEAN,
         UNCHANGED <<stash, filter, mode, call, taken, discarded, started>>
  PROVE  IInv'
<1> DEFINE e == [no |-> produced + 1, kind |-> kind, window |-> window]
<1>1. /\ produced \in Nat /\ produced < MaxEvents /\ MaxEvents \in Nat
      /\ produced' = produced + 1
      /\ e \in Event /\ e.no = produced + 1
      /\ e.kind = kind /\ e.window = window
  BY NumbersProduced, MailboxAssumption DEF Push, Event
<1>2. \/ /\ Len(mailbox) < Capacity
         /\ mailbox' = Append(mailbox, e) /\ lost' = lost
      \/ mailbox' = mailbox /\ lost' = lost \cup {e.no}
  BY DEF Push
<1> HIDE DEF e
<1>3. /\ mailbox \in Seq(Event) /\ Len(mailbox) \in Nat
      /\ Len(mailbox) <= Capacity /\ Capacity \in Nat
  BY LenProperties, MailboxAssumption DEF IInv, TypeOK
<1>4. \A f \in ToSet(mailbox) \cup ToSet(stash) \cup ToSet(taken) :
        f \in Event /\ f.no \in 1 .. produced /\ f.no < e.no
  BY <1>1, NumbersProduced
<1>5. /\ mailbox' \in Seq(Event) /\ Len(mailbox') <= Capacity
      /\ ToSet(mailbox') \subseteq ToSet(mailbox) \cup {e}
      /\ InOrder(mailbox')
  <2>1. InOrder(mailbox)
    BY DEF IInv, Queued
  <2>2. CASE mailbox' = Append(mailbox, e) /\ Len(mailbox) < Capacity
    <3>1. /\ Append(mailbox, e) \in Seq(Event)
          /\ Len(Append(mailbox, e)) = Len(mailbox) + 1
          /\ ToSet(Append(mailbox, e)) = ToSet(mailbox) \cup {e}
      BY <1>1, <1>3, Appended
    <3>2. InOrder(Append(mailbox, e))
      BY <1>1, <1>3, <1>4, <2>1, OrderAppended
    <3> QED
      BY <2>2, <3>1, <3>2, <1>3
  <2> QED
    BY <1>2, <1>3, <2>1, <2>2 DEF InOrder
<1>6. /\ Numbers(mailbox') \cup lost'
           = Numbers(mailbox) \cup lost \cup {produced + 1}
      /\ Numbers(mailbox') \cap lost' = {}
      /\ 1 .. produced' = (1 .. produced) \cup {produced + 1}
      /\ produced + 1 \notin 1 .. produced
  <2>1. Numbers(mailbox) \cap lost = {}
        /\ Numbers(mailbox) \subseteq 1 .. produced /\ lost \subseteq 1 .. produced
    BY DEF IInv, Places
  <2>2. 1 .. produced' = (1 .. produced) \cup {produced + 1}
        /\ produced + 1 \notin 1 .. produced
    BY <1>1
  <2>3. \/ /\ Numbers(mailbox') = Numbers(mailbox) \cup {produced + 1}
           /\ lost' = lost
        \/ /\ Numbers(mailbox') = Numbers(mailbox)
           /\ lost' = lost \cup {produced + 1}
    BY <1>1, <1>2, <1>3, NumbersAppended
  <2> QED
    BY <2>1, <2>2, <2>3
<1>7. TypeOK'
  <2>1. lost' \subseteq 1 .. produced' /\ discarded' \subseteq 1 .. produced'
    <3>1. lost \subseteq 1 .. produced /\ discarded \subseteq 1 .. produced
      BY DEF IInv, TypeOK
    <3> QED
      BY <1>1, <1>2, <1>6, <3>1
  <2> QED
    BY <1>1, <1>5, <2>1 DEF IInv, TypeOK
<1>8. Places'
  <2>1. /\ Numbers(stash)' = Numbers(stash) /\ Numbers(taken)' = Numbers(taken)
        /\ discarded' = discarded /\ Numbers(mailbox)' = Numbers(mailbox')
    BY DEF Numbers
  <2>2. Places
    BY DEF IInv
  <2>3. /\ Numbers(mailbox') \subseteq Numbers(mailbox) \cup {produced + 1}
        /\ lost' \subseteq lost \cup {produced + 1}
    BY <1>1, <1>2, <1>3, NumbersAppended
  <2> QED
    BY <1>6, <2>1, <2>2, <2>3 DEF Places
<1>9. Queued' /\ Started'
  BY <1>1, <1>4, <1>5 DEF IInv, Queued, Before, InOrder, Started, TypeOK
<1>10. OnlyWindows' /\ RunIsolated'
  BY <1>1, <1>5 DEF IInv, OnlyWindows, RunIsolated, Started, TypeOK
<1>11. TakenOnce' /\ StashBehind' /\ WindowOrder' /\ StashSearched'
  BY DEF IInv, TakenOnce, StashBehind, WindowOrder, StashSearched, Matches
<1> QED
  BY <1>7, <1>8, <1>9, <1>10, <1>11 DEF IInv

(* An event that is handed out leaves the queue it was in, oldest of its   *)
(* window; what comes with it (a program starting, the worker ending) does *)
(* not disturb the rest.                                                   *)
LEMMA HandOutKeeps ==
  ASSUME IInv, NEW e \in Event, NEW rest \in Seq(Event), HandOut(e, rest),
         mailbox' \in Seq(Event), Len(mailbox') <= Capacity,
         UNCHANGED <<closing, produced, lost>>,
         ToSet(mailbox') \subseteq ToSet(mailbox),
         ToSet(rest) \subseteq ToSet(stash),
         InOrder(mailbox'), InOrder(rest),
         Numbers(mailbox) \cup Numbers(stash)
           = Numbers(mailbox') \cup Numbers(rest) \cup {e.no},
         e.no \notin Numbers(rest),
         \A f \in ToSet(mailbox') : e.no < f.no,
         \A f \in ToSet(rest) : e.window = f.window => e.no < f.no,
         \A f \in ToSet(taken) : e.window = f.window => f.no < e.no,
         e.kind # "window" => rest = stash
  PROVE  IInv'
<1>1. /\ taken' = Append(taken, e) /\ call' = NoCall
      /\ \/ /\ mode = "worker" /\ e.kind = "run" /\ RunProgram(e)
         \/ /\ stash' = rest /\ UNCHANGED <<filter, discarded, started>>
            /\ mode' = mode \/ mode' = "done"
  BY DEF HandOut
<1>2. /\ stash' \in Seq(Event) /\ InOrder(stash')
      /\ ToSet(stash') \subseteq ToSet(rest)
  <2>1. InOrder(<<>>) /\ <<>> \in Seq(Event) /\ ToSet(<<>>) = {}
    BY EmptySeq, NumbersEmpty DEF InOrder
  <2> QED
    BY <1>1, <2>1 DEF RunProgram
<1>3. /\ taken \in Seq(Event) /\ taken' \in Seq(Event)
      /\ Len(taken) \in Nat /\ Len(taken') = Len(taken) + 1
      /\ DOMAIN taken = 1 .. Len(taken)
      /\ DOMAIN taken' = 1 .. Len(taken) + 1
      /\ \A i \in 1 .. Len(taken) : taken'[i] = taken[i]
      /\ taken'[Len(taken) + 1] = e
      /\ ToSet(taken') = ToSet(taken) \cup {e}
      /\ Numbers(taken') = Numbers(taken) \cup {e.no}
  <2>1. taken \in Seq(Event)
    BY DEF IInv, TypeOK
  <2> QED
    BY <1>1, <2>1, Appended, NumbersAppended, LenProperties
<1>4. /\ produced \in Nat
      /\ \A f \in ToSet(mailbox) \cup ToSet(stash) \cup ToSet(taken) :
           f \in Event /\ f.no \in 1 .. produced
  BY NumbersProduced
<1>5. e.no \in 1 .. produced /\ e.no \notin Numbers(taken)
      /\ e.no \notin Numbers(mailbox') /\ e.no \notin lost \cup discarded
  <2>1. e.no \in Numbers(mailbox) \cup Numbers(stash)
    OBVIOUS
  <2>2. e.no \notin Numbers(mailbox')
    BY <1>4 DEF Numbers, Event
  <2> QED
    BY <2>1, <2>2 DEF IInv, Places
<1>6. /\ discarded' \cup Numbers(stash') = discarded \cup Numbers(rest)
      /\ discarded' \cap Numbers(stash') = {}
      /\ discarded \subseteq discarded'
  <2>1. CASE RunProgram(e) /\ e.kind = "run"
    BY <2>1, NumbersEmpty DEF RunProgram
  <2>2. CASE stash' = rest /\ UNCHANGED discarded
    <3>1. Numbers(rest) \subseteq Numbers(stash)
      BY DEF Numbers
    <3> QED
      BY <2>2, <3>1 DEF IInv, Places
  <2> QED
    BY <1>1, <2>1, <2>2
<1>7. Places'
  <2>1. /\ Numbers(stash)' = Numbers(stash') /\ Numbers(taken)' = Numbers(taken')
        /\ Numbers(mailbox)' = Numbers(mailbox')
    BY DEF Numbers
  <2>2. Numbers(mailbox') \subseteq Numbers(mailbox)
        /\ Numbers(rest) \subseteq Numbers(stash)
    BY DEF Numbers
  <2>3. Places
    BY DEF IInv
  <2> QED
    BY <1>3, <1>5, <1>6, <2>1, <2>2, <2>3 DEF Places
<1>8. TypeOK'
  <2>1. discarded' \subseteq 1 .. produced' /\ lost' \subseteq 1 .. produced'
    BY <1>7 DEF Places
  <2>2. started' \in 0 .. MaxEvents
    BY <1>1 DEF RunProgram, Event, IInv, TypeOK
  <2> QED
    BY <1>1, <1>2, <1>3, <2>1, <2>2
       DEF IInv, TypeOK, RunProgram, NoCall
<1>9. TakenOnce' /\ WindowOrder'
  <2>1. \A i \in 1 .. Len(taken) :
          taken[i].no # e.no /\ (taken[i].window = e.window => taken[i].no < e.no)
    BY <1>3, <1>5 DEF Numbers, ToSet
  <2>2. \A i \in 1 .. Len(taken) + 1 : i \in 1 .. Len(taken) \/ i = Len(taken) + 1
    BY <1>3
  <2>3. TakenOnce'
    BY <1>3, <2>1, <2>2 DEF IInv, TakenOnce
  <2>4. ASSUME NEW i \in 1 .. Len(taken) + 1, NEW j \in 1 .. Len(taken) + 1,
               i < j, taken'[i].window = taken'[j].window
        PROVE  taken'[i].no < taken'[j].no
    <3>1. i \in 1 .. Len(taken) /\ taken'[i] = taken[i]
      BY <2>4, <1>3
    <3>2. CASE j \in 1 .. Len(taken)
      BY <2>4, <3>1, <3>2, <1>3 DEF IInv, WindowOrder
    <3>3. CASE j = Len(taken) + 1
      BY <2>4, <3>1, <3>3, <1>3, <2>1
    <3> QED
      BY <2>2, <3>2, <3>3
  <2>5. WindowOrder'
    BY <1>3, <2>4 DEF WindowOrder
  <2> QED
    BY <2>3, <2>5
<1>10. Queued' /\ StashBehind'
  <2>1. \A f \in ToSet(stash'), g \in ToSet(mailbox') : f.no < g.no
    BY <1>2 DEF IInv, Queued, Before
  <2>2. \A f \in ToSet(taken'), g \in ToSet(mailbox') : f.no < g.no
    BY <1>3 DEF IInv, Queued, Before
  <2>3. \A f \in ToSet(taken'), g \in ToSet(stash') :
          f.window = g.window => f.no < g.no
    BY <1>2, <1>3 DEF IInv, StashBehind
  <2> QED
    BY <1>2, <2>1, <2>2, <2>3 DEF Queued, StashBehind, Before, InOrder
<1>11. OnlyWindows' /\ StashSearched'
  BY <1>1, <1>2 DEF IInv, OnlyWindows, StashSearched
<1>12. RunIsolated' /\ Started'
  <2>1. CASE RunProgram(e)
    BY <2>1, <1>4, <1>5, NumbersEmpty DEF RunProgram, RunIsolated, Started
  <2>2. CASE stash' = rest /\ UNCHANGED started /\ (mode' = mode \/ mode' = "done")
    BY <2>2, <1>4 DEF IInv, RunIsolated, Started
  <2> QED
    BY <1>1, <2>1, <2>2
<1> QED
  BY <1>7, <1>8, <1>9, <1>10, <1>11, <1>12 DEF IInv

(* A call hands out the first event of the stash that it matches, or looks *)
(* at the channel next.                                                    *)
LEMMA AskKeeps ==
  ASSUME IInv, NEW wants \in SUBSET Windows, NEW timeout \in {"forever", "wait", "poll"},
         Ask(wants, timeout)
  PROVE  IInv'
<1> DEFINE hits == {i \in DOMAIN stash : Matches(stash[i], wants)}
           k    == Min(hits)
           e    == stash[k]
           rest == RemoveAt(stash, k)
<1>1. stash \in Seq(Event) /\ DOMAIN stash = 1 .. Len(stash) /\ Len(stash) \in Nat
      /\ taken \in Seq(Event) /\ mailbox \in Seq(Event) /\ Len(mailbox) <= Capacity
  BY LenProperties DEF IInv, TypeOK
<1>2. /\ UNCHANGED <<mailbox, closing, produced, lost>>
      /\ \/ hits # {} /\ HandOut(e, rest)
         \/ /\ hits = {}
            /\ call' = IF timeout = "poll" THEN NoCall
                       ELSE [wants |-> wants, timeout |-> timeout]
            /\ UNCHANGED <<stash, filter, mode, taken, discarded, started>>
  BY DEF Ask
<1>3. ASSUME hits # {}, HandOut(e, rest)
      PROVE  IInv'
  <2>1. k \in hits /\ \A i \in hits : k <= i
    <3>1. hits \in SUBSET Nat
      BY <1>1
    <3> HIDE DEF hits
    <3> QED
      BY <3>1, <1>3, MinIsLeast
  <2> HIDE DEF hits, k
  <2>2. /\ k \in 1 .. Len(stash) /\ e \in Event /\ e \in ToSet(stash)
        /\ Matches(e, wants)
    BY <1>1, <2>1, ElementsOf DEF hits, ToSet
  <2>3. /\ rest \in Seq(Event) /\ InOrder(rest)
        /\ ToSet(stash) = {e} \cup ToSet(rest)
        /\ Numbers(stash) = {e.no} \cup Numbers(rest)
        /\ \A f \in ToSet(rest) : \E j \in 1 .. Len(stash) : j # k /\ f = stash[j]
    BY <1>1, <2>2, Removed, OrderRemoved, NumbersRemoved DEF IInv, Queued
  <2>4. \A f \in ToSet(rest) :
          f.no # e.no /\ (e.window = f.window => e.no < f.no)
    <3> TAKE f \in ToSet(rest)
    <3>1. PICK j \in 1 .. Len(stash) : j # k /\ f = stash[j]
      BY <2>3
    <3>2. (j < k => f.no < e.no) /\ (k < j => e.no < f.no)
      BY <1>1, <2>2, <3>1 DEF IInv, Queued, InOrder
    <3>3. e.no \in Nat /\ f.no \in Nat /\ (j < k \/ k < j)
      <4>1. e \in Event /\ stash[j] \in Event
        BY <1>1, <2>2, ElementsOf
      <4>2. e.no \in Nat /\ stash[j].no \in Nat
        BY <4>1 DEF Event
      <4> QED
        BY <2>2, <3>1, <4>2
    <3>4. e.window = f.window => k <= j
      BY <1>1, <2>1, <2>2, <3>1 DEF hits, Matches
    <3> QED
      BY <1>1, <2>2, <3>2, <3>3, <3>4
  <2>5. /\ e.no \notin Numbers(rest) /\ e.kind = "window"
        /\ Numbers(mailbox') = Numbers(mailbox)
    BY <1>2, <2>2, <2>4 DEF Numbers, IInv, OnlyWindows
  <2>6. /\ \A f \in ToSet(mailbox) : e.no < f.no
        /\ \A f \in ToSet(taken) : e.window = f.window => f.no < e.no
    BY <2>2 DEF IInv, Queued, Before, StashBehind
  <2>7. InOrder(mailbox)
    BY DEF IInv, Queued
  <2> HIDE DEF e, rest
  <2> QED
    BY <1>1, <1>2, <1>3, <2>2, <2>3, <2>4, <2>5, <2>6, <2>7, HandOutKeeps
<1>4. ASSUME hits = {},
             call' = IF timeout = "poll" THEN NoCall
                     ELSE [wants |-> wants, timeout |-> timeout],
             UNCHANGED <<stash, filter, mode, taken, discarded, started>>
      PROVE  IInv'
  <2>1. TypeOK'
    <3>1. call' \in [wants : SUBSET Windows, timeout : {"none", "forever", "wait"}]
      BY <1>4 DEF NoCall
    <3> QED
      BY <1>2, <1>4, <3>1 DEF IInv, TypeOK
  <2>2. \A f \in ToSet(stash) : ~Matches(f, wants)
    BY <1>4 DEF ToSet
  <2>3. StashSearched'
    BY <1>4, <2>2 DEF StashSearched, Matches
  <2> QED
    BY <1>2, <1>4, <2>1, <2>3, SMTT(30)
       DEF IInv, Places, Numbers, TakenOnce, Queued, Before, InOrder, StashBehind,
           WindowOrder, OnlyWindows, RunIsolated, Started
<1> QED
  BY <1>2, <1>3, <1>4

(* The event at the head of the mailbox is handed out, or parked behind    *)
(* the stash.                                                              *)
LEMMA ReceiveKeeps == IInv /\ Receive => IInv'
<1> SUFFICES ASSUME IInv, Receive
             PROVE  IInv'
  OBVIOUS
<1> DEFINE e == Head(mailbox)
<1>1. /\ call # NoCall /\ mailbox # <<>> /\ mailbox' = Tail(mailbox)
      /\ UNCHANGED <<closing, produced, lost>>
      /\ \/ Matches(e, call.wants) /\ HandOut(e, stash)
         \/ /\ ~Matches(e, call.wants) /\ stash' = Append(stash, e)
            /\ UNCHANGED <<call, filter, mode, taken, discarded, started>>
  BY DEF Receive, Park
<1>2. /\ mailbox \in Seq(Event) /\ stash \in Seq(Event) /\ taken \in Seq(Event)
      /\ InOrder(mailbox) /\ InOrder(stash) /\ Len(mailbox) <= Capacity
      /\ Capacity \in Nat
  BY MailboxAssumption DEF IInv, TypeOK, Queued
<1>3. /\ e \in Event /\ e \in ToSet(mailbox)
      /\ Tail(mailbox) \in Seq(Event) /\ Len(Tail(mailbox)) <= Capacity
      /\ ToSet(mailbox) = {e} \cup ToSet(Tail(mailbox))
      /\ Numbers(mailbox) = {e.no} \cup Numbers(Tail(mailbox))
      /\ InOrder(Tail(mailbox))
      /\ \A f \in ToSet(Tail(mailbox)) : e.no < f.no
  BY <1>1, <1>2, Beheaded, NumbersBeheaded, OrderBeheaded
<1> HIDE DEF e
<1>4. /\ \A f \in ToSet(stash) : f.no < e.no
      /\ \A f \in ToSet(taken) : f.no < e.no
      /\ e.no \notin Numbers(stash)
      /\ e.kind # "window" => e.window = NoWindow
  BY <1>3 DEF IInv, Queued, Before, OnlyWindows, Places
<1>5. ASSUME Matches(e, call.wants), HandOut(e, stash)
      PROVE  IInv'
  <2>1. \A f \in ToSet(stash) : e.window # f.window
    BY <1>1, <1>5 DEF IInv, OnlyWindows, StashSearched, Matches
  <2> QED
    BY <1>1, <1>2, <1>3, <1>4, <1>5, <2>1, HandOutKeeps
<1>6. ASSUME ~Matches(e, call.wants), stash' = Append(stash, e),
             UNCHANGED <<call, filter, mode, taken, discarded, started>>
      PROVE  IInv'
  <2>1. /\ stash' \in Seq(Event) /\ InOrder(stash')
        /\ ToSet(stash') = ToSet(stash) \cup {e}
        /\ Numbers(stash') = Numbers(stash) \cup {e.no}
    BY <1>2, <1>3, <1>4, <1>6, Appended, OrderAppended, NumbersAppended
  <2>2. TypeOK'
    BY <1>1, <1>3, <1>6, <2>1 DEF IInv, TypeOK
  <2>3. Places'
    <3>1. e.no \notin Numbers(Tail(mailbox))
      BY <1>3 DEF Numbers, Event
    <3>2. /\ Numbers(stash)' = Numbers(stash') /\ Numbers(taken)' = Numbers(taken)
          /\ Numbers(mailbox)' = Numbers(Tail(mailbox))
      BY <1>1, <1>6 DEF Numbers
    <3> QED
      BY <1>1, <1>3, <1>6, <2>1, <3>1, <3>2 DEF IInv, Places
  <2>4. Queued' /\ StashBehind'
    <3>1. \A f \in ToSet(stash'), g \in ToSet(mailbox') : f.no < g.no
      BY <1>1, <1>3, <2>1 DEF IInv, Queued, Before
    <3>2. \A f \in ToSet(taken), g \in ToSet(mailbox') : f.no < g.no
      BY <1>1, <1>3 DEF IInv, Queued, Before
    <3>3. \A f \in ToSet(taken), g \in ToSet(stash') :
            f.window = g.window => f.no < g.no
      BY <1>4, <2>1 DEF IInv, StashBehind
    <3> QED
      BY <1>1, <1>3, <1>6, <2>1, <3>1, <3>2, <3>3
         DEF Queued, StashBehind, Before, InOrder
  <2>5. OnlyWindows' /\ StashSearched' /\ RunIsolated'
    BY <1>1, <1>3, <1>4, <1>6, <2>1
       DEF IInv, OnlyWindows, StashSearched, RunIsolated, Matches
  <2> QED
    BY <1>1, <1>6, <2>2, <2>3, <2>4, <2>5
       DEF IInv, TakenOnce, WindowOrder, Started
<1> QED
  BY <1>1, <1>5, <1>6

(* Discarding moves the numbers of the stash to the discarded.             *)
LEMMA DiscardKeeps == IInv /\ Discard => IInv'
<1> SUFFICES ASSUME IInv, Discard
             PROVE  IInv'
  OBVIOUS
<1>1. /\ stash' = <<>> /\ discarded' = discarded \cup Numbers(stash)
      /\ UNCHANGED <<mailbox, closing, filter, mode, call, produced, taken, lost,
                     started>>
  BY DEF Discard
<1>2. /\ stash' \in Seq(Event) /\ ToSet(stash') = {} /\ Numbers(stash') = {}
      /\ InOrder(stash')
  BY <1>1, EmptySeq, NumbersEmpty DEF InOrder
<1>3. Numbers(stash) \subseteq 1 .. produced
  BY DEF IInv, Places
<1>4. TypeOK'
  BY <1>1, <1>2, <1>3 DEF IInv, TypeOK
<1>5. Places'
  <2>1. /\ Numbers(stash)' = {} /\ Numbers(taken)' = Numbers(taken)
        /\ Numbers(mailbox)' = Numbers(mailbox)
    BY <1>1, <1>2 DEF Numbers
  <2> QED
    BY <1>1, <2>1 DEF IInv, Places
<1> QED
  BY <1>1, <1>2, <1>4, <1>5
     DEF IInv, TakenOnce, Queued, Before, InOrder, StashBehind, WindowOrder,
         OnlyWindows, StashSearched, RunIsolated, Started

LEMMA IInvNext == IInv /\ [Next]_vars => IInv'
<1> SUFFICES ASSUME IInv, [Next]_vars
             PROVE  IInv'
  OBVIOUS
<1>1. CASE WindowMessage
  <2>1. PICK w \in Windows : Push("window", w)
    BY <1>1 DEF WindowMessage
  <2>2. closing' \in BOOLEAN
        /\ UNCHANGED <<stash, filter, mode, call, taken, discarded, started>>
    BY <1>1 DEF WindowMessage, IInv, TypeOK
  <2> QED
    BY <2>1, <2>2, PushKeeps DEF Kinds
<1>2. CASE FrameMessage
  <2>1. PICK kind \in {"run", "global"} : Push(kind, NoWindow)
    BY <1>2 DEF FrameMessage
  <2>2. closing' \in BOOLEAN
        /\ UNCHANGED <<stash, filter, mode, call, taken, discarded, started>>
    BY <1>2 DEF FrameMessage, IInv, TypeOK
  <2> QED
    BY <2>1, <2>2, PushKeeps DEF Kinds
<1>3. CASE CloseFrame
  <2>1. Push("frame_close", NoWindow) /\ closing' \in BOOLEAN
        /\ UNCHANGED <<stash, filter, mode, call, taken, discarded, started>>
    BY <1>3 DEF CloseFrame
  <2> QED
    BY <2>1, PushKeeps DEF Kinds
<1>4. Wanted \in SUBSET Windows
  BY DEF Wanted, IInv, TypeOK
<1>5. CASE WorkerAsks
  BY <1>4, <1>5, AskKeeps DEF WorkerAsks
<1>6. CASE ProgramAsks
  <2>1. PICK timeout \in Timeouts, wants \in {Wanted} \cup {{w} : w \in Windows} :
          Ask(wants, timeout)
    BY <1>6 DEF ProgramAsks
  <2>2. wants \in SUBSET Windows /\ timeout \in {"forever", "wait", "poll"}
    BY <1>4, MailboxAssumption
  <2> QED
    BY <2>1, <2>2, AskKeeps
<1>7. CASE Receive
  BY <1>7, ReceiveKeeps
<1>8. CASE Discard
  BY <1>8, DiscardKeeps
<1>9. CASE TimeOut \/ Filtering \/ ProgramReturns \/ UNCHANGED vars
  <2>1. /\ UNCHANGED <<mailbox, closing, stash, produced, taken, lost, discarded,
                       started>>
        /\ filter' \subseteq Windows /\ mode' \in {mode, "worker"}
        /\ call' \in {call, NoCall}
    BY <1>9 DEF TimeOut, Filtering, ProgramReturns, vars, IInv, TypeOK
  <2>2. NoCall \in [wants : SUBSET Windows, timeout : {"none", "forever", "wait"}]
    BY DEF NoCall
  <2>3. TypeOK'
    BY <2>1, <2>2 DEF IInv, TypeOK
  <2>4. Places'
    BY <2>1 DEF IInv, Places, Numbers
  <2> QED
    BY <2>1, <2>3, <2>4
       DEF IInv, TakenOnce, Queued, Before, InOrder, StashBehind, WindowOrder,
           OnlyWindows, StashSearched, RunIsolated, Started, Matches
<1> QED
  BY <1>1, <1>2, <1>3, <1>5, <1>6, <1>7, <1>8, <1>9 DEF Next

LEMMA IInvHolds == Spec => []IInv
  BY IInvInit, IInvNext, PTL DEF Spec

-----------------------------------------------------------------------------
(* The theorems.                                                           *)

(* The mailbox keeps its capacity and every variable of the two threads    *)
(* its type, whatever they do in whatever order.                           *)
THEOREM TypesHold == Spec => []TypeOK
  BY IInvHolds, PTL DEF IInv

(* Each event that was produced is in the mailbox, in the stash, taken,    *)
(* lost at a full mailbox or discarded on request, in one of them and once,*)
(* and no event of the frame is ever where a discard could lose it.        *)
THEOREM NothingLostOrDoubled == Spec => []EventsAccountedFor
<1>1. IInv => EventsAccountedFor
  <2> SUFFICES ASSUME IInv
               PROVE  EventsAccountedFor
    OBVIOUS
  <2> DEFINE places == <<Numbers(mailbox), Numbers(stash), Numbers(taken), lost,
                         discarded>>
  <2>1. /\ mailbox \in Seq(Event) /\ stash \in Seq(Event) /\ taken \in Seq(Event)
        /\ InOrder(mailbox) /\ InOrder(stash) /\ TakenOnce /\ Places
    BY DEF IInv, TypeOK, Queued
  <2>2. UNION ToSet(places)
          = Numbers(mailbox) \cup Numbers(stash) \cup Numbers(taken) \cup lost
              \cup discarded
    BY DEF ToSet
  <2>3. \A i, j \in DOMAIN places : i # j => places[i] \cap places[j] = {}
    BY <2>1 DEF Places
  <2>4. UNION {places[i] : i \in 1 .. 3}
          = (Numbers(mailbox) \cup Numbers(stash)) \cup Numbers(taken)
    OBVIOUS
  <2>5. /\ IsFiniteSet(Numbers(mailbox)) /\ Cardinality(Numbers(mailbox)) = Len(mailbox)
        /\ IsFiniteSet(Numbers(stash)) /\ Cardinality(Numbers(stash)) = Len(stash)
        /\ IsFiniteSet(Numbers(taken)) /\ Cardinality(Numbers(taken)) = Len(taken)
    <3>1. ASSUME NEW s \in Seq(Event), InOrder(s)
          PROVE  \A i, j \in DOMAIN s : i # j => s[i].no # s[j].no
      <4>1. DOMAIN s = 1 .. Len(s) /\ Len(s) \in Nat
        BY LenProperties
      <4>2. \A i \in DOMAIN s : s[i].no \in Nat
        <5>1. \A i \in DOMAIN s : s[i] \in Event
          BY <4>1, ElementsOf
        <5> QED
          BY <5>1 DEF Event
      <4> QED
        BY <3>1, <4>1, <4>2 DEF InOrder
    <3> QED
      BY <2>1, <3>1, NumbersCounted DEF TakenOnce
  <2>6. Cardinality((Numbers(mailbox) \cup Numbers(stash)) \cup Numbers(taken))
          = Len(mailbox) + Len(stash) + Len(taken)
    <3> DEFINE M == Numbers(mailbox)
               S == Numbers(stash)
               K == Numbers(taken)
    <3>1. M \cap S = {} /\ (M \cup S) \cap K = {}
      BY <2>1 DEF Places
    <3>2. IsFiniteSet(M) /\ IsFiniteSet(S) /\ IsFiniteSet(K)
      BY <2>5
    <3> HIDE DEF M, S, K
    <3>3. IsFiniteSet(M \cup S) /\ Cardinality(M \cup S) = Cardinality(M) + Cardinality(S)
      BY <3>1, <3>2, DisjointCounted
    <3>4. Cardinality((M \cup S) \cup K) = Cardinality(M \cup S) + Cardinality(K)
      BY <3>1, <3>2, <3>3, DisjointCounted
    <3> QED
      BY <3>3, <3>4, <2>5 DEF M, S, K
  <2>7. \A e \in ToSet(stash) : e.window # NoWindow
    BY DEF IInv, OnlyWindows
  <2> HIDE DEF places
  <2> QED
    BY <2>1, <2>2, <2>3, <2>4, <2>6, <2>7 DEF EventsAccountedFor, Places, places
<1> QED
  BY <1>1, IInvHolds, PTL

(* Events of one window are taken in the order in which they happened,     *)
(* whatever calls, targets, timeouts and filters take them.                *)
THEOREM WindowsInOrder == Spec => []WindowOrder
  BY IInvHolds, PTL DEF IInv

(* While a program runs, nothing older than the Run that started it waits  *)
(* for it.                                                                 *)
THEOREM ProgramsStartClean == Spec => []RunIsolated
  BY IInvHolds, PTL DEF IInv

=============================================================================
