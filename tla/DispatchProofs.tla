--------------------------- MODULE DispatchProofs ---------------------------
(***************************************************************************)
(* The scheduler core is safe for every set of services, every number of   *)
(* worker and sending threads and every number of messages: a queue has    *)
(* one owner, nothing is used after it was freed but for the launcher's    *)
(* last uses of a service that was retired meanwhile, and messages of one  *)
(* sender arrive in order.                                                 *)
(*                                                                         *)
(* None of the three is inductive.  That a queue has one owner depends on  *)
(* in_global telling the truth about queues that are alive, which depends  *)
(* on nobody pushing to a deleted service, which depends on the reference  *)
(* counts being exact, which in turn are kept by owners.  Inv is the       *)
(* conjunction of all of that.                                             *)
(***************************************************************************)
EXTENDS Dispatch, FiniteSetTheorems, TLAPS

Busy == {"first", "length", "more", "cb", "next", "back"} \cup LaunchLabels
Distinct(s) == \A i, j \in DOMAIN s : s[i] = s[j] => i = j

\* The local variables a thread has at each label; a service is launched by
\* one thread, a batch goes on only while messages are left in it, and a queue
\* is dropped only when its service is deleted.
Local ==
    \A t \in Thread :
       /\ t \in Ext <=> pc[t] = "ext"
       /\ hand[t] # None <=> pc[t] \in DispatchLabels \cup LaunchLabels
       /\ nxt[t] # None <=> pc[t] = "back"
       /\ new[t] # None <=> pc[t] \in LaunchLabels
       /\ call[t] # "none" => arg[t] \in Ctx
       /\ nxt[t] # None => hand[t] # nxt[t]
       /\ new[t] # None => hand[t] # new[t]
       /\ pc[t] \in {"create", "setinit"} => call[t] = "none"
       /\ \A u \in Thread : new[t] # None /\ new[t] = new[u] => t = u
       /\ pc[t] = "more" => left[t] > 0
       /\ pc[t] = "drop" => release[hand[t]]
       /\ pc[t] = "fdrop" => release[new[t]]

\* A queue is listed once or held by one thread, never both.
Owned ==
    /\ Distinct(gq)
    /\ \A c \in Listed, t \in Thread : ~Holds(t, c)
    /\ \A t, u \in Thread, c \in Ctx : Holds(t, c) /\ Holds(u, c) => t = u

\* in_global is right about queues of living services, and a queue somebody
\* has to look at is listed or held.
Flagged ==
    /\ \A c \in Ctx : c \in Listed => inGlobal[c] \/ release[c]
    /\ \A t \in Thread, c \in Ctx : Holds(t, c) => inGlobal[c] \/ release[c]
    /\ \A c \in Ctx :
          qmem[c] = "live" /\ (box[c] # << >> \/ inGlobal[c] \/ release[c]) =>
             c \in Listed \/ \E t \in Thread : Holds(t, c)

\* Queues that are listed or held are alive.
QueueAlive ==
    /\ \A c \in Listed : qmem[c] = "live"
    /\ \A t \in Thread, c \in Ctx : Holds(t, c) => qmem[c] = "live"

\* The life of a queue follows that of its service.
Lives ==
    /\ \A c \in Ctx : release[c] <=> cmem[c] = "freed"
    /\ \A c \in Ctx : cmem[c] = "none" => qmem[c] = "none"
    /\ \A c \in Ctx : qmem[c] = "freed" => cmem[c] = "freed"
    /\ \A t \in Thread : pc[t] = "create" => qmem[new[t]] = "none"
    /\ \A t \in Thread : pc[t] = "report" => qmem[new[t]] # "none"
    /\ \A c \in Ctx : qmem[c] = "none" /\ cmem[c] # "none" =>
          \E t \in Thread : pc[t] = "create" /\ new[t] = c

\* The references to a context: a call in progress, a worker that serves it, a
\* worker that launches it, and its slot.
CallRefs(c) == {t \in Thread : call[t] \in {"push", "dec"} /\ arg[t] = c}
HandRefs(c) == {t \in Thread : pc[t] \in Busy /\ hand[t] = c}
NewRefs(c)  == {t \in Thread : pc[t] \in {"create", "init"} /\ new[t] = c}
SlotRefs(c) == IF c \in slot THEN 1 ELSE 0

\* Reference counts are exact, and 0 for a context that is not alive.  The
\* thread that took a count to 0 is the only one that deletes the context.
Counted ==
    /\ \A c \in Ctx : ref[c] = Cardinality(CallRefs(c)) + Cardinality(HandRefs(c))
                                + Cardinality(NewRefs(c)) + SlotRefs(c)
    /\ \A c \in Ctx : cmem[c] # "live" => ref[c] = 0
    /\ \A t \in Thread : call[t] = "del" => ref[arg[t]] = 0 /\ cmem[arg[t]] = "live"
    /\ \A t, u \in Thread : call[t] = "del" /\ call[u] = "del" /\ arg[t] = arg[u] => t = u

\* Senders address, and messages name, services that have or had a queue.
Known ==
    /\ \A t \in Thread : call[t] \in {"grab", "push"} =>
          /\ qmem[arg[t]] # "none"
          /\ load[t].src \in Ctx => qmem[load[t].src] # "none"
    /\ \A c \in Ctx : \A i \in DOMAIN box[c] :
          box[c][i].src \in Ctx => qmem[box[c][i].src] # "none"

\* A registered service is initialised, unless its launcher is not that far.
Initialised ==
    /\ \A c \in slot : inited[c] \/ \E t \in Thread :
          new[t] = c /\ pc[t] \in {"create", "init", "setinit", "fretire"}
    /\ \A t \in Thread : pc[t] \in Busy => inited[hand[t]]

Inv == /\ TypeOK /\ Local /\ Owned /\ Flagged /\ QueueAlive
       /\ Lives /\ Counted /\ Known /\ Initialised

\* The sender of the message a thread is pushing is the service it runs, and
\* the message is younger than all of that sender's that were pushed.
Pushing(t) == call[t] \in {"grab", "push"} /\ ~load[t].err

Ordered(a, b) == a.src = b.src /\ ~a.err /\ ~b.err => a.id < b.id

InFlight ==
    \A t \in Thread : Pushing(t) =>
       /\ \/ pc[t] = "cb" /\ load[t].src = hand[t]
          \/ pc[t] = "init" /\ load[t].src = new[t]
          \/ pc[t] = "ext" /\ load[t].src = t
       /\ load[t].id <= nsent
       /\ \A c \in Ctx : \A i \in DOMAIN box[c] : Ordered(box[c][i], load[t])
       /\ \A c \in Ctx : \A i \in DOMAIN handled[c] : Ordered(handled[c][i], load[t])

InOrder ==
    \A c \in Ctx :
       /\ \A i \in DOMAIN box[c] : ~box[c][i].err => box[c][i].id <= nsent
       /\ \A i \in DOMAIN handled[c] : ~handled[c][i].err => handled[c][i].id <= nsent
       /\ \A i, j \in DOMAIN box[c] : i < j => Ordered(box[c][i], box[c][j])
       /\ \A i, j \in DOMAIN handled[c] : i < j => Ordered(handled[c][i], handled[c][j])
       /\ \A i \in DOMAIN handled[c], j \in DOMAIN box[c] : Ordered(handled[c][i], box[c][j])

-----------------------------------------------------------------------------
(* The global list and finite sets of threads.                             *)

LEMMA Pushed ==
    ASSUME gq \in Seq(Ctx), NEW c \in Ctx, gq' = Append(gq, c)
    PROVE  /\ gq' \in Seq(Ctx)
           /\ Listed' = Listed \cup {c}
           /\ Distinct(gq) /\ c \notin Listed => Distinct(gq')
<1>1. /\ gq' \in Seq(Ctx) /\ Len(gq') = Len(gq) + 1 /\ Len(gq) \in Nat
      /\ \A i \in 1..Len(gq) : gq'[i] = gq[i]
      /\ gq'[Len(gq) + 1] = c
  OBVIOUS
<1>2. DOMAIN gq = 1..Len(gq) /\ DOMAIN gq' = 1..(Len(gq) + 1) BY <1>1
<1>3. Listed' = Listed \cup {c} BY <1>1, <1>2 DEF Listed
<1>4. Distinct(gq) /\ c \notin Listed => Distinct(gq')
  BY <1>1, <1>2 DEF Distinct, Listed
<1> QED BY <1>1, <1>3, <1>4

LEMMA Popped ==
    ASSUME gq \in Seq(Ctx), gq # << >>, Distinct(gq), gq' = Tail(gq)
    PROVE  /\ gq' \in Seq(Ctx) /\ Head(gq) \in Ctx /\ Head(gq) \in Listed
           /\ Listed' = Listed \ {Head(gq)}
           /\ Distinct(gq')
<1>1. /\ gq' \in Seq(Ctx) /\ Len(gq) \in Nat \ {0} /\ Len(gq') = Len(gq) - 1
      /\ \A i \in 1..(Len(gq) - 1) : gq'[i] = gq[i + 1]
      /\ Head(gq) = gq[1] /\ Head(gq) \in Ctx
  OBVIOUS
<1>2. DOMAIN gq = 1..Len(gq) /\ DOMAIN gq' = 1..(Len(gq) - 1) BY <1>1
<1>3. Head(gq) \in Listed BY <1>1, <1>2 DEF Listed
<1>4. Distinct(gq') BY <1>1, <1>2 DEF Distinct
<1>5. Listed' = Listed \ {Head(gq)}
  <2>1. ASSUME NEW i \in 1..(Len(gq) - 1)
        PROVE  gq'[i] \in Listed \ {Head(gq)}
    BY <1>1, <1>2 DEF Listed, Distinct
  <2>2. ASSUME NEW i \in 1..Len(gq), gq[i] # Head(gq)
        PROVE  gq[i] \in Listed'
    <3>1. i - 1 \in DOMAIN gq' /\ gq'[i - 1] = gq[i] BY <1>1, <1>2, <2>2
    <3> QED BY <3>1 DEF Listed
  <2> QED BY <1>2, <2>1, <2>2 DEF Listed
<1> QED BY <1>1, <1>3, <1>4, <1>5

LEMMA ThreadsFinite == ASSUME NEW S \in SUBSET Thread
                       PROVE  IsFiniteSet(S) /\ Cardinality(S) \in Nat
<1>1. IsFiniteSet(Thread) BY DispatchAssumption, FS_Union DEF Thread
<1> QED BY <1>1, FS_Subset, FS_CardinalityType

LEMMA OneMore == ASSUME NEW S \in SUBSET Thread, NEW t \in Thread, t \notin S
                 PROVE  Cardinality(S \cup {t}) = Cardinality(S) + 1
  BY ThreadsFinite, FS_AddElement

LEMMA OneLess == ASSUME NEW S \in SUBSET Thread, NEW t \in S
                 PROVE  Cardinality(S \ {t}) = Cardinality(S) - 1
  BY ThreadsFinite, FS_RemoveElement

\* What the counts say: a context that somebody refers to is alive.
LEMMA Referenced ==
    ASSUME Inv, NEW c \in Ctx
    PROVE  /\ CallRefs(c) \in SUBSET Thread /\ HandRefs(c) \in SUBSET Thread
           /\ NewRefs(c) \in SUBSET Thread
           /\ Cardinality(CallRefs(c)) \in Nat /\ Cardinality(HandRefs(c)) \in Nat
           /\ Cardinality(NewRefs(c)) \in Nat /\ SlotRefs(c) \in Nat
           /\ CallRefs(c) # {} \/ HandRefs(c) # {} \/ NewRefs(c) # {} \/ c \in slot
                 => ref[c] > 0 /\ cmem[c] = "live" /\ ~release[c]
<1>1. /\ CallRefs(c) \in SUBSET Thread /\ HandRefs(c) \in SUBSET Thread
      /\ NewRefs(c) \in SUBSET Thread
  BY DEF CallRefs, HandRefs, NewRefs
<1>2. SlotRefs(c) \in {0, 1} /\ (c \in slot => SlotRefs(c) = 1) BY DEF SlotRefs
<1>3. \A S \in SUBSET Thread : Cardinality(S) \in Nat /\ (S # {} => Cardinality(S) > 0)
  BY ThreadsFinite, FS_EmptySet
<1>4. ref[c] = Cardinality(CallRefs(c)) + Cardinality(HandRefs(c))
                + Cardinality(NewRefs(c)) + SlotRefs(c)
  BY DEF Inv, Counted
<1>5. ref[c] > 0 => cmem[c] = "live" /\ ~release[c]
  BY DEF Inv, Counted, Lives
<1>6. CallRefs(c) # {} \/ HandRefs(c) # {} \/ NewRefs(c) # {} \/ c \in slot => ref[c] > 0
  <2> HIDE DEF CallRefs, HandRefs, NewRefs, SlotRefs
  <2> QED BY <1>1, <1>2, <1>3, <1>4
<1> QED BY <1>1, <1>2, <1>3, <1>5, <1>6

\* Nobody puts, takes or changes a queue.
LEMMA OwnersKept ==
    ASSUME Inv, UNCHANGED <<gq, box, inGlobal, release, qmem>>,
           \A u \in Thread, d \in Ctx : Holds(u, d)' <=> Holds(u, d)
    PROVE  Owned' /\ Flagged' /\ QueueAlive'
<1>1. Listed' = Listed /\ Listed \subseteq Ctx BY DEF Listed, Inv, TypeOK
<1>2. Distinct(gq)' BY DEF Inv, Owned, Distinct
<1>3. Owned' BY <1>1, <1>2 DEF Inv, Owned
<1>4. Flagged' BY <1>1 DEF Inv, Flagged
<1>5. QueueAlive' BY <1>1 DEF Inv, QueueAlive
<1> QED BY <1>3, <1>4, <1>5

\* A thread that holds a queue puts it on the global list.
LEMMA PutOnList ==
    ASSUME Inv, NEW t \in Thread, NEW c \in Ctx, Holds(t, c), gq' = Append(gq, c),
           \A u \in Thread, d \in Ctx : Holds(u, d)' <=> Holds(u, d) /\ ~(u = t /\ d = c),
           UNCHANGED <<box, inGlobal, release, qmem>>
    PROVE  gq' \in Seq(Ctx) /\ Owned' /\ Flagged' /\ QueueAlive'
<1>1. c \notin Listed BY DEF Inv, Owned
<1>2. gq' \in Seq(Ctx) /\ Listed' = Listed \cup {c} /\ Distinct(gq')
  BY <1>1, Pushed DEF Inv, Owned, TypeOK
<1>3. Owned'
  <2>1. \A u \in Thread : ~Holds(u, c)' BY DEF Inv, Owned
  <2>2. Listed \subseteq Ctx BY DEF Inv, TypeOK, Listed
  <2> QED BY <1>2, <2>1, <2>2 DEF Inv, Owned
<1>4. Flagged' BY <1>2 DEF Inv, Flagged
<1>5. QueueAlive' BY <1>2 DEF Inv, QueueAlive
<1> QED BY <1>2, <1>3, <1>4, <1>5

\* A thread takes the first queue off the global list.
LEMMA TakeOffList ==
    ASSUME Inv, NEW t \in Thread, gq # << >>, gq' = Tail(gq),
           \A u \in Thread, d \in Ctx : Holds(u, d)' <=> Holds(u, d) \/ (u = t /\ d = Head(gq)),
           UNCHANGED <<box, inGlobal, release, qmem>>
    PROVE  /\ Head(gq) \in Ctx /\ \A u \in Thread : ~Holds(u, Head(gq))
           /\ qmem[Head(gq)] = "live"
           /\ gq' \in Seq(Ctx) /\ Owned' /\ Flagged' /\ QueueAlive'
<1> PICK c : c = Head(gq) OBVIOUS
<1>1. /\ gq' \in Seq(Ctx) /\ c \in Ctx /\ c \in Listed
      /\ Listed' = Listed \ {c} /\ Distinct(gq')
  BY Popped DEF Inv, Owned, TypeOK
<1>2. \A u \in Thread : ~Holds(u, c) BY <1>1 DEF Inv, Owned
<1>3. Owned'
  <2>1. Listed \subseteq Ctx BY DEF Inv, TypeOK, Listed
  <2> QED BY <1>1, <1>2, <2>1 DEF Inv, Owned
<1>4. Flagged' BY <1>1 DEF Inv, Flagged
<1>5. QueueAlive' BY <1>1 DEF Inv, QueueAlive
<1> QED BY <1>1, <1>2, <1>3, <1>4, <1>5 DEF Inv, QueueAlive

-----------------------------------------------------------------------------
(* Called procedures.                                                      *)

LEMMA PushGrabInv == ASSUME Inv, NEW t \in Thread, PushGrab(t) PROVE Inv'
<1> DEFINE c == arg[t]
<1> USE DEF PushGrab, Grabbed
<1>0. c \in Ctx /\ call[t] = "grab" BY DEF Inv, Local
<1>1. TypeOK'
  <2>1. ref' \in [Ctx -> Nat]
    <3>1. ref \in [Ctx -> Nat] BY DEF Inv, TypeOK
    <3>2. ref' = ref \/ ref' = [ref EXCEPT ![c] = ref[c] + 1] OBVIOUS
    <3> QED BY <1>0, <3>1, <3>2
  <2>2. call' \in [Thread -> {"none", "grab", "push", "dec", "del"}]
    BY <1>0 DEF Inv, TypeOK
  <2> QED BY <2>1, <2>2 DEF Inv, TypeOK, queueVars, mainVars, ghostVars
<1>2. Local' BY <1>0 DEF Inv, Local, TypeOK, mainVars, queueVars
<1>3. Owned' BY DEF Inv, Owned, Holds, Listed, mainVars, Distinct
<1>4. Flagged' BY DEF Inv, Flagged, Holds, Listed, queueVars, mainVars
<1>5. QueueAlive' BY DEF Inv, QueueAlive, Holds, Listed, queueVars, mainVars
<1>6. Lives' BY DEF Inv, Lives, queueVars, mainVars
<1>7. Counted'
  <2>1. CASE c \in slot
    <3>1. /\ ref' = [ref EXCEPT ![c] = @ + 1] /\ call' = [call EXCEPT ![t] = "push"]
          /\ UNCHANGED <<slot, cmem, pc, hand, new, arg>>
      BY <2>1 DEF mainVars
    <3>2. \A d \in Ctx : /\ HandRefs(d)' = HandRefs(d) /\ NewRefs(d)' = NewRefs(d)
                         /\ SlotRefs(d)' = SlotRefs(d)
      BY <3>1 DEF HandRefs, NewRefs, SlotRefs
    <3>3. t \notin CallRefs(c) /\ CallRefs(c)' = CallRefs(c) \cup {t}
      BY <1>0, <3>1 DEF CallRefs, Inv, TypeOK
    <3>4. \A d \in Ctx \ {c} : CallRefs(d)' = CallRefs(d)
      BY <1>0, <3>1 DEF CallRefs, Inv, TypeOK
    <3>5. Cardinality(CallRefs(c)') = Cardinality(CallRefs(c)) + 1
      BY <1>0, <3>3, Referenced, OneMore
    <3>6. ref[c] > 0 /\ cmem[c] = "live" BY <1>0, <2>1, Referenced
    <3>7. \A d \in Ctx : ref'[d] = Cardinality(CallRefs(d)') + Cardinality(HandRefs(d)')
                + Cardinality(NewRefs(d)') + SlotRefs(d)'
      BY <1>0, <3>1, <3>2, <3>4, <3>5, Referenced DEF Inv, Counted, TypeOK
    <3> QED BY <1>0, <3>1, <3>6, <3>7 DEF Inv, Counted, TypeOK
  <2>2. CASE c \notin slot
    <3>1. /\ call' = [call EXCEPT ![t] = "none"]
          /\ UNCHANGED <<ref, slot, cmem, pc, hand, new, arg>>
      BY <2>2 DEF mainVars
    <3>2. \A d \in Ctx : /\ HandRefs(d)' = HandRefs(d) /\ NewRefs(d)' = NewRefs(d)
                         /\ SlotRefs(d)' = SlotRefs(d) /\ CallRefs(d)' = CallRefs(d)
      BY <1>0, <3>1 DEF HandRefs, NewRefs, SlotRefs, CallRefs, Inv, TypeOK
    <3> QED BY <1>0, <3>1, <3>2 DEF Inv, Counted, TypeOK
  <2> QED BY <2>1, <2>2
<1>8. Known' BY <1>0 DEF Inv, Known, TypeOK, queueVars
<1>9. Initialised' BY DEF Inv, Initialised, mainVars
<1> QED BY <1>1, <1>2, <1>3, <1>4, <1>5, <1>6, <1>7, <1>8, <1>9 DEF Inv

LEMMA MqPushInv == ASSUME Inv, NEW t \in Thread, MqPush(t) PROVE Inv'
<1> DEFINE c == arg[t]
<1> USE DEF MqPush, Stored, ListedByPush
<1>0. c \in Ctx /\ call[t] = "push" BY DEF Inv, Local
<1>a. cmem[c] = "live" /\ ~release[c] /\ qmem[c] = "live"
  <2>1. t \in CallRefs(c) BY <1>0 DEF CallRefs
  <2>2. cmem[c] = "live" /\ ~release[c] BY <1>0, <2>1, Referenced
  <2> QED BY <1>0, <2>2 DEF Inv, Known, Lives, TypeOK
<1>b. /\ gq' \in Seq(Ctx) /\ Distinct(gq')
      /\ \/ inGlobal[c] /\ gq' = gq /\ Listed' = Listed
         \/ /\ ~inGlobal[c] /\ Listed' = Listed \cup {c}
            /\ c \notin Listed /\ \A u \in Thread : ~Holds(u, c)
  <2>1. CASE inGlobal[c] BY <2>1 DEF Inv, TypeOK, Owned, Listed
  <2>2. CASE ~inGlobal[c]
    <3>1. c \notin Listed /\ \A u \in Thread : ~Holds(u, c)
      BY <1>0, <1>a, <2>2 DEF Inv, Flagged
    <3>2. gq \in Seq(Ctx) /\ Distinct(gq) /\ gq' = Append(gq, c)
      BY <2>2 DEF Inv, TypeOK, Owned
    <3> QED BY <1>0, <2>2, <3>1, <3>2, Pushed
  <2> QED BY <2>1, <2>2
<1>c. /\ box' = [box EXCEPT ![c] = Append(box[c], load[t])]
      /\ inGlobal' = [inGlobal EXCEPT ![c] = TRUE]
      /\ call' = [call EXCEPT ![t] = "dec"]
      /\ UNCHANGED <<release, qmem, slot, ref, cmem, inited, pc, hand, nxt, new, left,
                     arg, load, nsent, handled, dropped>>
  BY DEF ctxVars, mainVars, ghostVars
<1>d. \A u \in Thread, d \in Ctx : Holds(u, d)' <=> Holds(u, d) BY <1>c DEF Holds
<1>e. box \in [Ctx -> Seq(Message)] /\ load[t] \in Message BY DEF Inv, TypeOK
<1> HIDE DEF MqPush, c
<1>1. TypeOK'
  <2>1. box' \in [Ctx -> Seq(Message)] BY <1>0, <1>c, <1>e
  <2>2. inGlobal' \in [Ctx -> BOOLEAN] BY <1>0, <1>c DEF Inv, TypeOK
  <2>3. call' \in [Thread -> {"none", "grab", "push", "dec", "del"}]
    BY <1>c DEF Inv, TypeOK
  <2> QED BY <1>b, <1>c, <2>1, <2>2, <2>3 DEF Inv, TypeOK
<1>2. Local' BY <1>0, <1>c DEF Inv, Local, TypeOK, c
<1>3. Owned'
  <2>1. \A d \in Listed', u \in Thread : ~Holds(u, d) BY <1>b DEF Inv, Owned
  <2> QED BY <1>b, <1>c, <1>d, <2>1 DEF Inv, Owned, Holds
<1>4. Flagged'
  <2>1. \A d \in Ctx : /\ inGlobal[d] => inGlobal'[d]
                       /\ d # c => inGlobal'[d] = inGlobal[d] /\ box'[d] = box[d]
                       /\ inGlobal'[c]
    BY <1>0, <1>c DEF Inv, TypeOK
  <2>2. c \in Listed' \/ \E u \in Thread : Holds(u, c)
    BY <1>0, <1>a, <1>b DEF Inv, Flagged
  <2> QED BY <1>0, <1>b, <1>c, <1>d, <2>1, <2>2 DEF Inv, Flagged
<1>5. QueueAlive' BY <1>a, <1>b, <1>c, <1>d DEF Inv, QueueAlive
<1>6. Lives' BY <1>c DEF Inv, Lives
<1>7. Counted'
  <2>1. \A d \in Ctx : /\ HandRefs(d)' = HandRefs(d) /\ NewRefs(d)' = NewRefs(d)
                       /\ SlotRefs(d)' = SlotRefs(d) /\ CallRefs(d)' = CallRefs(d)
    BY <1>0, <1>c DEF HandRefs, NewRefs, SlotRefs, CallRefs, Inv, TypeOK
  <2> QED BY <1>0, <1>c, <2>1 DEF Inv, Counted, TypeOK
<1>8. Known'
  <2>1. \A d \in Ctx : \A i \in DOMAIN box'[d] :
           box'[d][i].src \in Ctx => qmem[box'[d][i].src] # "none"
    <3> SUFFICES ASSUME NEW d \in Ctx, NEW i \in DOMAIN box'[d], box'[d][i].src \in Ctx
                 PROVE  qmem[box'[d][i].src] # "none"
      OBVIOUS
    <3>1. CASE d = c /\ i = Len(box[c]) + 1
      <4>1. box'[d][i] = load[t] BY <1>0, <1>c, <1>e, <3>1
      <4> QED BY <1>0, <4>1 DEF Inv, Known
    <3>2. CASE ~(d = c /\ i = Len(box[c]) + 1)
      <4>1. i \in DOMAIN box[d] /\ box'[d][i] = box[d][i] BY <1>0, <1>c, <1>e, <3>2
      <4> QED BY <4>1 DEF Inv, Known
    <3> QED BY <3>1, <3>2
  <2> QED BY <1>c, <2>1 DEF Inv, Known, TypeOK
<1>9. Initialised' BY <1>c DEF Inv, Initialised
<1> QED BY <1>1, <1>2, <1>3, <1>4, <1>5, <1>6, <1>7, <1>8, <1>9 DEF Inv

LEMMA ReleaseRefInv == ASSUME Inv, NEW t \in Thread, ReleaseRef(t) PROVE Inv'
<1> PICK c \in Ctx : c = arg[t] BY DEF Inv, Local, ReleaseRef
<1>0. /\ c \in Ctx /\ call[t] = "dec"
      /\ t \in CallRefs(c)
      /\ ref' = [ref EXCEPT ![c] = ref[c] - 1]
      /\ call' = [call EXCEPT ![t] = IF ref[c] = 1 THEN "del" ELSE "none"]
      /\ UNCHANGED <<gq, box, inGlobal, release, qmem, slot, cmem, inited, pc, hand, nxt,
                     new, left, arg, load, nsent, handled, dropped>>
  BY DEF Inv, Local, ReleaseRef, CallRefs, queueVars, mainVars, ghostVars
<1>a. ref[c] > 0 /\ cmem[c] = "live" BY <1>0, Referenced
<1>b. ref \in [Ctx -> Nat] /\ call \in [Thread -> {"none", "grab", "push", "dec", "del"}]
  BY DEF Inv, TypeOK
<1>1. TypeOK'
  <2>1. ref' \in [Ctx -> Nat] BY <1>0, <1>a, <1>b
  <2>2. call' \in [Thread -> {"none", "grab", "push", "dec", "del"}] BY <1>0, <1>b
  <2> QED BY <1>0, <2>1, <2>2 DEF Inv, TypeOK
<1>2. Local' BY <1>0, <1>b DEF Inv, Local
<1>3. Owned' BY <1>0 DEF Inv, Owned, Holds, Listed, Distinct
<1>4. Flagged' BY <1>0 DEF Inv, Flagged, Holds, Listed
<1>5. QueueAlive' BY <1>0 DEF Inv, QueueAlive, Holds, Listed
<1>6. Lives' BY <1>0 DEF Inv, Lives
<1>7. Counted'
  <2>1. \A d \in Ctx : /\ HandRefs(d)' = HandRefs(d) /\ NewRefs(d)' = NewRefs(d)
                       /\ SlotRefs(d)' = SlotRefs(d)
    BY <1>0 DEF HandRefs, NewRefs, SlotRefs
  <2>2. CallRefs(c)' = CallRefs(c) \ {t}
    BY <1>0, <1>b DEF CallRefs
  <2>3. \A d \in Ctx \ {c} : CallRefs(d)' = CallRefs(d)
    BY <1>0, <1>b DEF CallRefs
  <2>4. Cardinality(CallRefs(c)') = Cardinality(CallRefs(c)) - 1
    BY <1>0, <2>2, Referenced, OneLess
  <2>5. \A d \in Ctx : ref'[d] = Cardinality(CallRefs(d)') + Cardinality(HandRefs(d)')
                + Cardinality(NewRefs(d)') + SlotRefs(d)'
    BY <1>0, <1>b, <2>1, <2>3, <2>4, Referenced DEF Inv, Counted
  <2>6. \A u \in Thread : call[u] = "del" => arg[u] # c
    BY <1>a DEF Inv, Counted
  <2> QED BY <1>0, <1>a, <1>b, <2>5, <2>6 DEF Inv, Counted
<1>8. Known' BY <1>0, <1>b DEF Inv, Known
<1>9. Initialised' BY <1>0 DEF Inv, Initialised
<1> QED BY <1>1, <1>2, <1>3, <1>4, <1>5, <1>6, <1>7, <1>8, <1>9 DEF Inv

LEMMA DeleteContextInv == ASSUME Inv, NEW t \in Thread, DeleteContext(t) PROVE Inv'
<1> DEFINE c == arg[t]
<1>0. /\ c \in Ctx /\ call[t] = "del"
      /\ release' = [release EXCEPT ![c] = TRUE]
      /\ cmem' = [cmem EXCEPT ![c] = "freed"]
      /\ call' = [call EXCEPT ![t] = "none"]
      /\ gq' = IF inGlobal[c] THEN gq ELSE Append(gq, c)
      /\ UNCHANGED <<box, inGlobal, qmem, slot, ref, inited, pc, hand, nxt, new, left, arg,
                     load, nsent, handled, dropped>>
  BY DEF Inv, Local, DeleteContext, ListedByMark, mainVars, ghostVars
<1>a. ref[c] = 0 /\ cmem[c] = "live" /\ ~release[c] BY <1>0 DEF Inv, Counted, Lives
<1>b. qmem[c] = "live"
  <2>1. ASSUME NEW u \in Thread, pc[u] = "create", new[u] = c PROVE FALSE
    <3>1. u \in NewRefs(c) BY <2>1 DEF NewRefs
    <3> QED BY <1>0, <1>a, <3>1, Referenced
  <2> QED BY <1>0, <1>a, <2>1 DEF Inv, Lives, TypeOK
<1>c. /\ gq' \in Seq(Ctx) /\ Distinct(gq')
      /\ \/ inGlobal[c] /\ gq' = gq /\ Listed' = Listed
         \/ /\ ~inGlobal[c] /\ Listed' = Listed \cup {c}
            /\ c \notin Listed /\ \A u \in Thread : ~Holds(u, c)
  <2>1. CASE inGlobal[c] BY <1>0, <2>1 DEF Inv, TypeOK, Owned, Listed
  <2>2. CASE ~inGlobal[c]
    <3>1. c \notin Listed /\ \A u \in Thread : ~Holds(u, c)
      BY <1>0, <1>a, <2>2 DEF Inv, Flagged
    <3>2. gq \in Seq(Ctx) /\ Distinct(gq) /\ gq' = Append(gq, c)
      BY <1>0, <2>2 DEF Inv, TypeOK, Owned
    <3> QED BY <1>0, <2>2, <3>1, <3>2, Pushed
  <2> QED BY <2>1, <2>2
<1>d. \A u \in Thread, d \in Ctx : Holds(u, d)' <=> Holds(u, d) BY <1>0 DEF Holds
<1>e. /\ release \in [Ctx -> BOOLEAN] /\ cmem \in [Ctx -> {"none", "live", "freed"}]
      /\ call \in [Thread -> {"none", "grab", "push", "dec", "del"}]
  BY DEF Inv, TypeOK
<1>f. \A d \in Ctx : /\ release'[d] <=> release[d] \/ d = c
                     /\ cmem'[d] = IF d = c THEN "freed" ELSE cmem[d]
  BY <1>0, <1>e
<1> HIDE DEF c
<1>1. TypeOK'
  <2>1. release' \in [Ctx -> BOOLEAN] BY <1>0, <1>e
  <2>2. cmem' \in [Ctx -> {"none", "live", "freed"}] BY <1>0, <1>e
  <2>3. call' \in [Thread -> {"none", "grab", "push", "dec", "del"}] BY <1>0, <1>e
  <2> QED BY <1>0, <1>c, <2>1, <2>2, <2>3 DEF Inv, TypeOK
<1>2. Local'
  <2>1. \A u \in Thread : /\ pc[u] = "drop" => hand[u] \in Ctx
                          /\ pc[u] = "fdrop" => new[u] \in Ctx
    BY DEF Inv, Local, TypeOK, DispatchLabels, LaunchLabels
  <2> QED BY <1>0, <1>e, <1>f, <2>1 DEF Inv, Local, c
<1>3. Owned'
  <2>1. \A d \in Listed', u \in Thread : ~Holds(u, d) BY <1>c DEF Inv, Owned
  <2> QED BY <1>0, <1>c, <1>d, <2>1 DEF Inv, Owned, Holds
<1>4. Flagged'
  <2>1. c \in Listed' \/ \E u \in Thread : Holds(u, c)
    BY <1>0, <1>b, <1>c DEF Inv, Flagged
  <2> QED BY <1>0, <1>c, <1>d, <1>f, <2>1 DEF Inv, Flagged
<1>5. QueueAlive' BY <1>0, <1>b, <1>c, <1>d, <1>f DEF Inv, QueueAlive
<1>6. Lives' BY <1>0, <1>b, <1>f DEF Inv, Lives
<1>7. Counted'
  <2>1. \A d \in Ctx : /\ HandRefs(d)' = HandRefs(d) /\ NewRefs(d)' = NewRefs(d)
                       /\ SlotRefs(d)' = SlotRefs(d) /\ CallRefs(d)' = CallRefs(d)
    BY <1>0, <1>e DEF HandRefs, NewRefs, SlotRefs, CallRefs
  <2>2. \A u \in Thread : call'[u] = "del" => call[u] = "del" /\ arg[u] # c /\ arg[u] \in Ctx
    BY <1>0, <1>e DEF Inv, Counted, Local, c
  <2> QED BY <1>0, <1>a, <1>e, <1>f, <2>1, <2>2 DEF Inv, Counted
<1>8. Known' BY <1>0, <1>e DEF Inv, Known
<1>9. Initialised' BY <1>0 DEF Inv, Initialised
<1> QED BY <1>1, <1>2, <1>3, <1>4, <1>5, <1>6, <1>7, <1>8, <1>9 DEF Inv

-----------------------------------------------------------------------------
(* ztask_mq_release.                                                       *)

\* The labels of a thread, and what it has there.
LEMMA Labels ==
    ASSUME Inv, NEW t \in Thread
    PROVE  /\ pc[t] \in DispatchLabels \cup LaunchLabels => hand[t] \in Ctx /\ Holds(t, hand[t])
           /\ pc[t] = "back" => nxt[t] \in Ctx /\ Holds(t, nxt[t]) /\ nxt[t] # hand[t]
           /\ pc[t] \in LaunchLabels => new[t] \in Ctx /\ new[t] # hand[t]
           /\ pc[t] \in LaunchLabels \ {"create", "report"} => Holds(t, new[t])
           /\ pc[t] \notin LaunchLabels => new[t] = None
           /\ pc[t] # "back" => nxt[t] = None
  BY DEF Inv, Local, TypeOK, Holds

LEMMA MqReleaseHandInv == ASSUME Inv, NEW t \in Thread, ReleaseHand(t) PROVE Inv'
<1>0. /\ pc[t] = "mqrel" /\ call[t] = "none"
      /\ UNCHANGED <<box, inGlobal, release, qmem, slot, ref, cmem, inited, nxt, left, call,
                     arg, load, nsent, handled, dropped>>
  BY DEF ReleaseHand, MqRelease, At, queueVars, ctxVars, callVars, ghostVars
<1> PICK c : c = hand[t] OBVIOUS
<1>a. c \in Ctx /\ Holds(t, c) /\ new[t] = None /\ nxt[t] = None
  BY <1>0, Labels DEF DispatchLabels, LaunchLabels
<1>b. pc \in [Thread -> {"idle", "ext"} \cup DispatchLabels \cup LaunchLabels]
      /\ hand \in [Thread -> Ctx \cup {None}] /\ None \notin Ctx
  BY DispatchAssumption DEF Inv, TypeOK
<1>1. CASE release[c]
  <2>1. pc' = [pc EXCEPT ![t] = "drop"] /\ UNCHANGED <<gq, hand, new>>
    BY <1>1 DEF ReleaseHand, MqRelease, Droppable, Goto
  <2>2. TypeOK' BY <1>0, <1>b, <2>1 DEF Inv, TypeOK, DispatchLabels
  <2>3. Local' BY <1>0, <1>1, <1>b, <2>1 DEF Inv, Local, DispatchLabels, LaunchLabels
  <2>4. \A u \in Thread, d \in Ctx : Holds(u, d)' <=> Holds(u, d)
    BY <1>0, <1>b, <2>1 DEF Holds
  <2>5. Owned' /\ Flagged' /\ QueueAlive' BY <1>0, <2>1, <2>4, OwnersKept
  <2>9. Lives' BY <1>0, <1>b, <2>1 DEF Inv, Lives
  <2>10. Counted'
    <3>1. \A d \in Ctx : /\ HandRefs(d)' = HandRefs(d) /\ NewRefs(d)' = NewRefs(d)
                         /\ SlotRefs(d)' = SlotRefs(d) /\ CallRefs(d)' = CallRefs(d)
      BY <1>0, <1>b, <2>1 DEF HandRefs, NewRefs, SlotRefs, CallRefs, Busy, LaunchLabels
    <3> QED BY <1>0, <3>1 DEF Inv, Counted
  <2>11. Known' BY <1>0 DEF Inv, Known
  <2>12. Initialised' BY <1>0, <1>b, <2>1 DEF Inv, Initialised, Busy, LaunchLabels
  <2> QED BY <2>2, <2>3, <2>5, <2>9, <2>10, <2>11, <2>12 DEF Inv
<1>2. CASE ~release[c]
  <2>1. /\ pc' = [pc EXCEPT ![t] = "idle"] /\ hand' = [hand EXCEPT ![t] = None]
        /\ new' = new /\ gq' = Append(gq, c)
    BY <1>2, <1>a, <1>b DEF ReleaseHand, MqRelease, Droppable, Goto, GlobalPush, Inv, TypeOK
  <2>4. \A u \in Thread, d \in Ctx : Holds(u, d)' <=> Holds(u, d) /\ ~(u = t /\ d = c)
    BY <1>0, <1>a, <1>b, <2>1 DEF Holds
  <2>5. gq' \in Seq(Ctx) /\ Owned' /\ Flagged' /\ QueueAlive'
    BY <1>0, <1>a, <2>1, <2>4, PutOnList
  <2>2. TypeOK' BY <1>0, <1>b, <2>1, <2>5 DEF Inv, TypeOK
  <2>3. Local' BY <1>0, <1>a, <1>b, <2>1 DEF Inv, Local, DispatchLabels, LaunchLabels
  <2>9. Lives' BY <1>0, <1>b, <2>1 DEF Inv, Lives
  <2>10. Counted'
    <3>1. \A d \in Ctx : /\ HandRefs(d)' = HandRefs(d) /\ NewRefs(d)' = NewRefs(d)
                         /\ SlotRefs(d)' = SlotRefs(d) /\ CallRefs(d)' = CallRefs(d)
      BY <1>0, <1>b, <2>1 DEF HandRefs, NewRefs, SlotRefs, CallRefs, Busy, LaunchLabels
    <3> QED BY <1>0, <3>1 DEF Inv, Counted
  <2>11. Known' BY <1>0 DEF Inv, Known
  <2>12. Initialised' BY <1>0, <1>b, <2>1 DEF Inv, Initialised, Busy, LaunchLabels
  <2> QED BY <2>2, <2>3, <2>5, <2>9, <2>10, <2>11, <2>12 DEF Inv
<1> QED BY <1>1, <1>2

LEMMA MqReleaseFailedInv == ASSUME Inv, NEW t \in Thread, ReleaseFailed(t) PROVE Inv'
<1>0. /\ pc[t] = "fmqrel" /\ call[t] = "none"
      /\ UNCHANGED <<box, inGlobal, release, qmem, slot, ref, cmem, inited, nxt, left, call,
                     arg, load, nsent, handled, dropped>>
  BY DEF ReleaseFailed, MqRelease, At, queueVars, ctxVars, callVars, ghostVars
<1> PICK c : c = new[t] OBVIOUS
<1>a. c \in Ctx /\ Holds(t, c) /\ hand[t] # c /\ nxt[t] = None
  BY <1>0, Labels DEF DispatchLabels, LaunchLabels
<1>b. /\ pc \in [Thread -> {"idle", "ext"} \cup DispatchLabels \cup LaunchLabels]
      /\ hand \in [Thread -> Ctx \cup {None}] /\ None \notin Ctx
      /\ new \in [Thread -> Ctx \cup {None}]
  BY DispatchAssumption DEF Inv, TypeOK
<1>1. CASE release[c]
  <2>1. pc' = [pc EXCEPT ![t] = "fdrop"] /\ UNCHANGED <<gq, hand, new>>
    BY <1>1 DEF ReleaseFailed, MqRelease, Droppable, Goto
  <2>2. TypeOK' BY <1>0, <1>b, <2>1 DEF Inv, TypeOK, LaunchLabels
  <2>3. Local' BY <1>0, <1>1, <1>b, <2>1 DEF Inv, Local, DispatchLabels, LaunchLabels
  <2>4. \A u \in Thread, d \in Ctx : Holds(u, d)' <=> Holds(u, d)
    BY <1>0, <1>b, <2>1 DEF Holds
  <2>5. Owned' /\ Flagged' /\ QueueAlive' BY <1>0, <2>1, <2>4, OwnersKept
  <2>9. Lives' BY <1>0, <1>b, <2>1 DEF Inv, Lives
  <2>10. Counted'
    <3>1. \A d \in Ctx : /\ HandRefs(d)' = HandRefs(d) /\ NewRefs(d)' = NewRefs(d)
                         /\ SlotRefs(d)' = SlotRefs(d) /\ CallRefs(d)' = CallRefs(d)
      BY <1>0, <1>b, <2>1 DEF HandRefs, NewRefs, SlotRefs, CallRefs, Busy, LaunchLabels
    <3> QED BY <1>0, <3>1 DEF Inv, Counted
  <2>11. Known' BY <1>0 DEF Inv, Known
  <2>12. Initialised' BY <1>0, <1>b, <2>1 DEF Inv, Initialised, Busy, LaunchLabels
  <2> QED BY <2>2, <2>3, <2>5, <2>9, <2>10, <2>11, <2>12 DEF Inv
<1>2. CASE ~release[c]
  <2>1. /\ pc' = [pc EXCEPT ![t] = "cb"] /\ new' = [new EXCEPT ![t] = None]
        /\ hand' = hand /\ gq' = Append(gq, c)
    BY <1>2, <1>a, <1>b DEF ReleaseFailed, MqRelease, Droppable, Goto, GlobalPush
  <2>4. \A u \in Thread, d \in Ctx : Holds(u, d)' <=> Holds(u, d) /\ ~(u = t /\ d = c)
    BY <1>0, <1>a, <1>b, <2>1 DEF Holds
  <2>5. gq' \in Seq(Ctx) /\ Owned' /\ Flagged' /\ QueueAlive'
    BY <1>0, <1>a, <2>1, <2>4, PutOnList
  <2>2. TypeOK' BY <1>0, <1>b, <2>1, <2>5 DEF Inv, TypeOK, DispatchLabels
  <2>3. Local' BY <1>0, <1>a, <1>b, <2>1 DEF Inv, Local, DispatchLabels, LaunchLabels
  <2>9. Lives' BY <1>0, <1>b, <2>1 DEF Inv, Lives
  <2>10. Counted'
    <3>1. \A d \in Ctx : /\ HandRefs(d)' = HandRefs(d) /\ NewRefs(d)' = NewRefs(d)
                         /\ SlotRefs(d)' = SlotRefs(d) /\ CallRefs(d)' = CallRefs(d)
      BY <1>0, <1>b, <2>1 DEF HandRefs, NewRefs, SlotRefs, CallRefs, Busy, LaunchLabels
    <3> QED BY <1>0, <3>1 DEF Inv, Counted
  <2>11. Known' BY <1>0 DEF Inv, Known
  <2>12. Initialised' BY <1>0, <1>b, <2>1 DEF Inv, Initialised, Busy, LaunchLabels
  <2> QED BY <2>2, <2>3, <2>5, <2>9, <2>10, <2>11, <2>12 DEF Inv
<1> QED BY <1>1, <1>2

\* _drop_queue pops a message and tells its source.
LEMMA DropMessageInv ==
    ASSUME Inv, NEW t \in Thread, NEW c \in Ctx, Holds(t, c),
           DropMessage(t, c, "drop") \/ DropMessage(t, c, "fdrop")
    PROVE  Inv'
<1> PICK m : m = Head(box[c]) OBVIOUS
<1>0. /\ pc[t] \in {"drop", "fdrop"} /\ call[t] = "none" /\ box[c] # << >>
      /\ box' = [box EXCEPT ![c] = Tail(box[c])] /\ dropped' = dropped \cup {m}
      /\ UNCHANGED <<gq, inGlobal, release, qmem, slot, ref, cmem, inited, pc, hand, nxt,
                     new, left, nsent, handled>>
      /\ \/ UNCHANGED <<call, arg, load>>
         \/ /\ m.src \in Ctx
            /\ call' = [call EXCEPT ![t] = "grab"]
            /\ arg' = [arg EXCEPT ![t] = m.src]
            /\ load' = [load EXCEPT ![t] = [id |-> m.id, src |-> c, err |-> TRUE]]
  BY DEF DropMessage, At, ReportDrop, ctxVars, mainVars, callVars
<1>a. /\ box \in [Ctx -> Seq(Message)] /\ load \in [Thread -> Message]
      /\ call \in [Thread -> {"none", "grab", "push", "dec", "del"}]
      /\ arg \in [Thread -> Ctx \cup {None}]
  BY DEF Inv, TypeOK
<1>b. /\ m \in Message /\ m = box[c][1] /\ 1 \in DOMAIN box[c]
      /\ Tail(box[c]) \in Seq(Message)
      /\ \A i \in DOMAIN Tail(box[c]) :
            i + 1 \in DOMAIN box[c] /\ Tail(box[c])[i] = box[c][i + 1]
  BY <1>0, <1>a
<1>c. qmem[c] = "live" BY DEF Inv, QueueAlive
<1>1. TypeOK'
  <2>1. [id |-> m.id, src |-> c, err |-> TRUE] \in Message BY <1>b DEF Message
  <2>2. load' \in [Thread -> Message] BY <1>0, <1>a, <2>1
  <2>3. call' \in [Thread -> {"none", "grab", "push", "dec", "del"}] BY <1>0, <1>a
  <2>4. arg' \in [Thread -> Ctx \cup {None}] BY <1>0, <1>a
  <2>5. box' \in [Ctx -> Seq(Message)] BY <1>0, <1>a, <1>b
  <2>6. dropped' \in SUBSET Message BY <1>0, <1>b DEF Inv, TypeOK
  <2> QED BY <1>0, <2>2, <2>3, <2>4, <2>5, <2>6 DEF Inv, TypeOK
<1>2. Local' BY <1>0, <1>a DEF Inv, Local
<1>3. \A u \in Thread, d \in Ctx : Holds(u, d)' <=> Holds(u, d) BY <1>0 DEF Holds
<1>4. Listed' = Listed /\ Listed \subseteq Ctx BY <1>0 DEF Listed, Inv, TypeOK
<1>5. Owned'
  <2>1. Distinct(gq)' BY <1>0 DEF Inv, Owned, Distinct
  <2> QED BY <1>3, <1>4, <2>1 DEF Inv, Owned
<1>6. Flagged'
  <2>1. \A d \in Ctx : box'[d] # << >> => box[d] # << >> BY <1>0, <1>a
  <2> QED BY <1>0, <1>3, <1>4, <2>1 DEF Inv, Flagged
<1>7. QueueAlive' BY <1>0, <1>3, <1>4 DEF Inv, QueueAlive
<1>8. Lives' BY <1>0 DEF Inv, Lives
<1>9. Counted'
  <2>1. \A d \in Ctx : /\ HandRefs(d)' = HandRefs(d) /\ NewRefs(d)' = NewRefs(d)
                       /\ SlotRefs(d)' = SlotRefs(d) /\ CallRefs(d)' = CallRefs(d)
    BY <1>0, <1>a DEF HandRefs, NewRefs, SlotRefs, CallRefs
  <2>2. \A u \in Thread : call'[u] = "del" => call[u] = "del" /\ arg'[u] = arg[u]
    BY <1>0, <1>a
  <2> QED BY <1>0, <2>1, <2>2 DEF Inv, Counted
<1>10. Known'
  <2>1. \A d \in Ctx : \A i \in DOMAIN box'[d] :
           box'[d][i].src \in Ctx => qmem[box'[d][i].src] # "none"
    BY <1>0, <1>a, <1>b DEF Inv, Known
  <2>2. m.src \in Ctx => qmem[m.src] # "none" BY <1>b DEF Inv, Known
  <2>3. ASSUME NEW u \in Thread, call'[u] \in {"grab", "push"}
        PROVE  /\ qmem[arg'[u]] # "none"
               /\ load'[u].src \in Ctx => qmem[load'[u].src] # "none"
    <3>1. CASE UNCHANGED <<call, arg, load>> BY <2>3, <3>1 DEF Inv, Known
    <3>2. CASE u # t BY <1>0, <1>a, <2>3, <3>2 DEF Inv, Known
    <3>3. CASE u = t /\ ~UNCHANGED <<call, arg, load>>
      BY <1>0, <1>a, <1>c, <2>2, <3>3
    <3> QED BY <3>1, <3>2, <3>3
  <2> QED BY <1>0, <2>1, <2>3 DEF Known
<1>11. Initialised' BY <1>0 DEF Inv, Initialised
<1> QED BY <1>1, <1>2, <1>5, <1>6, <1>7, <1>8, <1>9, <1>10, <1>11 DEF Inv

\* The end of _drop_queue: nobody has the queue any more.
LEMMA FreeQueueInv ==
    ASSUME Inv, NEW t \in Thread, NEW c \in Ctx,
           \/ c = hand[t] /\ FreeQueue(t, c, "drop", "idle")
           \/ c = new[t] /\ FreeQueue(t, c, "fdrop", "cb")
    PROVE  Inv'
<1>0. /\ call[t] = "none" /\ box[c] = << >>
      /\ inGlobal' = [inGlobal EXCEPT ![c] = FALSE]
      /\ qmem' = [qmem EXCEPT ![c] = "freed"]
      /\ UNCHANGED <<gq, box, release, slot, ref, cmem, inited, nxt, left, call, arg, load,
                     nsent, handled, dropped>>
  BY DEF FreeQueue, At, FlagsAfterEmptyPop, ctxVars, callVars, ghostVars
<1>a. /\ pc \in [Thread -> {"idle", "ext"} \cup DispatchLabels \cup LaunchLabels]
      /\ hand \in [Thread -> Ctx \cup {None}] /\ None \notin Ctx
      /\ new \in [Thread -> Ctx \cup {None}]
      /\ inGlobal \in [Ctx -> BOOLEAN] /\ qmem \in [Ctx -> {"none", "live", "freed"}]
  BY DispatchAssumption DEF Inv, TypeOK
<1>b. \/ /\ pc[t] = "drop" /\ c = hand[t] /\ new[t] = None /\ nxt[t] = None
         /\ pc' = [pc EXCEPT ![t] = "idle"] /\ hand' = [hand EXCEPT ![t] = None] /\ new' = new
      \/ /\ pc[t] = "fdrop" /\ c = new[t] /\ hand[t] # c /\ nxt[t] = None
         /\ pc' = [pc EXCEPT ![t] = "cb"] /\ new' = [new EXCEPT ![t] = None] /\ hand' = hand
  <2>1. CASE c = hand[t] /\ FreeQueue(t, c, "drop", "idle")
    <3>1. pc[t] = "drop" BY <2>1 DEF FreeQueue, At
    <3>2. new[t] = None /\ nxt[t] = None BY <3>1, Labels DEF LaunchLabels
    <3> QED BY <1>a, <2>1, <3>1, <3>2 DEF FreeQueue, Goto
  <2>2. CASE c = new[t] /\ FreeQueue(t, c, "fdrop", "cb")
    <3>1. pc[t] = "fdrop" BY <2>2 DEF FreeQueue, At
    <3>2. hand[t] # c /\ nxt[t] = None BY <2>2, <3>1, Labels DEF LaunchLabels
    <3> QED BY <1>a, <2>2, <3>1, <3>2 DEF FreeQueue, Goto
  <2> QED BY <2>1, <2>2
<1>c. Holds(t, c) /\ release[c] BY <1>b DEF Inv, Local, Holds
<1>d. \A u \in Thread, d \in Ctx : Holds(u, d)' <=> Holds(u, d) /\ ~(u = t /\ d = c)
  BY <1>0, <1>a, <1>b DEF Holds
<1>e. /\ Listed' = Listed /\ Listed \subseteq Ctx /\ c \notin Listed
      /\ \A u \in Thread : ~Holds(u, c)'
  <2>1. Listed' = Listed /\ Listed \subseteq Ctx BY <1>0 DEF Listed, Inv, TypeOK
  <2> QED BY <1>c, <1>d, <2>1 DEF Inv, Owned
<1>1. TypeOK'
  <2>1. inGlobal' \in [Ctx -> BOOLEAN] BY <1>0, <1>a
  <2>2. qmem' \in [Ctx -> {"none", "live", "freed"}] BY <1>0, <1>a
  <2>3. /\ pc' \in [Thread -> {"idle", "ext"} \cup DispatchLabels \cup LaunchLabels]
        /\ hand' \in [Thread -> Ctx \cup {None}] /\ new' \in [Thread -> Ctx \cup {None}]
    BY <1>a, <1>b DEF DispatchLabels
  <2> QED BY <1>0, <2>1, <2>2, <2>3 DEF Inv, TypeOK
<1>2. Local' BY <1>0, <1>a, <1>b DEF Inv, Local, DispatchLabels, LaunchLabels
<1>3. Owned'
  <2>1. Distinct(gq)' BY <1>0 DEF Inv, Owned, Distinct
  <2> QED BY <1>d, <1>e, <2>1 DEF Inv, Owned
<1>4. \A d \in Ctx : /\ inGlobal'[d] = IF d = c THEN FALSE ELSE inGlobal[d]
                     /\ qmem'[d] = IF d = c THEN "freed" ELSE qmem[d]
  BY <1>0, <1>a
<1>5. Flagged'
  <2>1. \A d \in Ctx : d \in Listed' => inGlobal'[d] \/ release'[d]
    BY <1>0, <1>4, <1>e DEF Inv, Flagged
  <2>2. \A u \in Thread, d \in Ctx : Holds(u, d)' => inGlobal'[d] \/ release'[d]
    BY <1>0, <1>4, <1>d, <1>e DEF Inv, Flagged
  <2>3. ASSUME NEW d \in Ctx, qmem'[d] = "live", box'[d] # << >> \/ inGlobal'[d] \/ release'[d]
        PROVE  d \in Listed' \/ \E u \in Thread : Holds(u, d)'
    <3>1. d # c BY <1>4, <2>3
    <3>2. d \in Listed \/ \E u \in Thread : Holds(u, d)
      BY <1>0, <1>4, <2>3, <3>1 DEF Inv, Flagged
    <3> QED BY <1>d, <1>e, <3>1, <3>2
  <2> QED BY <2>1, <2>2, <2>3 DEF Flagged
<1>6. QueueAlive' BY <1>4, <1>d, <1>e DEF Inv, QueueAlive
<1>7. Lives'
  <2>1. cmem[c] = "freed" BY <1>c DEF Inv, Lives
  <2>2. qmem[c] = "live" BY <1>c DEF Inv, QueueAlive
  <2>3. \A u \in Thread : pc'[u] = "create" => /\ pc[u] = "create" /\ new'[u] = new[u]
                                               /\ new[u] \in Ctx /\ new[u] # c
    BY <1>a, <1>b, <2>2, Labels DEF Inv, Lives, LaunchLabels
  <2>4. \A u \in Thread : pc[u] = "create" => pc'[u] = "create" /\ new'[u] = new[u]
    BY <1>a, <1>b
  <2>5. \A u \in Thread : pc'[u] = "report" => /\ pc[u] = "report" /\ new'[u] = new[u]
                                               /\ new[u] \in Ctx
    BY <1>a, <1>b, Labels DEF LaunchLabels
  <2> QED BY <1>0, <1>4, <2>1, <2>3, <2>4, <2>5 DEF Inv, Lives
<1>8. Counted'
  <2>1. \A d \in Ctx : /\ HandRefs(d)' = HandRefs(d) /\ NewRefs(d)' = NewRefs(d)
                       /\ SlotRefs(d)' = SlotRefs(d) /\ CallRefs(d)' = CallRefs(d)
    BY <1>0, <1>a, <1>b DEF HandRefs, NewRefs, SlotRefs, CallRefs, Busy, LaunchLabels
  <2> QED BY <1>0, <2>1 DEF Inv, Counted
<1>9. Known'
  <2>1. \A d \in Ctx : qmem[d] # "none" => qmem'[d] # "none" BY <1>4
  <2> QED BY <1>0, <2>1 DEF Inv, Known, Local
<1>10. Initialised' BY <1>0, <1>a, <1>b DEF Inv, Initialised, Busy, LaunchLabels
<1> QED BY <1>1, <1>2, <1>3, <1>5, <1>6, <1>7, <1>8, <1>9, <1>10 DEF Inv

-----------------------------------------------------------------------------
(* ztask_context_message_dispatch.                                         *)

\* A worker that stops serving a context hands its reference to the call of
\* ztask_context_release that it makes.
LEMMA Transfer ==
    ASSUME Inv, NEW w \in Thread, NEW c \in Ctx, w \in HandRefs(c), call[w] = "none",
           call' = [call EXCEPT ![w] = "dec"], arg' = [arg EXCEPT ![w] = c],
           \A d \in Ctx : HandRefs(d)' = HandRefs(d) \ {w},
           \A d \in Ctx : NewRefs(d)' = NewRefs(d),
           UNCHANGED <<ref, cmem, slot>>
    PROVE  Counted'
<1>1. /\ call \in [Thread -> {"none", "grab", "push", "dec", "del"}]
      /\ arg \in [Thread -> Ctx \cup {None}]
  BY DEF Inv, TypeOK
<1>2. w \notin CallRefs(c) /\ CallRefs(c)' = CallRefs(c) \cup {w} BY <1>1 DEF CallRefs
<1>3. \A d \in Ctx \ {c} : /\ CallRefs(d)' = CallRefs(d)
                           /\ w \notin HandRefs(d)
  BY <1>1 DEF CallRefs, HandRefs
<1>4. Cardinality(CallRefs(c)') = Cardinality(CallRefs(c)) + 1
  BY <1>2, Referenced, OneMore
<1>5. Cardinality(HandRefs(c)') = Cardinality(HandRefs(c)) - 1
  BY Referenced, OneLess
<1>6. \A d \in Ctx : SlotRefs(d)' = SlotRefs(d) BY DEF SlotRefs
<1>7. ref'[c] = Cardinality(CallRefs(c)') + Cardinality(HandRefs(c)')
                 + Cardinality(NewRefs(c)') + SlotRefs(c)'
  BY <1>4, <1>5, <1>6, Referenced DEF Inv, Counted
<1>8. \A d \in Ctx \ {c} : HandRefs(d)' = HandRefs(d) BY <1>3
<1>9. \A d \in Ctx : ref'[d] = Cardinality(CallRefs(d)') + Cardinality(HandRefs(d)')
                                + Cardinality(NewRefs(d)') + SlotRefs(d)'
  BY <1>3, <1>6, <1>7, <1>8 DEF Inv, Counted
<1>10. \A u \in Thread : call'[u] = "del" => call[u] = "del" /\ arg'[u] = arg[u]
  BY <1>1
<1> QED BY <1>9, <1>10 DEF Inv, Counted

LEMMA TakeQueueInv == ASSUME Inv, NEW w \in Worker, TakeQueue(w) PROVE Inv'
<1> PICK c : c = Head(gq) OBVIOUS
<1>0. /\ w \in Thread /\ pc[w] = "idle" /\ call[w] = "none" /\ gq # << >>
      /\ hand' = [hand EXCEPT ![w] = c] /\ gq' = Tail(gq)
      /\ pc' = [pc EXCEPT ![w] = "grab"]
      /\ UNCHANGED <<box, inGlobal, release, qmem, slot, ref, cmem, inited, nxt, new, left,
                     call, arg, load, nsent, handled, dropped>>
  BY DEF TakeQueue, At, Goto, Thread, queueVars, ctxVars, callVars, ghostVars
<1>a. /\ pc \in [Thread -> {"idle", "ext"} \cup DispatchLabels \cup LaunchLabels]
      /\ hand \in [Thread -> Ctx \cup {None}] /\ None \notin Ctx
  BY DispatchAssumption DEF Inv, TypeOK
<1>b. hand[w] = None /\ new[w] = None /\ nxt[w] = None
  BY <1>0 DEF Inv, Local, DispatchLabels, LaunchLabels
<1>c. c \in Ctx BY <1>0, Popped DEF Inv, TypeOK, Owned
<1>d. \A u \in Thread, d \in Ctx : Holds(u, d)' <=> Holds(u, d) \/ (u = w /\ d = c)
  BY <1>0, <1>a, <1>b, <1>c DEF Holds
<1>1. gq' \in Seq(Ctx) /\ Owned' /\ Flagged' /\ QueueAlive'
  BY <1>0, <1>d, TakeOffList
<1>2. TypeOK' BY <1>0, <1>1, <1>a, <1>c DEF Inv, TypeOK, DispatchLabels
<1>3. Local' BY <1>0, <1>a, <1>b, <1>c DEF Inv, Local, DispatchLabels, LaunchLabels
<1>4. Lives' BY <1>0, <1>a DEF Inv, Lives
<1>5. Counted'
  <2>1. \A d \in Ctx : /\ HandRefs(d)' = HandRefs(d) /\ NewRefs(d)' = NewRefs(d)
                       /\ SlotRefs(d)' = SlotRefs(d) /\ CallRefs(d)' = CallRefs(d)
    BY <1>0, <1>a DEF HandRefs, NewRefs, SlotRefs, CallRefs, Busy, LaunchLabels
  <2> QED BY <1>0, <2>1 DEF Inv, Counted
<1>6. Known' BY <1>0 DEF Inv, Known
<1>7. Initialised' BY <1>0, <1>a DEF Inv, Initialised, Busy, LaunchLabels
<1> QED BY <1>1, <1>2, <1>3, <1>4, <1>5, <1>6, <1>7 DEF Inv

LEMMA GrabContextInv == ASSUME Inv, NEW w \in Worker, GrabContext(w) PROVE Inv'
<1> PICK c : c = hand[w] OBVIOUS
<1>0. /\ w \in Thread /\ pc[w] = "grab" /\ call[w] = "none"
      /\ \/ c \in slot /\ ref' = [ref EXCEPT ![c] = @ + 1] /\ pc' = [pc EXCEPT ![w] = "first"]
         \/ c \notin slot /\ ref' = ref /\ pc' = [pc EXCEPT ![w] = "mqrel"]
      /\ UNCHANGED <<gq, box, inGlobal, release, qmem, slot, cmem, inited, hand, nxt, new,
                     left, call, arg, load, nsent, handled, dropped>>
  BY DEF GrabContext, Grabbed, At, Goto, Thread, queueVars, callVars, ghostVars
<1>a. /\ pc \in [Thread -> {"idle", "ext"} \cup DispatchLabels \cup LaunchLabels]
      /\ hand \in [Thread -> Ctx \cup {None}] /\ None \notin Ctx /\ ref \in [Ctx -> Nat]
  BY DispatchAssumption DEF Inv, TypeOK
<1>b. c \in Ctx /\ Holds(w, c) BY <1>0, Labels DEF DispatchLabels
<1>1. TypeOK'
  <2>1. ref' \in [Ctx -> Nat] BY <1>0, <1>a, <1>b
  <2>2. pc' \in [Thread -> {"idle", "ext"} \cup DispatchLabels \cup LaunchLabels]
    BY <1>0, <1>a DEF DispatchLabels
  <2> QED BY <1>0, <2>1, <2>2 DEF Inv, TypeOK
<1>2. Local' BY <1>0, <1>a DEF Inv, Local, DispatchLabels, LaunchLabels
<1>3. \A u \in Thread, d \in Ctx : Holds(u, d)' <=> Holds(u, d) BY <1>0, <1>a DEF Holds
<1>4. Owned' /\ Flagged' /\ QueueAlive' BY <1>0, <1>3, OwnersKept
<1>5. Lives' BY <1>0, <1>a DEF Inv, Lives
<1>6. \A d \in Ctx : /\ NewRefs(d)' = NewRefs(d)
                     /\ SlotRefs(d)' = SlotRefs(d) /\ CallRefs(d)' = CallRefs(d)
  BY <1>0, <1>a DEF NewRefs, SlotRefs, CallRefs
<1>7. Counted'
  <2>1. CASE c \notin slot
    <3>1. \A d \in Ctx : HandRefs(d)' = HandRefs(d)
      BY <1>0, <1>a, <2>1 DEF HandRefs, Busy, LaunchLabels
    <3> QED BY <1>0, <1>6, <2>1, <3>1 DEF Inv, Counted
  <2>2. CASE c \in slot
    <3>1. w \notin HandRefs(c) /\ HandRefs(c)' = HandRefs(c) \cup {w}
      BY <1>0, <1>a, <2>2 DEF HandRefs, Busy, LaunchLabels
    <3>2. \A d \in Ctx \ {c} : HandRefs(d)' = HandRefs(d)
      BY <1>0, <1>a, <2>2 DEF HandRefs
    <3>3. Cardinality(HandRefs(c)') = Cardinality(HandRefs(c)) + 1
      BY <1>0, <1>b, <3>1, Referenced, OneMore
    <3>4. ref'[c] = ref[c] + 1 /\ \A d \in Ctx \ {c} : ref'[d] = ref[d]
      BY <1>0, <1>a, <1>b, <2>2
    <3>5. ref'[c] = Cardinality(CallRefs(c)') + Cardinality(HandRefs(c)')
                     + Cardinality(NewRefs(c)') + SlotRefs(c)'
      BY <1>b, <1>6, <3>3, <3>4, Referenced DEF Inv, Counted
    <3>6. \A d \in Ctx : ref'[d] = Cardinality(CallRefs(d)') + Cardinality(HandRefs(d)')
                                    + Cardinality(NewRefs(d)') + SlotRefs(d)'
      BY <1>6, <3>2, <3>4, <3>5 DEF Inv, Counted
    <3>7. ref[c] > 0 /\ cmem[c] = "live" BY <1>b, <2>2, Referenced
    <3> QED BY <1>0, <3>4, <3>6, <3>7 DEF Inv, Counted, Local
  <2> QED BY <2>1, <2>2
<1>8. Known' BY <1>0 DEF Inv, Known
<1>9. Initialised'
  <2>1. \A d \in slot : inited[d] \/ \E u \in Thread :
          new'[u] = d /\ pc'[u] \in {"create", "init", "setinit", "fretire"}
    BY <1>0, <1>a DEF Inv, Initialised
  <2>2. CASE c \notin slot
    BY <1>0, <1>a, <2>1, <2>2 DEF Inv, Initialised, Busy, LaunchLabels
  <2>3. CASE c \in slot
    <3>1. ASSUME NEW u \in Thread, new[u] = c,
                 pc[u] \in {"create", "init", "setinit", "fretire"}
          PROVE  FALSE
      <4>1. CASE pc[u] = "create"
        <5>1. qmem[c] = "none" BY <3>1, <4>1 DEF Inv, Lives
        <5> QED BY <1>0, <1>b, <5>1 DEF Inv, QueueAlive
      <4>2. CASE pc[u] # "create"
        <5>1. Holds(u, c) BY <3>1, <4>2 DEF Holds
        <5>2. u = w BY <1>0, <1>b, <5>1 DEF Inv, Owned
        <5> QED BY <1>0, <3>1, <5>2
      <4> QED BY <4>1, <4>2
    <3>2. inited[c] BY <2>3, <3>1 DEF Inv, Initialised
    <3> QED BY <1>0, <1>a, <2>1, <2>3, <3>2 DEF Inv, Initialised, Busy, LaunchLabels
  <2> QED BY <2>2, <2>3
<1> QED BY <1>1, <1>2, <1>4, <1>5, <1>7, <1>8, <1>9 DEF Inv

\* The size of a batch is a number for every weight of the table.
LEMMA FollowingType == ASSUME NEW w \in Worker, NEW len \in Nat PROVE Following(w, len) \in Nat
<1>1. Weight[w] \in -1..3 BY DispatchAssumption
<1>2. Batch(w, len) \in Int
  <2>1. CASE Weight[w] = -1 BY <2>1 DEF Batch
  <2>2. CASE Weight[w] = 0
    <3>1. 2^0 = 1 OBVIOUS
    <3> QED BY <2>2, <3>1 DEF Batch
  <2>3. CASE Weight[w] = 1
    <3>1. 2^1 = 2 OBVIOUS
    <3> QED BY <2>3, <3>1 DEF Batch
  <2>4. CASE Weight[w] = 2
    <3>1. 2^2 = 4 OBVIOUS
    <3> QED BY <2>4, <3>1 DEF Batch
  <2>5. CASE Weight[w] = 3
    <3>1. 2^3 = 8 OBVIOUS
    <3> QED BY <2>5, <3>1 DEF Batch
  <2> QED BY <1>1, <2>1, <2>2, <2>3, <2>4, <2>5
<1> QED BY <1>2 DEF Following

LEMMA PopMessageInv == ASSUME Inv, NEW w \in Worker, PopMessage(w) PROVE Inv'
<1> PICK c : c = hand[w] OBVIOUS
<1>0. /\ w \in Thread /\ pc[w] \in {"first", "more"} /\ call[w] = "none" /\ box[c] # << >>
      /\ box' = [box EXCEPT ![c] = Tail(box[c])]
      /\ handled' = [handled EXCEPT ![c] = Append(@, Head(box[c]))]
      /\ \/ pc' = [pc EXCEPT ![w] = "length"] /\ left' = left
         \/ /\ pc[w] = "more" /\ pc' = [pc EXCEPT ![w] = "cb"]
            /\ left' = [left EXCEPT ![w] = @ - 1]
      /\ UNCHANGED <<gq, inGlobal, release, qmem, slot, ref, cmem, inited, hand, nxt, new,
                     call, arg, load, nsent, dropped>>
  BY DEF PopMessage, At, Goto, Thread, ctxVars, callVars
<1>a. /\ pc \in [Thread -> {"idle", "ext"} \cup DispatchLabels \cup LaunchLabels]
      /\ hand \in [Thread -> Ctx \cup {None}] /\ None \notin Ctx
      /\ box \in [Ctx -> Seq(Message)] /\ handled \in [Ctx -> Seq(Message)]
      /\ left \in [Thread -> Nat]
  BY DispatchAssumption DEF Inv, TypeOK
<1>b. c \in Ctx BY <1>0, Labels DEF DispatchLabels
<1>c. /\ Head(box[c]) \in Message
      /\ Tail(box[c]) \in Seq(Message)
      /\ \A i \in DOMAIN Tail(box[c]) :
            i + 1 \in DOMAIN box[c] /\ Tail(box[c])[i] = box[c][i + 1]
  BY <1>0, <1>a, <1>b
<1>1. TypeOK'
  <2>1. box' \in [Ctx -> Seq(Message)] BY <1>0, <1>a, <1>b, <1>c
  <2>2. handled' \in [Ctx -> Seq(Message)] BY <1>0, <1>a, <1>b, <1>c
  <2>3. left' \in [Thread -> Nat]
    <3>1. pc[w] = "more" => left[w] > 0 BY <1>0 DEF Inv, Local
    <3> QED BY <1>0, <1>a, <3>1
  <2>4. pc' \in [Thread -> {"idle", "ext"} \cup DispatchLabels \cup LaunchLabels]
    BY <1>0, <1>a DEF DispatchLabels
  <2> QED BY <1>0, <2>1, <2>2, <2>3, <2>4 DEF Inv, TypeOK
<1>2. Local' BY <1>0, <1>a DEF Inv, Local, DispatchLabels, LaunchLabels
<1>3. \A u \in Thread, d \in Ctx : Holds(u, d)' <=> Holds(u, d) BY <1>0, <1>a DEF Holds
<1>4. Listed' = Listed /\ Listed \subseteq Ctx BY <1>0 DEF Listed, Inv, TypeOK
<1>5. Owned'
  <2>1. Distinct(gq)' BY <1>0 DEF Inv, Owned, Distinct
  <2> QED BY <1>3, <1>4, <2>1 DEF Inv, Owned
<1>6. Flagged'
  <2>1. \A d \in Ctx : box'[d] # << >> => box[d] # << >> BY <1>0, <1>a
  <2> QED BY <1>0, <1>3, <1>4, <2>1 DEF Inv, Flagged
<1>7. QueueAlive' BY <1>0, <1>3, <1>4 DEF Inv, QueueAlive
<1>8. Lives' BY <1>0, <1>a DEF Inv, Lives
<1>9. Counted'
  <2>1. \A d \in Ctx : /\ HandRefs(d)' = HandRefs(d) /\ NewRefs(d)' = NewRefs(d)
                       /\ SlotRefs(d)' = SlotRefs(d) /\ CallRefs(d)' = CallRefs(d)
    BY <1>0, <1>a DEF HandRefs, NewRefs, SlotRefs, CallRefs, Busy, LaunchLabels
  <2> QED BY <1>0, <2>1 DEF Inv, Counted
<1>10. Known' BY <1>0, <1>a, <1>b, <1>c DEF Inv, Known
<1>11. Initialised'
  <2>1. \A u \in Thread : pc'[u] \in Busy => pc[u] \in Busy BY <1>0, <1>a DEF Busy, LaunchLabels
  <2>2. \A u \in Thread : pc[u] \in {"create", "init", "setinit", "fretire"} => pc'[u] = pc[u]
    BY <1>0, <1>a
  <2> QED BY <1>0, <2>1, <2>2 DEF Inv, Initialised
<1> QED BY <1>1, <1>2, <1>5, <1>6, <1>7, <1>8, <1>9, <1>10, <1>11 DEF Inv

LEMMA MeasureBatchInv == ASSUME Inv, NEW w \in Worker, MeasureBatch(w) PROVE Inv'
<1>0. /\ w \in Thread /\ pc[w] = "length" /\ call[w] = "none"
      /\ left' = [left EXCEPT ![w] = Following(w, Len(box[hand[w]]))]
      /\ pc' = [pc EXCEPT ![w] = "cb"]
      /\ UNCHANGED <<gq, box, inGlobal, release, qmem, slot, ref, cmem, inited, hand, nxt, new,
                     call, arg, load, nsent, handled, dropped>>
  BY DEF MeasureBatch, At, Goto, Thread, queueVars, ctxVars, callVars, ghostVars
<1>a. /\ pc \in [Thread -> {"idle", "ext"} \cup DispatchLabels \cup LaunchLabels]
      /\ box \in [Ctx -> Seq(Message)] /\ left \in [Thread -> Nat]
  BY DEF Inv, TypeOK
<1>1. TypeOK'
  <2>1. hand[w] \in Ctx BY <1>0, Labels DEF DispatchLabels
  <2>2. Following(w, Len(box[hand[w]])) \in Nat BY <1>a, <2>1, FollowingType
  <2>3. left' \in [Thread -> Nat] BY <1>0, <1>a, <2>2
  <2>4. pc' \in [Thread -> {"idle", "ext"} \cup DispatchLabels \cup LaunchLabels]
    BY <1>0, <1>a DEF DispatchLabels
  <2> QED BY <1>0, <2>3, <2>4 DEF Inv, TypeOK
<1>2. Local' BY <1>0, <1>a DEF Inv, Local, DispatchLabels, LaunchLabels
<1>3. \A u \in Thread, d \in Ctx : Holds(u, d)' <=> Holds(u, d) BY <1>0, <1>a DEF Holds
<1>4. Owned' /\ Flagged' /\ QueueAlive' BY <1>0, <1>3, OwnersKept
<1>5. Lives' BY <1>0, <1>a DEF Inv, Lives
<1>6. Counted'
  <2>1. \A d \in Ctx : /\ HandRefs(d)' = HandRefs(d) /\ NewRefs(d)' = NewRefs(d)
                       /\ SlotRefs(d)' = SlotRefs(d) /\ CallRefs(d)' = CallRefs(d)
    BY <1>0, <1>a DEF HandRefs, NewRefs, SlotRefs, CallRefs, Busy, LaunchLabels
  <2> QED BY <1>0, <2>1 DEF Inv, Counted
<1>7. Known' BY <1>0 DEF Inv, Known
<1>8. Initialised' BY <1>0, <1>a DEF Inv, Initialised, Busy, LaunchLabels
<1> QED BY <1>1, <1>2, <1>4, <1>5, <1>6, <1>7, <1>8 DEF Inv

LEMMA PopEmptyInv == ASSUME Inv, NEW w \in Worker, PopEmpty(w) PROVE Inv'
<1> PICK c : c = hand[w] OBVIOUS
<1>0. /\ w \in Thread /\ pc[w] \in {"first", "more"} /\ call[w] = "none" /\ box[c] = << >>
      /\ inGlobal' = [inGlobal EXCEPT ![c] = FALSE]
      /\ call' = [call EXCEPT ![w] = "dec"] /\ arg' = [arg EXCEPT ![w] = c]
      /\ hand' = [hand EXCEPT ![w] = None] /\ pc' = [pc EXCEPT ![w] = "idle"]
      /\ UNCHANGED <<gq, box, release, qmem, slot, ref, cmem, inited, nxt, new, left, load,
                     nsent, handled, dropped>>
  BY DEF PopEmpty, At, Goto, Call, FlagsAfterEmptyPop, Thread, ctxVars, ghostVars
<1>a. /\ pc \in [Thread -> {"idle", "ext"} \cup DispatchLabels \cup LaunchLabels]
      /\ hand \in [Thread -> Ctx \cup {None}] /\ None \notin Ctx
      /\ inGlobal \in [Ctx -> BOOLEAN] /\ arg \in [Thread -> Ctx \cup {None}]
      /\ call \in [Thread -> {"none", "grab", "push", "dec", "del"}]
  BY DispatchAssumption DEF Inv, TypeOK
<1>b. c \in Ctx /\ Holds(w, c) /\ new[w] = None /\ nxt[w] = None
  BY <1>0, Labels DEF DispatchLabels, LaunchLabels
<1>c. w \in HandRefs(c) /\ ~release[c]
  <2>1. w \in HandRefs(c) BY <1>0 DEF HandRefs, Busy
  <2> QED BY <1>b, <2>1, Referenced
<1>d. \A u \in Thread, d \in Ctx : Holds(u, d)' <=> Holds(u, d) /\ ~(u = w /\ d = c)
  BY <1>0, <1>a, <1>b DEF Holds
<1>e. /\ Listed' = Listed /\ Listed \subseteq Ctx /\ c \notin Listed
      /\ \A u \in Thread : ~Holds(u, c)'
  <2>1. Listed' = Listed /\ Listed \subseteq Ctx BY <1>0 DEF Listed, Inv, TypeOK
  <2> QED BY <1>0, <1>b, <1>d, <2>1 DEF Inv, Owned
<1>f. \A d \in Ctx : inGlobal'[d] = IF d = c THEN FALSE ELSE inGlobal[d]
  BY <1>0, <1>a
<1>1. TypeOK'
  <2>1. inGlobal' \in [Ctx -> BOOLEAN] BY <1>0, <1>a
  <2>2. call' \in [Thread -> {"none", "grab", "push", "dec", "del"}] BY <1>0, <1>a
  <2>3. arg' \in [Thread -> Ctx \cup {None}] BY <1>0, <1>a, <1>b
  <2>4. /\ pc' \in [Thread -> {"idle", "ext"} \cup DispatchLabels \cup LaunchLabels]
        /\ hand' \in [Thread -> Ctx \cup {None}]
    BY <1>0, <1>a
  <2> QED BY <1>0, <2>1, <2>2, <2>3, <2>4 DEF Inv, TypeOK
<1>2. Local' BY <1>0, <1>a, <1>b DEF Inv, Local, DispatchLabels, LaunchLabels
<1>3. Owned'
  <2>1. Distinct(gq)' BY <1>0 DEF Inv, Owned, Distinct
  <2> QED BY <1>d, <1>e, <2>1 DEF Inv, Owned
<1>4. Flagged'
  <2>1. \A d \in Ctx : d \in Listed' => inGlobal'[d] \/ release'[d]
    BY <1>0, <1>e, <1>f DEF Inv, Flagged
  <2>2. \A u \in Thread, d \in Ctx : Holds(u, d)' => inGlobal'[d] \/ release'[d]
    BY <1>0, <1>d, <1>e, <1>f DEF Inv, Flagged
  <2>3. ASSUME NEW d \in Ctx, qmem'[d] = "live", box'[d] # << >> \/ inGlobal'[d] \/ release'[d]
        PROVE  d \in Listed' \/ \E u \in Thread : Holds(u, d)'
    <3>1. d # c BY <1>0, <1>c, <1>f, <2>3
    <3>2. d \in Listed \/ \E u \in Thread : Holds(u, d)
      BY <1>0, <1>f, <2>3, <3>1 DEF Inv, Flagged
    <3> QED BY <1>d, <1>e, <3>1, <3>2
  <2> QED BY <2>1, <2>2, <2>3 DEF Flagged
<1>5. QueueAlive' BY <1>0, <1>d, <1>e DEF Inv, QueueAlive
<1>6. Lives' BY <1>0, <1>a DEF Inv, Lives
<1>7. Counted'
  <2>1. \A d \in Ctx : HandRefs(d)' = HandRefs(d) \ {w} /\ NewRefs(d)' = NewRefs(d)
    BY <1>0, <1>a DEF HandRefs, NewRefs, Busy, LaunchLabels
  <2> QED BY <1>0, <1>b, <1>c, <2>1, Transfer
<1>8. Known' BY <1>0, <1>a DEF Inv, Known
<1>9. Initialised' BY <1>0, <1>a DEF Inv, Initialised, Busy, LaunchLabels
<1> QED BY <1>1, <1>2, <1>3, <1>4, <1>5, <1>6, <1>7, <1>8, <1>9 DEF Inv

LEMMA CallbackReturnsInv == ASSUME Inv, NEW w \in Worker, CallbackReturns(w) PROVE Inv'
<1>0. /\ w \in Thread /\ pc[w] = "cb" /\ call[w] = "none"
      /\ pc' = [pc EXCEPT ![w] = IF left[w] > 0 THEN "more" ELSE "next"]
      /\ UNCHANGED <<gq, box, inGlobal, release, qmem, slot, ref, cmem, inited, hand, nxt, new,
                     left, call, arg, load, nsent, handled, dropped>>
  BY DEF CallbackReturns, At, Goto, Thread, queueVars, ctxVars, callVars, ghostVars
<1>a. /\ pc \in [Thread -> {"idle", "ext"} \cup DispatchLabels \cup LaunchLabels]
  BY DEF Inv, TypeOK
<1>1. TypeOK'
  <2>1. pc' \in [Thread -> {"idle", "ext"} \cup DispatchLabels \cup LaunchLabels]
    BY <1>0, <1>a DEF DispatchLabels
  <2> QED BY <1>0, <2>1 DEF Inv, TypeOK
<1>2. Local' BY <1>0, <1>a DEF Inv, Local, DispatchLabels, LaunchLabels
<1>3. \A u \in Thread, d \in Ctx : Holds(u, d)' <=> Holds(u, d) BY <1>0, <1>a DEF Holds
<1>4. Owned' /\ Flagged' /\ QueueAlive' BY <1>0, <1>3, OwnersKept
<1>5. Lives' BY <1>0, <1>a DEF Inv, Lives
<1>6. Counted'
  <2>1. \A d \in Ctx : /\ HandRefs(d)' = HandRefs(d) /\ NewRefs(d)' = NewRefs(d)
                       /\ SlotRefs(d)' = SlotRefs(d) /\ CallRefs(d)' = CallRefs(d)
    BY <1>0, <1>a DEF HandRefs, NewRefs, SlotRefs, CallRefs, Busy, LaunchLabels
  <2> QED BY <1>0, <2>1 DEF Inv, Counted
<1>7. Known' BY <1>0 DEF Inv, Known
<1>8. Initialised' BY <1>0, <1>a DEF Inv, Initialised, Busy, LaunchLabels
<1> QED BY <1>1, <1>2, <1>4, <1>5, <1>6, <1>7, <1>8 DEF Inv

LEMMA KeepQueueInv == ASSUME Inv, NEW w \in Worker, KeepQueue(w) PROVE Inv'
<1> PICK c : c = hand[w] OBVIOUS
<1>0. /\ w \in Thread /\ pc[w] = "next" /\ call[w] = "none"
      /\ call' = [call EXCEPT ![w] = "dec"] /\ arg' = [arg EXCEPT ![w] = c]
      /\ pc' = [pc EXCEPT ![w] = "grab"]
      /\ UNCHANGED <<gq, box, inGlobal, release, qmem, slot, ref, cmem, inited, hand, nxt,
                     new, left, load, nsent, handled, dropped>>
  BY DEF KeepQueue, At, Goto, Call, Thread, queueVars, ctxVars, ghostVars
<1>a. /\ pc \in [Thread -> {"idle", "ext"} \cup DispatchLabels \cup LaunchLabels]
      /\ call \in [Thread -> {"none", "grab", "push", "dec", "del"}]
      /\ arg \in [Thread -> Ctx \cup {None}]
  BY DEF Inv, TypeOK
<1>b. c \in Ctx /\ w \in HandRefs(c)
  BY <1>0, Labels DEF DispatchLabels, HandRefs, Busy
<1>1. TypeOK'
  <2>1. call' \in [Thread -> {"none", "grab", "push", "dec", "del"}] BY <1>0, <1>a
  <2>2. arg' \in [Thread -> Ctx \cup {None}] BY <1>0, <1>a, <1>b
  <2>3. pc' \in [Thread -> {"idle", "ext"} \cup DispatchLabels \cup LaunchLabels]
    BY <1>0, <1>a DEF DispatchLabels
  <2> QED BY <1>0, <2>1, <2>2, <2>3 DEF Inv, TypeOK
<1>2. Local' BY <1>0, <1>a, <1>b DEF Inv, Local, DispatchLabels, LaunchLabels
<1>3. \A u \in Thread, d \in Ctx : Holds(u, d)' <=> Holds(u, d) BY <1>0, <1>a DEF Holds
<1>4. Owned' /\ Flagged' /\ QueueAlive' BY <1>0, <1>3, OwnersKept
<1>5. Lives' BY <1>0, <1>a DEF Inv, Lives
<1>6. Counted'
  <2>1. \A d \in Ctx : HandRefs(d)' = HandRefs(d) \ {w} /\ NewRefs(d)' = NewRefs(d)
    BY <1>0, <1>a DEF HandRefs, NewRefs, Busy, LaunchLabels
  <2> QED BY <1>0, <1>b, <2>1, Transfer
<1>7. Known' BY <1>0, <1>a DEF Inv, Known
<1>8. Initialised' BY <1>0, <1>a DEF Inv, Initialised, Busy, LaunchLabels
<1> QED BY <1>1, <1>2, <1>4, <1>5, <1>6, <1>7, <1>8 DEF Inv

LEMMA TakeNextInv == ASSUME Inv, NEW w \in Worker, TakeNext(w) PROVE Inv'
<1> PICK c : c = Head(gq) OBVIOUS
<1>0. /\ w \in Thread /\ pc[w] = "next" /\ call[w] = "none" /\ gq # << >>
      /\ nxt' = [nxt EXCEPT ![w] = c] /\ gq' = Tail(gq)
      /\ pc' = [pc EXCEPT ![w] = "back"]
      /\ UNCHANGED <<box, inGlobal, release, qmem, slot, ref, cmem, inited, hand, new, left,
                     call, arg, load, nsent, handled, dropped>>
  BY DEF TakeNext, At, Goto, Thread, queueVars, ctxVars, callVars, ghostVars
<1>a. /\ pc \in [Thread -> {"idle", "ext"} \cup DispatchLabels \cup LaunchLabels]
      /\ nxt \in [Thread -> Ctx \cup {None}] /\ None \notin Ctx
  BY DispatchAssumption DEF Inv, TypeOK
<1>b. hand[w] \in Ctx /\ new[w] = None /\ nxt[w] = None
  BY <1>0, Labels DEF DispatchLabels, LaunchLabels
<1>c. c \in Ctx BY <1>0, Popped DEF Inv, TypeOK, Owned
<1>d. \A u \in Thread, d \in Ctx : Holds(u, d)' <=> Holds(u, d) \/ (u = w /\ d = c)
  BY <1>0, <1>a, <1>b, <1>c DEF Holds
<1>1. /\ gq' \in Seq(Ctx) /\ Owned' /\ Flagged' /\ QueueAlive'
      /\ \A u \in Thread : ~Holds(u, c)
  BY <1>0, <1>d, TakeOffList
<1>2. TypeOK' BY <1>0, <1>1, <1>a, <1>c DEF Inv, TypeOK, DispatchLabels
<1>3. hand[w] # c BY <1>0, <1>1 DEF Holds
<1>4. Local' BY <1>0, <1>a, <1>b, <1>c, <1>3 DEF Inv, Local, DispatchLabels, LaunchLabels
<1>5. Lives' BY <1>0, <1>a DEF Inv, Lives
<1>6. Counted'
  <2>1. \A d \in Ctx : /\ HandRefs(d)' = HandRefs(d) /\ NewRefs(d)' = NewRefs(d)
                       /\ SlotRefs(d)' = SlotRefs(d) /\ CallRefs(d)' = CallRefs(d)
    BY <1>0, <1>a DEF HandRefs, NewRefs, SlotRefs, CallRefs, Busy, LaunchLabels
  <2> QED BY <1>0, <2>1 DEF Inv, Counted
<1>7. Known' BY <1>0 DEF Inv, Known
<1>8. Initialised' BY <1>0, <1>a DEF Inv, Initialised, Busy, LaunchLabels
<1> QED BY <1>1, <1>2, <1>4, <1>5, <1>6, <1>7, <1>8 DEF Inv

LEMMA PushBackInv == ASSUME Inv, NEW w \in Worker, PushBack(w) PROVE Inv'
<1> PICK c : c = hand[w] OBVIOUS
<1> PICK n : n = nxt[w] OBVIOUS
<1>0. /\ w \in Thread /\ pc[w] = "back" /\ call[w] = "none"
      /\ gq' = Append(gq, c)
      /\ call' = [call EXCEPT ![w] = "dec"] /\ arg' = [arg EXCEPT ![w] = c]
      /\ hand' = [hand EXCEPT ![w] = n] /\ nxt' = [nxt EXCEPT ![w] = None]
      /\ pc' = [pc EXCEPT ![w] = "grab"]
      /\ UNCHANGED <<box, inGlobal, release, qmem, slot, ref, cmem, inited, new, left, load,
                     nsent, handled, dropped>>
  BY DEF PushBack, GlobalPush, At, Goto, Call, Thread, queueVars, ctxVars, ghostVars
<1>a. /\ pc \in [Thread -> {"idle", "ext"} \cup DispatchLabels \cup LaunchLabels]
      /\ hand \in [Thread -> Ctx \cup {None}] /\ None \notin Ctx
      /\ nxt \in [Thread -> Ctx \cup {None}]
      /\ call \in [Thread -> {"none", "grab", "push", "dec", "del"}]
      /\ arg \in [Thread -> Ctx \cup {None}]
  BY DispatchAssumption DEF Inv, TypeOK
<1>b. /\ c \in Ctx /\ Holds(w, c) /\ w \in HandRefs(c) /\ new[w] = None
      /\ n \in Ctx /\ n # c
  BY <1>0, Labels DEF DispatchLabels, LaunchLabels, HandRefs, Busy
<1>c. \A u \in Thread, d \in Ctx : Holds(u, d)' <=> Holds(u, d) /\ ~(u = w /\ d = c)
  BY <1>0, <1>a, <1>b DEF Holds
<1>1. gq' \in Seq(Ctx) /\ Owned' /\ Flagged' /\ QueueAlive'
  BY <1>0, <1>b, <1>c, PutOnList
<1>2. TypeOK'
  <2>1. call' \in [Thread -> {"none", "grab", "push", "dec", "del"}] BY <1>0, <1>a
  <2>2. arg' \in [Thread -> Ctx \cup {None}] BY <1>0, <1>a, <1>b
  <2>3. pc' \in [Thread -> {"idle", "ext"} \cup DispatchLabels \cup LaunchLabels]
    BY <1>0, <1>a DEF DispatchLabels
  <2>4. /\ hand' \in [Thread -> Ctx \cup {None}] /\ nxt' \in [Thread -> Ctx \cup {None}]
    BY <1>0, <1>a, <1>b
  <2> QED BY <1>0, <1>1, <2>1, <2>2, <2>3, <2>4 DEF Inv, TypeOK
<1>3. Local' BY <1>0, <1>a, <1>b DEF Inv, Local, DispatchLabels, LaunchLabels
<1>4. Lives' BY <1>0, <1>a DEF Inv, Lives
<1>5. Counted'
  <2>1. \A d \in Ctx : HandRefs(d)' = HandRefs(d) \ {w} /\ NewRefs(d)' = NewRefs(d)
    BY <1>0, <1>a DEF HandRefs, NewRefs, Busy, LaunchLabels
  <2> QED BY <1>0, <1>b, <2>1, Transfer
<1>6. Known' BY <1>0, <1>a, <1>b DEF Inv, Known
<1>7. Initialised' BY <1>0, <1>a DEF Inv, Initialised, Busy, LaunchLabels
<1> QED BY <1>1, <1>2, <1>3, <1>4, <1>5, <1>6, <1>7 DEF Inv

-----------------------------------------------------------------------------
(* What services do.                                                       *)

LEMMA SendInv == ASSUME Inv, NEW t \in Thread, Send(t) PROVE Inv'
<1> PICK m : m = [id |-> nsent + 1, src |-> Running(t), err |-> FALSE]
  OBVIOUS
<1> PICK c \in Ctx :
      /\ qmem[c] # "none" /\ call' = [call EXCEPT ![t] = "grab"]
      /\ arg' = [arg EXCEPT ![t] = c] /\ load' = [load EXCEPT ![t] = m]
  BY DEF Send
<1>0. /\ pc[t] \in {"cb", "init", "ext"} /\ call[t] = "none" /\ nsent' = nsent + 1
      /\ UNCHANGED <<gq, box, inGlobal, release, qmem, slot, ref, cmem, inited, pc, hand, nxt,
                     new, left, handled, dropped>>
  BY DEF Send, At, queueVars, ctxVars, mainVars
<1>a. /\ load \in [Thread -> Message] /\ arg \in [Thread -> Ctx \cup {None}]
      /\ call \in [Thread -> {"none", "grab", "push", "dec", "del"}]
  BY DEF Inv, TypeOK
<1>b. m \in Message /\ (m.src \in Ctx => qmem[m.src] # "none")
  <2>1. CASE pc[t] = "cb"
    <3>1. Running(t) = hand[t] BY <1>0, <2>1 DEF Running, At
    <3>2. hand[t] \in Ctx /\ qmem[hand[t]] = "live"
      BY <2>1, Labels DEF Inv, QueueAlive, DispatchLabels
    <3> QED BY <3>1, <3>2 DEF Message, Inv, TypeOK
  <2>2. CASE pc[t] = "init"
    <3>1. Running(t) = new[t] BY <1>0, <2>2 DEF Running, At
    <3>2. new[t] \in Ctx /\ qmem[new[t]] = "live"
      BY <2>2, Labels DEF Inv, QueueAlive, LaunchLabels
    <3> QED BY <3>1, <3>2 DEF Message, Inv, TypeOK
  <2>3. CASE pc[t] = "ext"
    <3>1. Running(t) = t BY <1>0, <2>3 DEF Running, At
    <3>2. t \in Ext /\ t \notin Ctx BY <2>3, DispatchAssumption DEF Inv, Local
    <3> QED BY <3>1, <3>2 DEF Message, Inv, TypeOK
  <2> QED BY <1>0, <2>1, <2>2, <2>3
<1>1. TypeOK'
  <2>1. call' \in [Thread -> {"none", "grab", "push", "dec", "del"}] BY <1>a
  <2>2. arg' \in [Thread -> Ctx \cup {None}] /\ load' \in [Thread -> Message] BY <1>a, <1>b
  <2> QED BY <1>0, <2>1, <2>2 DEF Inv, TypeOK
<1>2. Local' BY <1>0, <1>a DEF Inv, Local
<1>3. \A u \in Thread, d \in Ctx : Holds(u, d)' <=> Holds(u, d) BY <1>0 DEF Holds
<1>4. Owned' /\ Flagged' /\ QueueAlive' BY <1>0, <1>3, OwnersKept
<1>5. Lives' BY <1>0 DEF Inv, Lives
<1>6. Counted'
  <2>1. \A d \in Ctx : /\ HandRefs(d)' = HandRefs(d) /\ NewRefs(d)' = NewRefs(d)
                       /\ SlotRefs(d)' = SlotRefs(d) /\ CallRefs(d)' = CallRefs(d)
    BY <1>0, <1>a DEF HandRefs, NewRefs, SlotRefs, CallRefs
  <2>2. \A u \in Thread : call'[u] = "del" => call[u] = "del" /\ arg'[u] = arg[u]
    BY <1>0, <1>a
  <2> QED BY <1>0, <2>1, <2>2 DEF Inv, Counted
<1>7. Known' BY <1>0, <1>a, <1>b DEF Inv, Known
<1>8. Initialised' BY <1>0 DEF Inv, Initialised
<1> QED BY <1>1, <1>2, <1>4, <1>5, <1>6, <1>7, <1>8 DEF Inv

\* ztask_handle_retire hands the reference of the slot to the call of
\* ztask_context_release that it makes.
LEMMA TransferSlot ==
    ASSUME Inv, NEW w \in Thread, NEW c \in slot, call[w] = "none",
           call' = [call EXCEPT ![w] = "dec"], arg' = [arg EXCEPT ![w] = c],
           slot' = slot \ {c},
           \A d \in Ctx : HandRefs(d)' = HandRefs(d) /\ NewRefs(d)' = NewRefs(d),
           UNCHANGED <<ref, cmem>>
    PROVE  Counted'
<1>1. /\ call \in [Thread -> {"none", "grab", "push", "dec", "del"}]
      /\ arg \in [Thread -> Ctx \cup {None}] /\ c \in Ctx
  BY DEF Inv, TypeOK
<1>2. w \notin CallRefs(c) /\ CallRefs(c)' = CallRefs(c) \cup {w} BY <1>1 DEF CallRefs
<1>3. \A d \in Ctx \ {c} : CallRefs(d)' = CallRefs(d) BY <1>1 DEF CallRefs
<1>4. Cardinality(CallRefs(c)') = Cardinality(CallRefs(c)) + 1
  BY <1>1, <1>2, Referenced, OneMore
<1>5. /\ SlotRefs(c) = 1 /\ SlotRefs(c)' = 0
      /\ \A d \in Ctx \ {c} : SlotRefs(d)' = SlotRefs(d)
  BY DEF SlotRefs
<1>6. ref'[c] = Cardinality(CallRefs(c)') + Cardinality(HandRefs(c)')
                 + Cardinality(NewRefs(c)') + SlotRefs(c)'
  BY <1>1, <1>4, <1>5, Referenced DEF Inv, Counted
<1>7. \A d \in Ctx : ref'[d] = Cardinality(CallRefs(d)') + Cardinality(HandRefs(d)')
                                + Cardinality(NewRefs(d)') + SlotRefs(d)'
  BY <1>3, <1>5, <1>6 DEF Inv, Counted
<1>8. \A u \in Thread : call'[u] = "del" => call[u] = "del" /\ arg'[u] = arg[u]
  BY <1>1
<1> QED BY <1>7, <1>8 DEF Inv, Counted

LEMMA RetireInv == ASSUME Inv, NEW w \in Worker, Retire(w) PROVE Inv'
<1> PICK c \in slot : /\ slot' = slot \ {c} /\ call' = [call EXCEPT ![w] = "dec"]
                      /\ arg' = [arg EXCEPT ![w] = c] /\ load' = load
  BY DEF Retire, Call
<1>0. /\ w \in Thread /\ pc[w] \in {"cb", "init"} /\ call[w] = "none"
      /\ UNCHANGED <<gq, box, inGlobal, release, qmem, ref, cmem, inited, pc, hand, nxt, new,
                     left, nsent, handled, dropped>>
  BY DEF Retire, At, Thread, queueVars, mainVars, ghostVars
<1>a. /\ call \in [Thread -> {"none", "grab", "push", "dec", "del"}]
      /\ arg \in [Thread -> Ctx \cup {None}] /\ c \in Ctx
  BY DEF Inv, TypeOK
<1>1. TypeOK'
  <2>1. call' \in [Thread -> {"none", "grab", "push", "dec", "del"}] BY <1>a
  <2>2. arg' \in [Thread -> Ctx \cup {None}] BY <1>a
  <2> QED BY <1>0, <2>1, <2>2 DEF Inv, TypeOK
<1>2. Local' BY <1>0, <1>a DEF Inv, Local
<1>3. \A u \in Thread, d \in Ctx : Holds(u, d)' <=> Holds(u, d) BY <1>0 DEF Holds
<1>4. Owned' /\ Flagged' /\ QueueAlive' BY <1>0, <1>3, OwnersKept
<1>5. Lives' BY <1>0 DEF Inv, Lives
<1>6. Counted'
  <2>1. \A d \in Ctx : HandRefs(d)' = HandRefs(d) /\ NewRefs(d)' = NewRefs(d)
    BY <1>0 DEF HandRefs, NewRefs
  <2> QED BY <1>0, <2>1, TransferSlot
<1>7. Known' BY <1>0, <1>a DEF Inv, Known
<1>8. Initialised' BY <1>0 DEF Inv, Initialised
<1> QED BY <1>1, <1>2, <1>4, <1>5, <1>6, <1>7, <1>8 DEF Inv

LEMMA RetireFailedInv == ASSUME Inv, NEW w \in Worker, RetireFailed(w) PROVE Inv'
<1> PICK c : c = new[w] OBVIOUS
<1>0. /\ w \in Thread /\ pc[w] = "fretire" /\ call[w] = "none"
      /\ pc' = [pc EXCEPT ![w] = "fmqrel"]
      /\ \/ /\ c \in slot /\ slot' = slot \ {c} /\ call' = [call EXCEPT ![w] = "dec"]
            /\ arg' = [arg EXCEPT ![w] = c]
         \/ c \notin slot /\ UNCHANGED <<slot, call, arg>>
      /\ UNCHANGED <<gq, box, inGlobal, release, qmem, ref, cmem, inited, hand, nxt, new,
                     left, load, nsent, handled, dropped>>
  BY DEF RetireFailed, At, Goto, Call, Thread, queueVars, callVars, ghostVars
<1>a. /\ pc \in [Thread -> {"idle", "ext"} \cup DispatchLabels \cup LaunchLabels]
      /\ call \in [Thread -> {"none", "grab", "push", "dec", "del"}]
      /\ arg \in [Thread -> Ctx \cup {None}] /\ slot \subseteq Ctx
  BY DEF Inv, TypeOK
<1>b. c \in Ctx BY <1>0, Labels DEF LaunchLabels
<1>1. TypeOK'
  <2>1. call' \in [Thread -> {"none", "grab", "push", "dec", "del"}] BY <1>0, <1>a
  <2>2. arg' \in [Thread -> Ctx \cup {None}] /\ slot' \subseteq Ctx BY <1>0, <1>a
  <2>3. pc' \in [Thread -> {"idle", "ext"} \cup DispatchLabels \cup LaunchLabels]
    BY <1>0, <1>a DEF LaunchLabels
  <2> QED BY <1>0, <2>1, <2>2, <2>3 DEF Inv, TypeOK
<1>2. Local' BY <1>0, <1>a, <1>b DEF Inv, Local, DispatchLabels, LaunchLabels
<1>3. \A u \in Thread, d \in Ctx : Holds(u, d)' <=> Holds(u, d) BY <1>0, <1>a DEF Holds
<1>4. Owned' /\ Flagged' /\ QueueAlive' BY <1>0, <1>3, OwnersKept
<1>5. Lives' BY <1>0, <1>a DEF Inv, Lives
<1>6. Counted'
  <2>1. \A d \in Ctx : HandRefs(d)' = HandRefs(d) /\ NewRefs(d)' = NewRefs(d)
    BY <1>0, <1>a DEF HandRefs, NewRefs, Busy, LaunchLabels
  <2>2. CASE c \in slot BY <1>0, <2>1, <2>2, TransferSlot
  <2>3. CASE c \notin slot
    <3>1. \A d \in Ctx : CallRefs(d)' = CallRefs(d) /\ SlotRefs(d)' = SlotRefs(d)
      BY <1>0, <2>3 DEF CallRefs, SlotRefs
    <3> QED BY <1>0, <2>1, <2>3, <3>1 DEF Inv, Counted
  <2> QED BY <2>2, <2>3
<1>7. Known' BY <1>0, <1>a DEF Inv, Known
<1>8. Initialised'
  <2>1. \A d \in slot' : d \in slot /\ d # c BY <1>0
  <2>2. \A d \in slot' : inited'[d] \/ \E u \in Thread :
          new'[u] = d /\ pc'[u] \in {"create", "init", "setinit", "fretire"}
    BY <1>0, <1>a, <2>1 DEF Inv, Initialised
  <2>3. \A u \in Thread : pc'[u] \in Busy => pc[u] \in Busy
    BY <1>0, <1>a DEF Busy, LaunchLabels
  <2> QED BY <1>0, <2>2, <2>3 DEF Inv, Initialised
<1> QED BY <1>1, <1>2, <1>4, <1>5, <1>6, <1>7, <1>8 DEF Inv

-----------------------------------------------------------------------------
(* ztask_context_new.                                                      *)

LEMMA RegisterInv == ASSUME Inv, NEW w \in Worker, Register(w) PROVE Inv'
<1> PICK c \in Ctx : /\ cmem[c] = "none"
                     /\ cmem' = [cmem EXCEPT ![c] = "live"] /\ ref' = [ref EXCEPT ![c] = 2]
                     /\ slot' = slot \cup {c} /\ new' = [new EXCEPT ![w] = c]
  BY DEF Register
<1>0. /\ w \in Thread /\ pc[w] = "cb" /\ call[w] = "none"
      /\ pc' = [pc EXCEPT ![w] = "create"]
      /\ UNCHANGED <<gq, box, inGlobal, release, qmem, inited, hand, nxt, left, call, arg,
                     load, nsent, handled, dropped>>
  BY DEF Register, At, Goto, Thread, queueVars, callVars, ghostVars
<1>a. /\ pc \in [Thread -> {"idle", "ext"} \cup DispatchLabels \cup LaunchLabels]
      /\ new \in [Thread -> Ctx \cup {None}] /\ None \notin Ctx /\ ref \in [Ctx -> Nat]
      /\ cmem \in [Ctx -> {"none", "live", "freed"}] /\ slot \subseteq Ctx
      /\ release \in [Ctx -> BOOLEAN]
  BY DispatchAssumption DEF Inv, TypeOK
<1>b. /\ qmem[c] = "none" /\ ~release[c] /\ \A u \in Thread : ~Holds(u, c)
      /\ hand[w] # c /\ new[w] = None /\ nxt[w] = None
  <2>1. qmem[c] = "none" /\ ~release[c] BY DEF Inv, Lives
  <2>2. \A u \in Thread : ~Holds(u, c) BY <2>1 DEF Inv, QueueAlive
  <2>3. new[w] = None /\ nxt[w] = None BY <1>0, Labels DEF LaunchLabels
  <2> QED BY <1>0, <2>1, <2>2, <2>3 DEF Holds
<1>c. CallRefs(c) = {} /\ HandRefs(c) = {} /\ NewRefs(c) = {} /\ c \notin slot
  <2> HIDE DEF CallRefs, HandRefs, NewRefs
  <2> QED BY Referenced
<1>d. \A u \in Thread : new[u] # c
  <2> SUFFICES ASSUME NEW u \in Thread, new[u] = c PROVE FALSE OBVIOUS
  <2>1. pc[u] \in {"create", "report"} BY <1>b DEF Holds
  <2>2. pc[u] # "report" BY DEF Inv, Lives
  <2> QED BY <1>c, <2>1, <2>2 DEF NewRefs
<1>1. TypeOK'
  <2>1. /\ cmem' \in [Ctx -> {"none", "live", "freed"}] /\ new' \in [Thread -> Ctx \cup {None}]
        /\ slot' \subseteq Ctx
    BY <1>a
  <2>2. ref' \in [Ctx -> Nat] BY <1>a
  <2>3. pc' \in [Thread -> {"idle", "ext"} \cup DispatchLabels \cup LaunchLabels]
    BY <1>0, <1>a DEF LaunchLabels
  <2> QED BY <1>0, <2>1, <2>2, <2>3 DEF Inv, TypeOK
<1>2. Local'
  BY <1>0, <1>a, <1>b, <1>d DEF Inv, Local, DispatchLabels, LaunchLabels
<1>3. \A u \in Thread, d \in Ctx : Holds(u, d)' <=> Holds(u, d)
  BY <1>0, <1>a, <1>b DEF Holds
<1>4. Owned' /\ Flagged' /\ QueueAlive' BY <1>0, <1>3, OwnersKept
<1>5. Lives'
  <2>1. \A d \in Ctx : cmem'[d] = IF d = c THEN "live" ELSE cmem[d] BY <1>a
  <2>2. \A u \in Thread : pc'[u] = "create" => qmem[new'[u]] = "none"
    BY <1>0, <1>a, <1>b DEF Inv, Lives
  <2>3. ASSUME NEW d \in Ctx, qmem[d] = "none", cmem'[d] # "none"
        PROVE  \E u \in Thread : pc'[u] = "create" /\ new'[u] = d
    <3>1. CASE d = c BY <1>0, <1>a, <3>1
    <3>2. CASE d # c BY <1>0, <1>a, <2>1, <2>3, <3>2 DEF Inv, Lives
    <3> QED BY <3>1, <3>2
  <2> QED BY <1>0, <1>b, <2>1, <2>2, <2>3 DEF Inv, Lives
<1>6. Counted'
  <2>1. /\ \A d \in Ctx : CallRefs(d)' = CallRefs(d) /\ HandRefs(d)' = HandRefs(d)
        /\ \A d \in Ctx \ {c} : NewRefs(d)' = NewRefs(d) /\ SlotRefs(d)' = SlotRefs(d)
        /\ NewRefs(c)' = {w} /\ SlotRefs(c)' = 1
    <3>1. \A d \in Ctx : CallRefs(d)' = CallRefs(d) BY <1>0 DEF CallRefs
    <3>2. \A d \in Ctx : HandRefs(d)' = HandRefs(d)
      BY <1>0, <1>a DEF HandRefs, Busy, LaunchLabels
    <3>3. \A d \in Ctx \ {c} : NewRefs(d)' = NewRefs(d) BY <1>0, <1>a, <1>b DEF NewRefs
    <3>4. NewRefs(c)' = {w} BY <1>0, <1>a, <1>d DEF NewRefs
    <3>5. SlotRefs(c)' = 1 /\ \A d \in Ctx \ {c} : SlotRefs(d)' = SlotRefs(d)
      BY DEF SlotRefs
    <3> QED BY <3>1, <3>2, <3>3, <3>4, <3>5
  <2>2. Cardinality({w}) = 1 /\ Cardinality({}) = 0 BY FS_Singleton, FS_EmptySet
  <2>3. ref'[c] = 2 /\ \A d \in Ctx \ {c} : ref'[d] = ref[d] BY <1>a
  <2>4. \A d \in Ctx : ref'[d] = Cardinality(CallRefs(d)') + Cardinality(HandRefs(d)')
                                  + Cardinality(NewRefs(d)') + SlotRefs(d)'
    <3>1. ref'[c] = Cardinality(CallRefs(c)') + Cardinality(HandRefs(c)')
                     + Cardinality(NewRefs(c)') + SlotRefs(c)'
      BY <1>c, <2>1, <2>2, <2>3
    <3> QED BY <2>1, <2>3, <3>1 DEF Inv, Counted
  <2>5. \A d \in Ctx : cmem'[d] = IF d = c THEN "live" ELSE cmem[d] BY <1>a
  <2>6. \A u \in Thread : call[u] = "del" => arg[u] # c /\ arg[u] \in Ctx
    BY DEF Inv, Counted, Local
  <2> QED BY <1>0, <2>3, <2>4, <2>5, <2>6 DEF Inv, Counted
<1>7. Known' BY <1>0 DEF Inv, Known
<1>8. Initialised'
  <2>1. ASSUME NEW d \in slot'
        PROVE  inited'[d] \/ \E u \in Thread :
                  new'[u] = d /\ pc'[u] \in {"create", "init", "setinit", "fretire"}
    <3>1. CASE d = c BY <1>0, <1>a, <3>1
    <3>2. CASE d # c BY <1>0, <1>a, <2>1, <3>2 DEF Inv, Initialised
    <3> QED BY <3>1, <3>2
  <2>2. \A u \in Thread : pc'[u] \in Busy => pc[u] \in Busy
    BY <1>0, <1>a DEF Busy, LaunchLabels
  <2> QED BY <1>0, <2>1, <2>2 DEF Inv, Initialised
<1> QED BY <1>1, <1>2, <1>4, <1>5, <1>6, <1>7, <1>8 DEF Inv

LEMMA CreateQueueInv == ASSUME Inv, NEW w \in Worker, CreateQueue(w) PROVE Inv'
<1> PICK c : c = new[w] OBVIOUS
<1>0. /\ w \in Thread /\ pc[w] = "create" /\ call[w] = "none"
      /\ qmem' = [qmem EXCEPT ![c] = "live"] /\ inGlobal' = [inGlobal EXCEPT ![c] = TRUE]
      /\ pc' = [pc EXCEPT ![w] = "init"]
      /\ UNCHANGED <<gq, box, release, slot, ref, cmem, inited, hand, nxt, new, left, call,
                     arg, load, nsent, handled, dropped>>
  BY DEF CreateQueue, At, Goto, Thread, ctxVars, callVars, ghostVars
<1>a. /\ pc \in [Thread -> {"idle", "ext"} \cup DispatchLabels \cup LaunchLabels]
      /\ new \in [Thread -> Ctx \cup {None}] /\ None \notin Ctx
      /\ inGlobal \in [Ctx -> BOOLEAN] /\ qmem \in [Ctx -> {"none", "live", "freed"}]
  BY DispatchAssumption DEF Inv, TypeOK
<1>b. c \in Ctx /\ qmem[c] = "none" /\ cmem[c] = "live" /\ nxt[w] = None
  <2>1. c \in Ctx /\ nxt[w] = None BY <1>0, Labels DEF LaunchLabels
  <2>2. w \in NewRefs(c) BY <1>0 DEF NewRefs
  <2> QED BY <1>0, <2>1, <2>2, Referenced DEF Inv, Lives
<1>c. c \notin Listed /\ \A u \in Thread : ~Holds(u, c) BY <1>b DEF Inv, QueueAlive
<1>d. \A u \in Thread, d \in Ctx : Holds(u, d)' <=> Holds(u, d) \/ (u = w /\ d = c)
  BY <1>0, <1>a, <1>b DEF Holds
<1>e. Listed' = Listed /\ Listed \subseteq Ctx BY <1>0 DEF Listed, Inv, TypeOK
<1>f. \A d \in Ctx : /\ inGlobal'[d] <=> inGlobal[d] \/ d = c
                     /\ qmem'[d] = IF d = c THEN "live" ELSE qmem[d]
  BY <1>0, <1>a
<1>g. \A u \in Thread : u # w => new[u] # c BY <1>0, <1>a, <1>b DEF Inv, Local
<1>1. TypeOK'
  <2>1. inGlobal' \in [Ctx -> BOOLEAN] BY <1>0, <1>a
  <2>2. qmem' \in [Ctx -> {"none", "live", "freed"}] BY <1>0, <1>a
  <2>3. pc' \in [Thread -> {"idle", "ext"} \cup DispatchLabels \cup LaunchLabels]
    BY <1>0, <1>a DEF LaunchLabels
  <2> QED BY <1>0, <2>1, <2>2, <2>3 DEF Inv, TypeOK
<1>2. Local' BY <1>0, <1>a DEF Inv, Local, DispatchLabels, LaunchLabels
<1>3. Owned'
  <2>1. Distinct(gq)' BY <1>0 DEF Inv, Owned, Distinct
  <2> QED BY <1>c, <1>d, <1>e, <2>1 DEF Inv, Owned
<1>4. Flagged'
  <2>1. \A d \in Ctx : d \in Listed' => inGlobal'[d] \/ release'[d]
    BY <1>0, <1>e, <1>f DEF Inv, Flagged
  <2>2. \A u \in Thread, d \in Ctx : Holds(u, d)' => inGlobal'[d] \/ release'[d]
    BY <1>0, <1>d, <1>f DEF Inv, Flagged
  <2>3. \A d \in Ctx : 
           qmem'[d] = "live" /\ (box'[d] # << >> \/ inGlobal'[d] \/ release'[d]) =>
             d \in Listed' \/ \E u \in Thread : Holds(u, d)'
    BY <1>0, <1>d, <1>e, <1>f DEF Inv, Flagged
  <2> QED BY <2>1, <2>2, <2>3 DEF Flagged
<1>5. QueueAlive' BY <1>d, <1>e, <1>f DEF Inv, QueueAlive
<1>6. Lives'
  <2>1. \A u \in Thread : pc'[u] = "create" => /\ pc[u] = "create" /\ u # w
                                               /\ new[u] # c /\ new[u] \in Ctx
    BY <1>0, <1>a, <1>g, Labels DEF LaunchLabels
  <2>2. \A u \in Thread : u # w => pc'[u] = pc[u] BY <1>0, <1>a
  <2> QED BY <1>0, <1>b, <1>f, <2>1, <2>2 DEF Inv, Lives
<1>7. Counted'
  <2>1. \A d \in Ctx : /\ HandRefs(d)' = HandRefs(d) /\ NewRefs(d)' = NewRefs(d)
                       /\ SlotRefs(d)' = SlotRefs(d) /\ CallRefs(d)' = CallRefs(d)
    BY <1>0, <1>a DEF HandRefs, NewRefs, SlotRefs, CallRefs, Busy, LaunchLabels
  <2> QED BY <1>0, <2>1 DEF Inv, Counted
<1>8. Known'
  <2>1. \A d \in Ctx : qmem[d] # "none" => qmem'[d] # "none" BY <1>f
  <2> QED BY <1>0, <2>1 DEF Inv, Known, Local
<1>9. Initialised' BY <1>0, <1>a DEF Inv, Initialised, Busy, LaunchLabels
<1> QED BY <1>1, <1>2, <1>3, <1>4, <1>5, <1>6, <1>7, <1>8, <1>9 DEF Inv

LEMMA InitReturnsInv ==
    ASSUME Inv, NEW w \in Worker, NEW ok \in BOOLEAN, InitReturns(w, ok) PROVE Inv'
<1> PICK c : c = new[w] OBVIOUS
<1>0. /\ w \in Thread /\ pc[w] = "init" /\ call[w] = "none"
      /\ ref' = [ref EXCEPT ![c] = ref[c] - 1]
      /\ \/ /\ ref[c] = 1 /\ call' = [call EXCEPT ![w] = "del"] /\ arg' = [arg EXCEPT ![w] = c]
            /\ \E l \in {"fretire", "lost"} : pc' = [pc EXCEPT ![w] = l]
         \/ /\ ref[c] # 1 /\ UNCHANGED <<call, arg>>
            /\ \E l \in {"fretire", "setinit"} : pc' = [pc EXCEPT ![w] = l]
      /\ UNCHANGED <<gq, box, inGlobal, release, qmem, slot, cmem, inited, hand, nxt, new,
                     left, load, nsent, handled, dropped>>
  BY DEF InitReturns, AfterInit, At, Goto, Call, Thread, queueVars, callVars, ghostVars
<1>a. /\ pc \in [Thread -> {"idle", "ext"} \cup DispatchLabels \cup LaunchLabels]
      /\ ref \in [Ctx -> Nat] /\ arg \in [Thread -> Ctx \cup {None}]
      /\ call \in [Thread -> {"none", "grab", "push", "dec", "del"}]
  BY DEF Inv, TypeOK
<1>b. c \in Ctx /\ w \in NewRefs(c) BY <1>0, Labels DEF LaunchLabels, NewRefs
<1>c. ref[c] > 0 /\ cmem[c] = "live" BY <1>b, Referenced
<1>1. TypeOK'
  <2>1. ref' \in [Ctx -> Nat] BY <1>0, <1>a, <1>b, <1>c
  <2>2. call' \in [Thread -> {"none", "grab", "push", "dec", "del"}] BY <1>0, <1>a
  <2>3. arg' \in [Thread -> Ctx \cup {None}] BY <1>0, <1>a, <1>b
  <2>4. pc' \in [Thread -> {"idle", "ext"} \cup DispatchLabels \cup LaunchLabels]
    BY <1>0, <1>a DEF LaunchLabels
  <2> QED BY <1>0, <2>1, <2>2, <2>3, <2>4 DEF Inv, TypeOK
<1>2. Local' BY <1>0, <1>a, <1>b DEF Inv, Local, DispatchLabels, LaunchLabels
<1>3. \A u \in Thread, d \in Ctx : Holds(u, d)' <=> Holds(u, d) BY <1>0, <1>a DEF Holds
<1>4. Owned' /\ Flagged' /\ QueueAlive' BY <1>0, <1>3, OwnersKept
<1>5. Lives' BY <1>0, <1>a DEF Inv, Lives
<1>6. \A d \in Ctx : NewRefs(d)' = NewRefs(d) \ {w} /\ HandRefs(d)' = HandRefs(d)
  BY <1>0, <1>a DEF NewRefs, HandRefs, Busy, LaunchLabels
<1>7. Counted'
  <2>1. \A d \in Ctx : CallRefs(d)' = CallRefs(d) /\ SlotRefs(d)' = SlotRefs(d)
    BY <1>0, <1>a DEF CallRefs, SlotRefs
  <2>2. Cardinality(NewRefs(c)') = Cardinality(NewRefs(c)) - 1
    BY <1>b, <1>6, Referenced, OneLess
  <2>3. \A d \in Ctx \ {c} : NewRefs(d)' = NewRefs(d) /\ ref'[d] = ref[d]
    <3>1. \A d \in Ctx \ {c} : w \notin NewRefs(d) BY <1>0 DEF NewRefs
    <3>2. \A d \in Ctx \ {c} : NewRefs(d)' = NewRefs(d) BY <1>6, <3>1
    <3>3. \A d \in Ctx \ {c} : ref'[d] = ref[d] BY <1>0, <1>a
    <3> QED BY <3>2, <3>3
  <2>4. ref'[c] = ref[c] - 1 BY <1>0, <1>a, <1>b
  <2>5. ref'[c] = Cardinality(CallRefs(c)') + Cardinality(HandRefs(c)')
                   + Cardinality(NewRefs(c)') + SlotRefs(c)'
    BY <1>b, <1>6, <2>1, <2>2, <2>4, Referenced DEF Inv, Counted
  <2>6. \A d \in Ctx : ref'[d] = Cardinality(CallRefs(d)') + Cardinality(HandRefs(d)')
                                  + Cardinality(NewRefs(d)') + SlotRefs(d)'
    BY <1>6, <2>1, <2>3, <2>5 DEF Inv, Counted
  <2>7. \A u \in Thread : call[u] = "del" => arg[u] # c /\ arg[u] \in Ctx
    BY <1>c DEF Inv, Counted, Local
  <2>8. \A u \in Thread : call'[u] = "del" =>
           \/ u = w /\ arg'[u] = c /\ ref[c] = 1
           \/ u # w /\ call[u] = "del" /\ arg'[u] = arg[u]
    BY <1>0, <1>a
  <2> QED BY <1>0, <1>a, <1>c, <2>3, <2>4, <2>6, <2>7, <2>8 DEF Inv, Counted
<1>8. Known' BY <1>0, <1>a DEF Inv, Known
<1>9. Initialised'
  <2>1. c \in slot => ref[c] # 1
    <3>1. Cardinality(NewRefs(c)) > 0
      BY <1>b, Referenced, ThreadsFinite, FS_EmptySet
    <3>2. c \in slot => SlotRefs(c) = 1 BY DEF SlotRefs
    <3> QED BY <1>b, <3>1, <3>2, Referenced DEF Inv, Counted
  <2>2. ASSUME NEW d \in slot
        PROVE  inited[d] \/ \E u \in Thread :
                  new[u] = d /\ pc'[u] \in {"create", "init", "setinit", "fretire"}
    <3>1. CASE d = c BY <1>0, <1>a, <2>1, <3>1
    <3>2. CASE d # c BY <1>0, <1>a, <2>2, <3>2 DEF Inv, Initialised
    <3> QED BY <3>1, <3>2
  <2>3. \A u \in Thread : pc'[u] \in Busy => pc[u] \in Busy
    BY <1>0, <1>a DEF Busy, LaunchLabels
  <2> QED BY <1>0, <2>2, <2>3 DEF Inv, Initialised
<1> QED BY <1>1, <1>2, <1>4, <1>5, <1>7, <1>8, <1>9 DEF Inv

LEMMA SetInitInv == ASSUME Inv, NEW w \in Worker, SetInit(w) PROVE Inv'
<1> PICK c : c = new[w] OBVIOUS
<1>0. /\ w \in Thread /\ pc[w] = "setinit" /\ call[w] = "none"
      /\ inited' = [inited EXCEPT ![c] = TRUE] /\ pc' = [pc EXCEPT ![w] = "list"]
      /\ UNCHANGED <<gq, box, inGlobal, release, qmem, slot, ref, cmem, hand, nxt, new, left,
                     call, arg, load, nsent, handled, dropped>>
  BY DEF SetInit, At, Goto, Thread, queueVars, callVars, ghostVars
<1>a. /\ pc \in [Thread -> {"idle", "ext"} \cup DispatchLabels \cup LaunchLabels]
      /\ inited \in [Ctx -> BOOLEAN] /\ hand \in [Thread -> Ctx \cup {None}]
      /\ slot \subseteq Ctx
  BY DEF Inv, TypeOK
<1>b. c \in Ctx BY <1>0, Labels DEF LaunchLabels
<1>1. TypeOK'
  <2>1. inited' \in [Ctx -> BOOLEAN] BY <1>0, <1>a
  <2>2. pc' \in [Thread -> {"idle", "ext"} \cup DispatchLabels \cup LaunchLabels]
    BY <1>0, <1>a DEF LaunchLabels
  <2> QED BY <1>0, <2>1, <2>2 DEF Inv, TypeOK
<1>2. Local' BY <1>0, <1>a DEF Inv, Local, DispatchLabels, LaunchLabels
<1>3. \A u \in Thread, d \in Ctx : Holds(u, d)' <=> Holds(u, d) BY <1>0, <1>a DEF Holds
<1>4. Owned' /\ Flagged' /\ QueueAlive' BY <1>0, <1>3, OwnersKept
<1>5. Lives' BY <1>0, <1>a DEF Inv, Lives
<1>6. Counted'
  <2>1. \A d \in Ctx : /\ HandRefs(d)' = HandRefs(d) /\ NewRefs(d)' = NewRefs(d)
                       /\ SlotRefs(d)' = SlotRefs(d) /\ CallRefs(d)' = CallRefs(d)
    BY <1>0, <1>a DEF HandRefs, NewRefs, SlotRefs, CallRefs, Busy, LaunchLabels
  <2> QED BY <1>0, <2>1 DEF Inv, Counted
<1>7. Known' BY <1>0 DEF Inv, Known
<1>8. Initialised'
  <2>1. \A d \in Ctx : inited'[d] <=> inited[d] \/ d = c BY <1>0, <1>a
  <2>2. \A d \in slot : inited'[d] \/ \E u \in Thread :
          new[u] = d /\ pc'[u] \in {"create", "init", "setinit", "fretire"}
    BY <1>0, <1>a, <2>1 DEF Inv, Initialised
  <2>3. \A u \in Thread : pc'[u] \in Busy => pc[u] \in Busy /\ hand[u] \in Ctx
    BY <1>0, <1>a, Labels DEF Busy, LaunchLabels, DispatchLabels
  <2> QED BY <1>0, <2>1, <2>2, <2>3 DEF Inv, Initialised
<1> QED BY <1>1, <1>2, <1>4, <1>5, <1>6, <1>7, <1>8 DEF Inv

LEMMA ListNewInv == ASSUME Inv, NEW w \in Worker, ListNew(w) PROVE Inv'
<1> PICK c : c = new[w] OBVIOUS
<1>0. /\ w \in Thread /\ pc[w] \in {"list", "lost"} /\ call[w] = "none"
      /\ gq' = Append(gq, c)
      /\ \/ new' = new /\ pc' = [pc EXCEPT ![w] = "report"]
         \/ new' = [new EXCEPT ![w] = None] /\ pc' = [pc EXCEPT ![w] = "cb"]
      /\ UNCHANGED <<box, inGlobal, release, qmem, slot, ref, cmem, inited, hand, nxt, left,
                     call, arg, load, nsent, handled, dropped>>
  BY DEF ListNew, GlobalPush, At, Goto, Thread, queueVars, ctxVars, callVars, ghostVars
<1>a. /\ pc \in [Thread -> {"idle", "ext"} \cup DispatchLabels \cup LaunchLabels]
      /\ new \in [Thread -> Ctx \cup {None}] /\ None \notin Ctx
  BY DispatchAssumption DEF Inv, TypeOK
<1>b. c \in Ctx /\ Holds(w, c) /\ hand[w] # c /\ nxt[w] = None
  BY <1>0, Labels DEF LaunchLabels
<1>c. \A u \in Thread, d \in Ctx : Holds(u, d)' <=> Holds(u, d) /\ ~(u = w /\ d = c)
  BY <1>0, <1>a, <1>b DEF Holds
<1>1. gq' \in Seq(Ctx) /\ Owned' /\ Flagged' /\ QueueAlive'
  BY <1>0, <1>b, <1>c, PutOnList
<1>2. TypeOK' BY <1>0, <1>1, <1>a DEF Inv, TypeOK, DispatchLabels, LaunchLabels
<1>3. Local' BY <1>0, <1>a, <1>b DEF Inv, Local, DispatchLabels, LaunchLabels
<1>4. Lives'
  <2>1. qmem[c] = "live" BY <1>0, <1>b DEF Inv, QueueAlive
  <2> QED BY <1>0, <1>a, <2>1 DEF Inv, Lives
<1>5. Counted'
  <2>1. \A d \in Ctx : /\ HandRefs(d)' = HandRefs(d) /\ NewRefs(d)' = NewRefs(d)
                       /\ SlotRefs(d)' = SlotRefs(d) /\ CallRefs(d)' = CallRefs(d)
    BY <1>0, <1>a DEF HandRefs, NewRefs, SlotRefs, CallRefs, Busy, LaunchLabels
  <2> QED BY <1>0, <2>1 DEF Inv, Counted
<1>6. Known' BY <1>0 DEF Inv, Known
<1>7. Initialised' BY <1>0, <1>a DEF Inv, Initialised, Busy, LaunchLabels
<1> QED BY <1>1, <1>2, <1>3, <1>4, <1>5, <1>6, <1>7 DEF Inv

LEMMA ReportLaunchInv == ASSUME Inv, NEW w \in Worker, ReportLaunch(w) PROVE Inv'
<1>0. /\ w \in Thread /\ pc[w] = "report" /\ call[w] = "none"
      /\ new' = [new EXCEPT ![w] = None] /\ pc' = [pc EXCEPT ![w] = "cb"]
      /\ UNCHANGED <<gq, box, inGlobal, release, qmem, slot, ref, cmem, inited, hand, nxt, left,
                     call, arg, load, nsent, handled, dropped>>
  BY DEF ReportLaunch, At, Goto, Thread, queueVars, ctxVars, callVars, ghostVars
<1>a. /\ pc \in [Thread -> {"idle", "ext"} \cup DispatchLabels \cup LaunchLabels]
      /\ new \in [Thread -> Ctx \cup {None}] /\ None \notin Ctx
  BY DispatchAssumption DEF Inv, TypeOK
<1>b. \A u \in Thread, d \in Ctx : Holds(u, d)' <=> Holds(u, d)
  BY <1>0, <1>a DEF Holds
<1>1. Owned' /\ Flagged' /\ QueueAlive' BY <1>0, <1>b, OwnersKept
<1>2. TypeOK' BY <1>0, <1>a DEF Inv, TypeOK, DispatchLabels
<1>3. Local' BY <1>0, <1>a DEF Inv, Local, DispatchLabels, LaunchLabels
<1>4. Lives' BY <1>0, <1>a DEF Inv, Lives
<1>5. Counted'
  <2>1. \A d \in Ctx : /\ HandRefs(d)' = HandRefs(d) /\ NewRefs(d)' = NewRefs(d)
                       /\ SlotRefs(d)' = SlotRefs(d) /\ CallRefs(d)' = CallRefs(d)
    BY <1>0, <1>a DEF HandRefs, NewRefs, SlotRefs, CallRefs, Busy, LaunchLabels
  <2> QED BY <1>0, <2>1 DEF Inv, Counted
<1>6. Known' BY <1>0 DEF Inv, Known
<1>7. Initialised' BY <1>0, <1>a DEF Inv, Initialised, Busy, LaunchLabels
<1> QED BY <1>1, <1>2, <1>3, <1>4, <1>5, <1>6, <1>7 DEF Inv

-----------------------------------------------------------------------------
(* Inv is inductive.                                                       *)

\* The order in which ztask_start listed the queues of Boot matters to nothing.
LEMMA BootListed ==
    ASSUME Init
    PROVE  gq \in Seq(Ctx) /\ Distinct(gq) /\ Listed = Boot
<1>1. IsFiniteSet(Boot) /\ Boot \subseteq Ctx /\ Cardinality(Boot) \in Nat
  BY DispatchAssumption, FS_CardinalityType
<1>2. /\ gq \in [1..Cardinality(Boot) -> Boot] /\ DOMAIN gq = 1..Cardinality(Boot)
      /\ Distinct(gq)
  BY DEF Init, Distinct
<1>3. gq \in Seq(Ctx) BY <1>1, <1>2
<1>4. Listed \subseteq Boot BY <1>2 DEF Listed
<1>5. Cardinality(Listed) = Cardinality(1..Cardinality(Boot))
  <2>1. gq \in Surjection(1..Cardinality(Boot), Listed)
    BY <1>2 DEF Surjection, Listed
  <2>2. gq \in Injection(1..Cardinality(Boot), Listed)
    BY <1>2 DEF Injection, IsInjective, Distinct, Listed
  <2> QED BY <1>1, <2>1, <2>2, FS_Surjection, FS_Interval
<1>6. Cardinality(1..Cardinality(Boot)) = Cardinality(Boot) BY <1>1, FS_Interval
<1> QED BY <1>1, <1>2, <1>3, <1>4, <1>5, <1>6, FS_Subset

LEMMA InitInv == Init => Inv
<1> SUFFICES ASSUME Init PROVE Inv OBVIOUS
<1>0. /\ gq \in Seq(Ctx) /\ Distinct(gq) /\ Listed = Boot
      /\ Boot \subseteq Ctx /\ None \notin Ctx /\ Worker \cap Ext = {}
  BY BootListed, DispatchAssumption
<1>a. \A t \in Thread : /\ pc[t] \in {"idle", "ext"} /\ call[t] = "none" /\ hand[t] = None
                        /\ nxt[t] = None /\ new[t] = None
                        /\ (t \in Ext <=> pc[t] = "ext")
  BY <1>0 DEF Init, Thread
<1>b. \A t \in Thread, c \in Ctx : ~Holds(t, c) BY <1>0, <1>a DEF Holds
<1>c. \A c \in Ctx : /\ box[c] = << >> /\ ~release[c]
                     /\ cmem[c] = IF c \in Boot THEN "live" ELSE "none"
                     /\ qmem[c] = IF c \in Boot THEN "live" ELSE "none"
                     /\ (inGlobal[c] <=> c \in Boot) /\ (inited[c] <=> c \in Boot)
                     /\ ref[c] = IF c \in slot THEN 1 ELSE 0
                     /\ slot = Boot
  BY DEF Init
<1>1. TypeOK
  <2>1. NoLoad \in Message BY DEF NoLoad, Message
  <2>2. << >> \in Seq(Message) OBVIOUS
  <2>3. /\ pc \in [Thread -> {"idle", "ext"} \cup DispatchLabels \cup LaunchLabels]
        /\ load \in [Thread -> Message] /\ ref \in [Ctx -> Nat]
    BY <2>1 DEF Init
  <2>4. box \in [Ctx -> Seq(Message)] /\ handled \in [Ctx -> Seq(Message)]
    BY <2>2 DEF Init
  <2>5. /\ inGlobal \in [Ctx -> BOOLEAN] /\ release \in [Ctx -> BOOLEAN]
        /\ inited \in [Ctx -> BOOLEAN]
    BY DEF Init
  <2> QED BY <1>0, <2>3, <2>4, <2>5 DEF Init, TypeOK
<1>2. Local BY <1>a DEF Local, DispatchLabels, LaunchLabels
<1>3. Owned BY <1>0, <1>b DEF Owned
<1>4. Flagged BY <1>0, <1>b, <1>c DEF Flagged
<1>5. QueueAlive BY <1>0, <1>b, <1>c DEF QueueAlive
<1>6. Lives BY <1>a, <1>c DEF Lives
<1>7. Counted
  <2>1. \A c \in Ctx : CallRefs(c) = {} /\ HandRefs(c) = {} /\ NewRefs(c) = {}
    BY <1>a DEF CallRefs, HandRefs, NewRefs, Busy, LaunchLabels
  <2>2. \A c \in Ctx : ref[c] = SlotRefs(c) /\ SlotRefs(c) \in Nat BY <1>c DEF SlotRefs
  <2>3. Cardinality({}) = 0 BY FS_EmptySet
  <2>4. \A c \in Ctx : ref[c] = Cardinality(CallRefs(c)) + Cardinality(HandRefs(c))
                                + Cardinality(NewRefs(c)) + SlotRefs(c)
    BY <2>1, <2>2, <2>3
  <2> QED BY <1>a, <1>c, <2>4 DEF Counted
<1>8. Known BY <1>a, <1>c DEF Known
<1>9. Initialised
  <2>1. slot = Boot BY DEF Init
  <2>2. \A c \in slot : inited[c] BY <1>0, <1>c, <2>1
  <2>3. \A t \in Thread : pc[t] \notin Busy BY <1>a DEF Busy, LaunchLabels
  <2> QED BY <2>2, <2>3 DEF Initialised
<1> QED BY <1>1, <1>2, <1>3, <1>4, <1>5, <1>6, <1>7, <1>8, <1>9 DEF Inv

LEMMA NextInv == Inv /\ [Next]_vars => Inv'
<1> SUFFICES ASSUME Inv, [Next]_vars PROVE Inv' OBVIOUS
<1>1. ASSUME NEW t \in Thread, Called(t) \/ Send(t) PROVE Inv'
  BY <1>1, PushGrabInv, MqPushInv, ReleaseRefInv, DeleteContextInv, SendInv DEF Called
<1>2. ASSUME NEW w \in Worker, Dispatching(w) PROVE Inv'
  <2>1. w \in Thread BY DEF Thread
  <2>2. CASE DropHand(w)
    <3>1. pc[w] = "drop" BY <2>2 DEF DropHand, DropMessage, At
    <3>2. hand[w] \in Ctx /\ Holds(w, hand[w]) BY <2>1, <3>1, Labels DEF DispatchLabels
    <3> QED BY <2>1, <2>2, <3>2, DropMessageInv DEF DropHand
  <2>3. CASE FreeHand(w)
    <3>1. pc[w] = "drop" BY <2>3 DEF FreeHand, FreeQueue, At
    <3>2. hand[w] \in Ctx BY <2>1, <3>1, Labels DEF DispatchLabels
    <3> QED BY <2>1, <2>3, <3>2, FreeQueueInv DEF FreeHand
  <2> QED BY <1>2, <2>1, <2>2, <2>3, TakeQueueInv, GrabContextInv, MqReleaseHandInv,
             PopMessageInv, MeasureBatchInv, PopEmptyInv, CallbackReturnsInv, KeepQueueInv, TakeNextInv,
             PushBackInv
          DEF Dispatching
<1>3. ASSUME NEW w \in Worker, Launching(w) PROVE Inv'
  <2>1. w \in Thread BY DEF Thread
  <2>2. CASE DropFailed(w)
    <3>1. pc[w] = "fdrop" BY <2>2 DEF DropFailed, DropMessage, At
    <3>2. new[w] \in Ctx /\ Holds(w, new[w]) BY <2>1, <3>1, Labels DEF LaunchLabels
    <3> QED BY <2>1, <2>2, <3>2, DropMessageInv DEF DropFailed
  <2>3. CASE FreeFailed(w)
    <3>1. pc[w] = "fdrop" BY <2>3 DEF FreeFailed, FreeQueue, At
    <3>2. new[w] \in Ctx BY <2>1, <3>1, Labels DEF LaunchLabels
    <3> QED BY <2>1, <2>3, <3>2, FreeQueueInv DEF FreeFailed
  <2> QED BY <1>3, <2>1, <2>2, <2>3, CreateQueueInv, InitReturnsInv, SetInitInv, ListNewInv,
             ReportLaunchInv, RetireFailedInv, MqReleaseFailedInv
          DEF Launching
<1>4. CASE UNCHANGED vars
  <2>1. UNCHANGED <<gq, box, inGlobal, release, qmem, slot, ref, cmem, inited, pc, hand, nxt,
                    new, left, call, arg, load, nsent, handled, dropped>>
    BY <1>4 DEF vars, queueVars, ctxVars, mainVars, callVars, ghostVars
  <2>2. \A u \in Thread, d \in Ctx : Holds(u, d)' <=> Holds(u, d) BY <2>1 DEF Holds
  <2>3. Owned' /\ Flagged' /\ QueueAlive' BY <2>1, <2>2, OwnersKept
  <2>4. TypeOK' /\ Local' BY <2>1 DEF Inv, TypeOK, Local
  <2>5. Lives' /\ Known' /\ Initialised' BY <2>1 DEF Inv, Lives, Known, Initialised
  <2>6. Counted'
    <3>1. \A d \in Ctx : /\ HandRefs(d)' = HandRefs(d) /\ NewRefs(d)' = NewRefs(d)
                         /\ SlotRefs(d)' = SlotRefs(d) /\ CallRefs(d)' = CallRefs(d)
      BY <2>1 DEF HandRefs, NewRefs, SlotRefs, CallRefs
    <3> QED BY <2>1, <3>1 DEF Inv, Counted
  <2> QED BY <2>3, <2>4, <2>5, <2>6 DEF Inv
<1> QED BY <1>1, <1>2, <1>3, <1>4, RetireInv, RegisterInv DEF Next

LEMMA AlwaysInv == Spec => []Inv
  BY InitInv, NextInv, PTL DEF Spec

\* A queue is on the global list once, or with one thread, or it is empty with
\* its flag clear; so no two threads are in the code of one service and no
\* message waits in a queue that nobody will serve (ztask_globalmq_push,
\* in_global of ztask_mq.c, CHECKCALLING_BEGIN of ztask_server.c).
THEOREM QueueHasOneOwner == Spec => []OneOwner
<1>1. Inv => OneOwner
  <2> SUFFICES ASSUME Inv PROVE OneOwner OBVIOUS
  <2>1. OneCallbackAtATime
    <3>1. \A t \in Thread, c \in Ctx : Runs(t, c) => Holds(t, c) BY DEF Runs, Holds
    <3> QED BY <3>1 DEF OneCallbackAtATime, Inv, Owned, Local
  <2>2. \A t \in Thread : nxt[t] # None => hand[t] # nxt[t] /\ new[t] # nxt[t]
    BY Labels DEF Inv, Local, LaunchLabels
  <2> QED BY <2>1, <2>2 DEF OneOwner, Inv, Owned, Distinct, Flagged
<1> QED BY <1>1, AlwaysInv, PTL

\* No thread pushes to, marks, counts down or runs a context or a queue that
\* has been freed, but for the launcher's last uses of a service that was retired
\* meanwhile; a queue is marked for release once, and a service is initialised
\* before it gets its first message (ztask_context_grab and _release,
\* delete_context, the assertions of ztask_mq_mark_release and dispatch_message).
THEOREM FreedIsNotUsed == Spec => []NoUseAfterFree
<1>1. Inv => NoUseAfterFree
  <2> SUFFICES ASSUME Inv PROVE NoUseAfterFree OBVIOUS
  <2>1. ASSUME NEW t \in Thread, call[t] \in {"push", "dec"}
        PROVE  cmem[arg[t]] = "live"
    <3>1. arg[t] \in Ctx BY <2>1 DEF Inv, Local
    <3>2. t \in CallRefs(arg[t]) BY <2>1 DEF CallRefs
    <3> QED BY <3>1, <3>2, Referenced
  <2>2. ASSUME NEW t \in Thread, call[t] = "del"
        PROVE  cmem[arg[t]] = "live" /\ qmem[arg[t]] = "live" /\ ~release[arg[t]]
    <3>1. arg[t] \in Ctx BY <2>2 DEF Inv, Local
    <3>2. cmem[arg[t]] = "live" /\ ref[arg[t]] = 0 BY <2>2 DEF Inv, Counted
    <3>3. ASSUME NEW u \in Thread, pc[u] = "create", new[u] = arg[t] PROVE FALSE
      <4>1. u \in NewRefs(arg[t]) BY <3>3 DEF NewRefs
      <4> QED BY <3>1, <3>2, <4>1, Referenced
    <3> QED BY <3>1, <3>2, <3>3 DEF Inv, Lives, TypeOK
  <2>3. ASSUME NEW t \in Thread, call[t] = "push" PROVE qmem[arg[t]] = "live"
    <3>1. arg[t] \in Ctx BY <2>3 DEF Inv, Local
    <3> QED BY <2>1, <2>3, <3>1 DEF Inv, Known, Lives, TypeOK
  <2>4. ASSUME NEW t \in Thread, pc[t] \in Busy PROVE cmem[hand[t]] = "live"
    <3>1. hand[t] \in Ctx BY <2>4, Labels DEF Busy, DispatchLabels, LaunchLabels
    <3>2. t \in HandRefs(hand[t]) BY <2>4 DEF HandRefs
    <3> QED BY <3>1, <3>2, Referenced
  <2>5. ASSUME NEW t \in Thread, pc[t] \in {"create", "init"} PROVE cmem[new[t]] = "live"
    <3>1. new[t] \in Ctx BY <2>5, Labels DEF LaunchLabels
    <3>2. t \in NewRefs(new[t]) BY <2>5 DEF NewRefs
    <3> QED BY <3>1, <3>2, Referenced
  <2>6. ASSUME NEW t \in Thread, pc[t] \in LateLabels, new[t] \in slot
        PROVE  cmem[new[t]] = "live"
    <3>1. new[t] \in Ctx BY <2>6, Labels DEF LateLabels, LaunchLabels
    <3>2. ref[new[t]] > 0 BY <2>6, <3>1, Referenced
    <3> QED BY <3>1, <3>2 DEF Inv, Counted
  <2>7. SourceAssertions BY <2>2 DEF SourceAssertions, Inv, Initialised, Busy
  <2> QED BY <2>1, <2>2, <2>3, <2>4, <2>5, <2>6, <2>7 DEF NoUseAfterFree, Inv, QueueAlive, Busy
<1> QED BY <1>1, AlwaysInv, PTL

-----------------------------------------------------------------------------
(* Messages of one sender arrive in order.                                 *)

InSendOrder == Inv /\ InFlight /\ InOrder

\* Thread t takes a step that neither moves a message nor leaves it pushing.
Quiet(t) ==
    /\ UNCHANGED <<box, handled, nsent, load>>
    /\ ~Pushing(t)'
    /\ \A u \in Thread \ {t} : call'[u] = call[u] /\ pc'[u] = pc[u]
                               /\ hand'[u] = hand[u] /\ new'[u] = new[u]

LEMMA QuietKeepsOrder ==
    ASSUME InSendOrder, NEW t \in Thread, Quiet(t)
    PROVE  InFlight' /\ InOrder'
<1>1. InOrder' BY DEF InSendOrder, InOrder, Ordered, Quiet
<1>2. \A u \in Thread : Pushing(u)' => u # t /\ Pushing(u) BY DEF Quiet, Pushing
<1>3. InFlight' BY <1>2 DEF InSendOrder, InFlight, Ordered, Quiet
<1> QED BY <1>1, <1>3

\* Two threads that push are two senders.
LEMMA SendersDiffer ==
    ASSUME InSendOrder, NEW t \in Thread, NEW u \in Thread, Pushing(t), Pushing(u), t # u
    PROVE  load[t].src # load[u].src
<1>1. Ctx \cap Ext = {} BY DispatchAssumption
<1>2. \A v \in {t, u} : Pushing(v) =>
         \/ pc[v] = "ext" /\ v \in Ext /\ load[v].src = v
         \/ load[v].src \in Ctx /\ Holds(v, load[v].src)
  BY Labels DEF InSendOrder, InFlight, Inv, Local, DispatchLabels, LaunchLabels
<1> QED BY <1>1, <1>2 DEF InSendOrder, Inv, Owned

\* The types a step needs to know what it left alone.
LEMMA OtherThreads ==
    ASSUME InSendOrder, NEW t \in Thread
    PROVE  /\ \A l : \A u \in Thread \ {t} : [pc EXCEPT ![t] = l][u] = pc[u]
           /\ \A l : \A u \in Thread \ {t} : [call EXCEPT ![t] = l][u] = call[u]
           /\ \A l : \A u \in Thread \ {t} : [hand EXCEPT ![t] = l][u] = hand[u]
           /\ \A l : \A u \in Thread \ {t} : [new EXCEPT ![t] = l][u] = new[u]
           /\ \A l : [call EXCEPT ![t] = l][t] = l
  BY DEF InSendOrder, Inv, TypeOK

LEMMA QuietSteps ==
    ASSUME InSendOrder, NEW t \in Thread,
           \/ ReleaseRef(t) \/ DeleteContext(t)
           \/ t \in Worker /\ (TakeQueue(t) \/ GrabContext(t) \/ ReleaseHand(t) \/ FreeHand(t)
                               \/ MeasureBatch(t) \/ PopEmpty(t) \/ CallbackReturns(t) \/ KeepQueue(t)
                               \/ TakeNext(t) \/ PushBack(t))
           \/ t \in Worker /\ (CreateQueue(t) \/ SetInit(t) \/ ListNew(t) \/ ReportLaunch(t)
                               \/ RetireFailed(t) \/ ReleaseFailed(t) \/ FreeFailed(t)
                               \/ \E ok \in BOOLEAN : InitReturns(t, ok))
           \/ t \in Worker /\ (Retire(t) \/ Register(t))
    PROVE  Quiet(t)
<1> USE OtherThreads DEF Quiet, Pushing, At, Goto, Call, queueVars, ctxVars, mainVars, callVars,
        ghostVars
<1>1. CASE ReleaseRef(t) BY <1>1 DEF ReleaseRef
<1>2. CASE DeleteContext(t) BY <1>2 DEF DeleteContext
<1>3. CASE TakeQueue(t) BY <1>3 DEF TakeQueue
<1>4. CASE GrabContext(t)
  <2>1. \E l : pc' = [pc EXCEPT ![t] = l] BY <1>4 DEF GrabContext
  <2>2. /\ UNCHANGED <<box, handled, nsent, load, call, hand, new>>
        /\ call[t] = "none"
    BY <1>4 DEF GrabContext
  <2> QED BY <2>1, <2>2
<1>5. CASE ReleaseHand(t)
  <2>1. /\ \E l : pc' = [pc EXCEPT ![t] = l]
        /\ hand' = hand \/ \E l : hand' = [hand EXCEPT ![t] = l]
        /\ new' = new \/ \E l : new' = [new EXCEPT ![t] = l]
    BY <1>5 DEF ReleaseHand, MqRelease
  <2>2. UNCHANGED <<box, handled, nsent, load, call>> /\ call[t] = "none"
    BY <1>5 DEF ReleaseHand, MqRelease
  <2>3. \A u \in Thread \ {t} : pc'[u] = pc[u] BY <2>1
  <2>4. \A u \in Thread \ {t} : hand'[u] = hand[u]
    <3>1. CASE hand' = hand BY <3>1
    <3>2. CASE \E l : hand' = [hand EXCEPT ![t] = l] BY <3>2
    <3> QED BY <2>1, <3>1, <3>2
  <2>5. \A u \in Thread \ {t} : new'[u] = new[u]
    <3>1. CASE new' = new BY <3>1
    <3>2. CASE \E l : new' = [new EXCEPT ![t] = l] BY <3>2
    <3> QED BY <2>1, <3>1, <3>2
  <2> QED BY <2>2, <2>3, <2>4, <2>5
<1>6. CASE FreeHand(t) BY <1>6 DEF FreeHand, FreeQueue
<1>7. CASE PopEmpty(t) BY <1>7 DEF PopEmpty
<1>8. CASE CallbackReturns(t) BY <1>8 DEF CallbackReturns
<1>9. CASE KeepQueue(t) BY <1>9 DEF KeepQueue
<1>10. CASE TakeNext(t) BY <1>10 DEF TakeNext
<1>11. CASE PushBack(t) BY <1>11 DEF PushBack
<1>12. CASE CreateQueue(t) BY <1>12 DEF CreateQueue
<1>13. CASE SetInit(t) BY <1>13 DEF SetInit
<1>14. CASE ListNew(t)
  <2>1. UNCHANGED <<box, handled, nsent, load, call, hand>> /\ call[t] = "none"
    BY <1>14 DEF ListNew
  <2>2. /\ \E l : pc' = [pc EXCEPT ![t] = l]
        /\ new' = new \/ new' = [new EXCEPT ![t] = None]
    BY <1>14 DEF ListNew
  <2>3. \A u \in Thread \ {t} : pc'[u] = pc[u] BY <2>2
  <2>4. \A u \in Thread \ {t} : new'[u] = new[u]
    <3>1. CASE new' = new BY <3>1
    <3>2. CASE new' = [new EXCEPT ![t] = None] BY <3>2
    <3> QED BY <2>2, <3>1, <3>2
  <2> QED BY <2>1, <2>3, <2>4
<1>21. CASE MeasureBatch(t) BY <1>21 DEF MeasureBatch
<1>22. CASE ReportLaunch(t) BY <1>22 DEF ReportLaunch
<1>15. CASE RetireFailed(t) BY <1>15 DEF RetireFailed
<1>16. CASE ReleaseFailed(t)
  <2>1. /\ \E l : pc' = [pc EXCEPT ![t] = l]
        /\ hand' = hand \/ \E l : hand' = [hand EXCEPT ![t] = l]
        /\ new' = new \/ \E l : new' = [new EXCEPT ![t] = l]
    BY <1>16 DEF ReleaseFailed, MqRelease
  <2>2. UNCHANGED <<box, handled, nsent, load, call>> /\ call[t] = "none"
    BY <1>16 DEF ReleaseFailed, MqRelease
  <2>3. \A u \in Thread \ {t} : pc'[u] = pc[u] BY <2>1
  <2>4. \A u \in Thread \ {t} : hand'[u] = hand[u]
    <3>1. CASE hand' = hand BY <3>1
    <3>2. CASE \E l : hand' = [hand EXCEPT ![t] = l] BY <3>2
    <3> QED BY <2>1, <3>1, <3>2
  <2>5. \A u \in Thread \ {t} : new'[u] = new[u]
    <3>1. CASE new' = new BY <3>1
    <3>2. CASE \E l : new' = [new EXCEPT ![t] = l] BY <3>2
    <3> QED BY <2>1, <3>1, <3>2
  <2> QED BY <2>2, <2>3, <2>4, <2>5
<1>17. CASE FreeFailed(t) BY <1>17 DEF FreeFailed, FreeQueue
<1>18. CASE \E ok \in BOOLEAN : InitReturns(t, ok) BY <1>18 DEF InitReturns
<1>19. CASE Retire(t) BY <1>19 DEF Retire
<1>20. CASE Register(t) BY <1>20 DEF Register
<1> QED BY <1>1, <1>2, <1>3, <1>4, <1>5, <1>6, <1>7, <1>8, <1>9, <1>10, <1>11, <1>12, <1>13,
           <1>14, <1>15, <1>16, <1>17, <1>18, <1>19, <1>20, <1>21, <1>22

LEMMA PushGrabOrder ==
    ASSUME InSendOrder, NEW t \in Thread, PushGrab(t) PROVE InFlight' /\ InOrder'
<1>0. /\ call[t] = "grab" /\ \E l : call' = [call EXCEPT ![t] = l]
      /\ UNCHANGED <<box, handled, nsent, load, pc, hand, new>>
  BY DEF PushGrab, queueVars, mainVars, ghostVars
<1>1. InOrder' BY <1>0 DEF InSendOrder, InOrder, Ordered
<1>2. \A u \in Thread : Pushing(u)' => Pushing(u) BY <1>0, OtherThreads DEF Pushing
<1> QED BY <1>0, <1>1, <1>2 DEF InSendOrder, InFlight, Ordered

LEMMA MqPushOrder ==
    ASSUME InSendOrder, NEW t \in Thread, MqPush(t) PROVE InFlight' /\ InOrder'
<1> PICK c : c = arg[t] OBVIOUS
<1> PICK m : m = load[t] OBVIOUS
<1>0. /\ c \in Ctx /\ m \in Message /\ call[t] = "push"
      /\ box' = [box EXCEPT ![c] = Append(box[c], m)]
      /\ call' = [call EXCEPT ![t] = "dec"]
      /\ UNCHANGED <<handled, nsent, load, pc, hand, new>>
  BY DEF MqPush, Stored, mainVars, ghostVars, InSendOrder, Inv, Local, TypeOK
<1>a. box \in [Ctx -> Seq(Message)] BY DEF InSendOrder, Inv, TypeOK
<1>b. /\ \A d \in Ctx \ {c} : box'[d] = box[d]
      /\ Len(box[c]) \in Nat /\ DOMAIN box[c] = 1..Len(box[c])
      /\ DOMAIN box'[c] = 1..(Len(box[c]) + 1)
      /\ \A i \in 1..Len(box[c]) : box'[c][i] = box[c][i]
      /\ box'[c][Len(box[c]) + 1] = m
  BY <1>0, <1>a
<1>c. \A d \in Ctx : \A i \in DOMAIN box'[d] : 
         box'[d][i] = m \/ (i \in DOMAIN box[d] /\ box'[d][i] = box[d][i])
  <2> SUFFICES ASSUME NEW d \in Ctx, NEW i \in DOMAIN box'[d]
               PROVE  box'[d][i] = m \/ (i \in DOMAIN box[d] /\ box'[d][i] = box[d][i])
    OBVIOUS
  <2>1. CASE d # c BY <1>b, <2>1
  <2>2. CASE d = c
    <3>1. i \in 1..(Len(box[c]) + 1) BY <1>b, <2>2
    <3>2. i = Len(box[c]) + 1 \/ i \in 1..Len(box[c]) BY <1>b, <3>1
    <3> QED BY <1>b, <2>2, <3>2
  <2> QED BY <2>1, <2>2
<1>d. ~m.err => /\ m.id <= nsent
                /\ \A d \in Ctx : \A i \in DOMAIN box[d] : Ordered(box[d][i], m)
                /\ \A d \in Ctx : \A i \in DOMAIN handled[d] : Ordered(handled[d][i], m)
  BY <1>0 DEF InSendOrder, InFlight, Pushing
<1>e. \A a : m.err => Ordered(a, m) /\ Ordered(m, a) BY DEF Ordered
<1>1. InOrder'
  <2> SUFFICES ASSUME NEW d \in Ctx
               PROVE  /\ \A i \in DOMAIN box'[d] : ~box'[d][i].err => box'[d][i].id <= nsent
                      /\ \A i, j \in DOMAIN box'[d] : i < j => Ordered(box'[d][i], box'[d][j])
                      /\ \A i \in DOMAIN handled[d], j \in DOMAIN box'[d] :
                            Ordered(handled[d][i], box'[d][j])
    BY <1>0 DEF InSendOrder, InOrder, Ordered
  <2>1. \A i \in DOMAIN box'[d] : ~box'[d][i].err => box'[d][i].id <= nsent
    BY <1>c, <1>d DEF InSendOrder, InOrder
  <2>2. \A i, j \in DOMAIN box'[d] : i < j => Ordered(box'[d][i], box'[d][j])
    <3> SUFFICES ASSUME NEW i \in DOMAIN box'[d], NEW j \in DOMAIN box'[d], i < j
                 PROVE  Ordered(box'[d][i], box'[d][j])
      OBVIOUS
    <3>1. CASE d # c BY <1>b, <3>1 DEF InSendOrder, InOrder
    <3>2. CASE d = c /\ j = Len(box[c]) + 1
      <4>1. i \in DOMAIN box[d] /\ box'[d][i] = box[d][i] /\ box'[d][j] = m BY <1>b, <3>2
      <4> QED BY <1>d, <1>e, <4>1
    <3>3. CASE d = c /\ j # Len(box[c]) + 1
      <4>0. i \in 1..Len(box[c]) /\ j \in 1..Len(box[c])
        <5>1. i \in 1..(Len(box[c]) + 1) /\ j \in 1..(Len(box[c]) + 1) BY <1>b, <3>3
        <5> QED BY <1>b, <3>3, <5>1
      <4>1. /\ i \in DOMAIN box[d] /\ j \in DOMAIN box[d]
            /\ box'[d][i] = box[d][i] /\ box'[d][j] = box[d][j]
        BY <1>b, <3>3, <4>0
      <4> QED BY <4>1 DEF InSendOrder, InOrder
    <3> QED BY <3>1, <3>2, <3>3
  <2>3. \A i \in DOMAIN handled[d], j \in DOMAIN box'[d] : Ordered(handled[d][i], box'[d][j])
    <3> SUFFICES ASSUME NEW i \in DOMAIN handled[d], NEW j \in DOMAIN box'[d]
                 PROVE  Ordered(handled[d][i], box'[d][j])
      OBVIOUS
    <3>1. CASE box'[d][j] = m BY <1>d, <1>e, <3>1
    <3>2. CASE j \in DOMAIN box[d] /\ box'[d][j] = box[d][j]
      BY <3>2 DEF InSendOrder, InOrder
    <3> QED BY <1>c, <3>1, <3>2
  <2> QED BY <2>1, <2>2, <2>3
<1>2. InFlight'
  <2> SUFFICES ASSUME NEW u \in Thread, Pushing(u)'
               PROVE  /\ \/ pc[u] = "cb" /\ load[u].src = hand[u]
                         \/ pc[u] = "init" /\ load[u].src = new[u]
                         \/ pc[u] = "ext" /\ load[u].src = u
                      /\ load[u].id <= nsent
                      /\ \A d \in Ctx : \A i \in DOMAIN box'[d] : Ordered(box'[d][i], load[u])
                      /\ \A d \in Ctx : \A i \in DOMAIN handled[d] :
                            Ordered(handled[d][i], load[u])
    BY <1>0 DEF InFlight, Ordered
  <2>1. u # t /\ Pushing(u) BY <1>0, OtherThreads DEF Pushing
  <2>2. Ordered(m, load[u])
    <3>1. CASE m.err BY <1>e, <3>1
    <3>2. CASE ~m.err
      <4>1. Pushing(t) BY <1>0, <3>2 DEF Pushing
      <4> QED BY <2>1, <4>1, SendersDiffer DEF Ordered
    <3> QED BY <3>1, <3>2
  <2>3. \A d \in Ctx : \A i \in DOMAIN box'[d] : Ordered(box'[d][i], load[u])
    <3> SUFFICES ASSUME NEW d \in Ctx, NEW i \in DOMAIN box'[d]
                 PROVE  Ordered(box'[d][i], load[u])
      OBVIOUS
    <3>1. CASE box'[d][i] = m BY <2>2, <3>1
    <3>2. CASE i \in DOMAIN box[d] /\ box'[d][i] = box[d][i]
      BY <2>1, <3>2 DEF InSendOrder, InFlight
    <3> QED BY <1>c, <3>1, <3>2
  <2> QED BY <2>1, <2>3 DEF InSendOrder, InFlight
<1> QED BY <1>1, <1>2

LEMMA DropMessageOrder ==
    ASSUME InSendOrder, NEW t \in Thread, NEW c \in Ctx,
           \E l : DropMessage(t, c, l)
    PROVE  InFlight' /\ InOrder'
<1>0. /\ call[t] = "none" /\ box[c] # << >>
      /\ box' = [box EXCEPT ![c] = Tail(box[c])]
      /\ UNCHANGED <<pc, hand, new, nsent, handled>>
      /\ \/ UNCHANGED <<call, arg, load>>
         \/ \E m : /\ call' = [call EXCEPT ![t] = "grab"]
                   /\ load' = [load EXCEPT ![t] = [id |-> m.id, src |-> c, err |-> TRUE]]
  BY DEF DropMessage, At, ReportDrop, mainVars, callVars
<1>a. box \in [Ctx -> Seq(Message)] /\ load \in [Thread -> Message]
  BY DEF InSendOrder, Inv, TypeOK
<1>b. /\ \A d \in Ctx \ {c} : box'[d] = box[d]
      /\ \A i \in DOMAIN box'[c] : i \in Nat /\ i + 1 \in DOMAIN box[c] /\ box'[c][i] = box[c][i + 1]
  BY <1>0, <1>a
<1>c. \A d \in Ctx : \A i \in DOMAIN box'[d] : \E k \in DOMAIN box[d] : box'[d][i] = box[d][k]
  BY <1>b
<1>1. InOrder'
  <2>1. \A d \in Ctx : \A i, j \in DOMAIN box'[d] : i < j => Ordered(box'[d][i], box'[d][j])
    <3> SUFFICES ASSUME NEW d \in Ctx, NEW i \in DOMAIN box'[d], NEW j \in DOMAIN box'[d], i < j
                 PROVE  Ordered(box'[d][i], box'[d][j])
      OBVIOUS
    <3>1. CASE d # c BY <1>b, <3>1 DEF InSendOrder, InOrder
    <3>2. CASE d = c
      <4>1. i + 1 < j + 1 BY <1>b, <3>2
      <4> QED BY <1>b, <3>2, <4>1 DEF InSendOrder, InOrder
    <3> QED BY <3>1, <3>2
  <2>2. \A d \in Ctx : \A i \in DOMAIN handled[d], j \in DOMAIN box'[d] :
           Ordered(handled[d][i], box'[d][j])
    BY <1>c DEF InSendOrder, InOrder
  <2>3. \A d \in Ctx : \A i \in DOMAIN box'[d] : ~box'[d][i].err => box'[d][i].id <= nsent
    BY <1>c DEF InSendOrder, InOrder
  <2> QED BY <1>0, <2>1, <2>2, <2>3 DEF InSendOrder, InOrder, Ordered
<1>2. InFlight'
  <2>1. ASSUME NEW u \in Thread, Pushing(u)' PROVE Pushing(u) /\ load'[u] = load[u]
    <3>1. CASE UNCHANGED <<call, arg, load>> BY <2>1, <3>1 DEF Pushing
    <3>2. CASE \E m : /\ call' = [call EXCEPT ![t] = "grab"]
                      /\ load' = [load EXCEPT ![t] = [id |-> m.id, src |-> c, err |-> TRUE]]
      <4>1. u # t BY <1>a, <2>1, <3>2 DEF Pushing
      <4> QED BY <1>a, <2>1, <3>2, <4>1, OtherThreads DEF Pushing
    <3> QED BY <1>0, <3>1, <3>2
  <2>2. \A u \in Thread : Pushing(u)' =>
           \A d \in Ctx : \A i \in DOMAIN box'[d] : Ordered(box'[d][i], load'[u])
    BY <1>c, <2>1 DEF InSendOrder, InFlight
  <2> QED BY <1>0, <2>1, <2>2 DEF InSendOrder, InFlight, Ordered
<1> QED BY <1>1, <1>2

LEMMA PopMessageOrder ==
    ASSUME InSendOrder, NEW w \in Worker, PopMessage(w) PROVE InFlight' /\ InOrder'
<1> PICK c : c = hand[w] OBVIOUS
<1> PICK m : m = Head(box[c]) OBVIOUS
<1>0. /\ w \in Thread /\ pc[w] \in {"first", "more"} /\ call[w] = "none" /\ box[c] # << >>
      /\ box' = [box EXCEPT ![c] = Tail(box[c])]
      /\ handled' = [handled EXCEPT ![c] = Append(handled[c], m)]
      /\ \E l : pc' = [pc EXCEPT ![w] = l]
      /\ UNCHANGED <<hand, new, call, load, nsent>>
  BY DEF PopMessage, At, Goto, Thread, callVars
<1>a. /\ box \in [Ctx -> Seq(Message)] /\ handled \in [Ctx -> Seq(Message)]
      /\ c \in Ctx
  BY <1>0, Labels DEF InSendOrder, Inv, TypeOK, DispatchLabels
<1>b. /\ \A d \in Ctx \ {c} : box'[d] = box[d] /\ handled'[d] = handled[d]
      /\ \A i \in DOMAIN box'[c] : i \in Nat \ {0} /\ i + 1 \in DOMAIN box[c]
                                   /\ box'[c][i] = box[c][i + 1]
      /\ 1 \in DOMAIN box[c] /\ m = box[c][1]
  BY <1>0, <1>a
<1>c. /\ Len(handled[c]) \in Nat /\ DOMAIN handled[c] = 1..Len(handled[c])
      /\ DOMAIN handled'[c] = 1..(Len(handled[c]) + 1)
      /\ \A i \in 1..Len(handled[c]) : handled'[c][i] = handled[c][i]
      /\ handled'[c][Len(handled[c]) + 1] = m
  BY <1>0, <1>a
<1>d. \A d \in Ctx : \A i \in DOMAIN box'[d] : \E k \in DOMAIN box[d] : box'[d][i] = box[d][k]
  BY <1>b
<1>e. \A d \in Ctx : \A i \in DOMAIN handled'[d] :
         \/ d = c /\ i = Len(handled[c]) + 1 /\ handled'[d][i] = m
         \/ i \in DOMAIN handled[d] /\ handled'[d][i] = handled[d][i]
  <2> SUFFICES ASSUME NEW d \in Ctx, NEW i \in DOMAIN handled'[d]
               PROVE  \/ d = c /\ i = Len(handled[c]) + 1 /\ handled'[d][i] = m
                      \/ i \in DOMAIN handled[d] /\ handled'[d][i] = handled[d][i]
    OBVIOUS
  <2>1. CASE d # c BY <1>b, <2>1
  <2>2. CASE d = c
    <3>1. i \in 1..(Len(handled[c]) + 1) BY <1>c, <2>2
    <3>2. i = Len(handled[c]) + 1 \/ i \in 1..Len(handled[c]) BY <1>c, <3>1
    <3> QED BY <1>c, <2>2, <3>2
  <2> QED BY <2>1, <2>2
<1>1. InOrder'
  <2> SUFFICES ASSUME NEW d \in Ctx
        PROVE  /\ \A i \in DOMAIN box'[d] : ~box'[d][i].err => box'[d][i].id <= nsent
               /\ \A i \in DOMAIN handled'[d] : ~handled'[d][i].err => handled'[d][i].id <= nsent
               /\ \A i, j \in DOMAIN box'[d] : i < j => Ordered(box'[d][i], box'[d][j])
               /\ \A i, j \in DOMAIN handled'[d] : i < j =>
                     Ordered(handled'[d][i], handled'[d][j])
               /\ \A i \in DOMAIN handled'[d], j \in DOMAIN box'[d] :
                     Ordered(handled'[d][i], box'[d][j])
    BY <1>0 DEF InOrder, Ordered
  <2>1. \A i \in DOMAIN box'[d] : ~box'[d][i].err => box'[d][i].id <= nsent
    BY <1>d DEF InSendOrder, InOrder
  <2>2. \A i \in DOMAIN handled'[d] : ~handled'[d][i].err => handled'[d][i].id <= nsent
    BY <1>a, <1>b, <1>e DEF InSendOrder, InOrder
  <2>3. \A i, j \in DOMAIN box'[d] : i < j => Ordered(box'[d][i], box'[d][j])
    <3> SUFFICES ASSUME NEW i \in DOMAIN box'[d], NEW j \in DOMAIN box'[d], i < j
                 PROVE  Ordered(box'[d][i], box'[d][j])
      OBVIOUS
    <3>1. CASE d # c BY <1>b, <3>1 DEF InSendOrder, InOrder
    <3>2. CASE d = c
      <4>1. i + 1 < j + 1 BY <1>b, <3>2
      <4> QED BY <1>b, <3>2, <4>1 DEF InSendOrder, InOrder
    <3> QED BY <3>1, <3>2
  <2>4. \A i, j \in DOMAIN handled'[d] : i < j => Ordered(handled'[d][i], handled'[d][j])
    <3> SUFFICES ASSUME NEW i \in DOMAIN handled'[d], NEW j \in DOMAIN handled'[d], i < j
                 PROVE  Ordered(handled'[d][i], handled'[d][j])
      OBVIOUS
    <3>1. CASE d # c BY <1>b, <3>1 DEF InSendOrder, InOrder
    <3>2. CASE d = c
      <4>1. i \in DOMAIN handled[c] /\ handled'[c][i] = handled[c][i]
        <5>1. i \in 1..(Len(handled[c]) + 1) /\ j \in 1..(Len(handled[c]) + 1) BY <1>c, <3>2
        <5>2. i \in 1..Len(handled[c]) BY <1>c, <5>1
        <5> QED BY <1>c, <5>2
      <4>2. CASE handled'[c][j] = m BY <1>b, <3>2, <4>1, <4>2 DEF InSendOrder, InOrder
      <4>3. CASE j \in DOMAIN handled[c] /\ handled'[c][j] = handled[c][j]
        BY <3>2, <4>1, <4>3 DEF InSendOrder, InOrder
      <4> QED BY <1>e, <3>2, <4>2, <4>3
    <3> QED BY <3>1, <3>2
  <2>5. \A i \in DOMAIN handled'[d], j \in DOMAIN box'[d] : Ordered(handled'[d][i], box'[d][j])
    <3> SUFFICES ASSUME NEW i \in DOMAIN handled'[d], NEW j \in DOMAIN box'[d]
                 PROVE  Ordered(handled'[d][i], box'[d][j])
      OBVIOUS
    <3>1. CASE i \in DOMAIN handled[d] /\ handled'[d][i] = handled[d][i]
      BY <1>d, <3>1 DEF InSendOrder, InOrder
    <3>2. CASE d = c /\ handled'[d][i] = m
      <4>1. 1 < j + 1 /\ j + 1 \in DOMAIN box[c] /\ box'[c][j] = box[c][j + 1] BY <1>b, <3>2
      <4> QED BY <1>b, <3>2, <4>1 DEF InSendOrder, InOrder
    <3> QED BY <1>e, <3>1, <3>2
  <2> QED BY <2>1, <2>2, <2>3, <2>4, <2>5
<1>2. InFlight'
  <2>1. \A u \in Thread : Pushing(u)' => Pushing(u) /\ u # w /\ pc'[u] = pc[u]
    BY <1>0, OtherThreads DEF Pushing
  <2>2. \A u \in Thread : Pushing(u) =>
           \A d \in Ctx : \A i \in DOMAIN box'[d] : Ordered(box'[d][i], load[u])
    BY <1>d DEF InSendOrder, InFlight
  <2>3. \A u \in Thread : Pushing(u) =>
           \A d \in Ctx : \A i \in DOMAIN handled'[d] : Ordered(handled'[d][i], load[u])
    <3> SUFFICES ASSUME NEW u \in Thread, Pushing(u), NEW d \in Ctx, NEW i \in DOMAIN handled'[d]
                 PROVE  Ordered(handled'[d][i], load[u])
      OBVIOUS
    <3>1. CASE handled'[d][i] = m BY <1>a, <1>b, <3>1 DEF InSendOrder, InFlight
    <3>2. CASE i \in DOMAIN handled[d] /\ handled'[d][i] = handled[d][i]
      BY <3>2 DEF InSendOrder, InFlight
    <3> QED BY <1>e, <3>1, <3>2
  <2> QED BY <1>0, <2>1, <2>2, <2>3 DEF InSendOrder, InFlight, Ordered
<1> QED BY <1>1, <1>2

LEMMA SendOrder ==
    ASSUME InSendOrder, NEW t \in Thread, Send(t) PROVE InFlight' /\ InOrder'
<1> PICK m : /\ m = [id |-> nsent + 1, src |-> Running(t), err |-> FALSE]
             /\ load' = [load EXCEPT ![t] = m] /\ call' = [call EXCEPT ![t] = "grab"]
  BY DEF Send
<1>0. /\ pc[t] \in {"cb", "init", "ext"} /\ call[t] = "none" /\ nsent' = nsent + 1
      /\ UNCHANGED <<box, handled, pc, hand, new>>
  BY DEF Send, At, queueVars, mainVars
<1>a. /\ nsent \in Nat /\ load \in [Thread -> Message]
      /\ \A d \in Ctx : \A i \in DOMAIN box[d] : box[d][i].id \in Nat
      /\ \A d \in Ctx : \A i \in DOMAIN handled[d] : handled[d][i].id \in Nat
      /\ \A u \in Thread : load[u].id \in Nat
  <2>1. \A x \in Message : x.id \in Nat BY DEF Message
  <2>2. \A d \in Ctx : \A i \in DOMAIN box[d] : box[d][i] \in Message
    BY DEF InSendOrder, Inv, TypeOK
  <2>3. \A d \in Ctx : \A i \in DOMAIN handled[d] : handled[d][i] \in Message
    BY DEF InSendOrder, Inv, TypeOK
  <2>4. nsent \in Nat /\ load \in [Thread -> Message] BY DEF InSendOrder, Inv, TypeOK
  <2> QED BY <2>1, <2>2, <2>3, <2>4
<1>1. InOrder'
  <2>1. \A d \in Ctx : \A i \in DOMAIN box[d] : ~box[d][i].err => box[d][i].id <= nsent + 1
    BY <1>a DEF InSendOrder, InOrder
  <2>2. \A d \in Ctx : \A i \in DOMAIN handled[d] :
           ~handled[d][i].err => handled[d][i].id <= nsent + 1
    BY <1>a DEF InSendOrder, InOrder
  <2> QED BY <1>0, <2>1, <2>2 DEF InSendOrder, InOrder, Ordered
<1>2. InFlight'
  <2> SUFFICES ASSUME NEW u \in Thread, Pushing(u)'
        PROVE  /\ \/ pc[u] = "cb" /\ load'[u].src = hand[u]
                  \/ pc[u] = "init" /\ load'[u].src = new[u]
                  \/ pc[u] = "ext" /\ load'[u].src = u
               /\ load'[u].id <= nsent + 1
               /\ \A d \in Ctx : \A i \in DOMAIN box[d] : Ordered(box[d][i], load'[u])
               /\ \A d \in Ctx : \A i \in DOMAIN handled[d] : Ordered(handled[d][i], load'[u])
    BY <1>0 DEF InFlight, Ordered
  <2>1. CASE u = t
    <3>1. load'[u] = m BY <1>a, <2>1
    <3>2. /\ pc[t] = "cb" => m.src = hand[t]
          /\ pc[t] = "init" => m.src = new[t]
          /\ pc[t] = "ext" => m.src = t
      BY <1>0 DEF Running, At
    <3>3. \A d \in Ctx : \A i \in DOMAIN box[d] : Ordered(box[d][i], m)
      BY <1>a DEF InSendOrder, InOrder, Ordered
    <3>4. \A d \in Ctx : \A i \in DOMAIN handled[d] : Ordered(handled[d][i], m)
      BY <1>a DEF InSendOrder, InOrder, Ordered
    <3>5. m.id <= nsent + 1 BY <1>a
    <3>6. \/ pc[u] = "cb" /\ m.src = hand[u]
          \/ pc[u] = "init" /\ m.src = new[u]
          \/ pc[u] = "ext" /\ m.src = u
      BY <1>0, <2>1, <3>2
    <3> QED BY <3>1, <3>3, <3>4, <3>5, <3>6
  <2>2. CASE u # t
    <3>1. Pushing(u) /\ load'[u] = load[u] BY <1>a, <2>2, OtherThreads DEF Pushing
    <3>2. load[u].id <= nsent BY <3>1 DEF InSendOrder, InFlight
    <3> QED BY <1>a, <3>1, <3>2 DEF InSendOrder, InFlight
  <2> QED BY <2>1, <2>2
<1> QED BY <1>1, <1>2

LEMMA InSendOrderInv == InSendOrder /\ [Next]_vars => InSendOrder'
<1> SUFFICES ASSUME InSendOrder, [Next]_vars PROVE InSendOrder' OBVIOUS
<1>0. Inv /\ Inv' BY NextInv DEF InSendOrder
<1>1. ASSUME NEW t \in Thread, Called(t) \/ Send(t) PROVE InFlight' /\ InOrder'
  BY <1>1, PushGrabOrder, MqPushOrder, SendOrder, QuietSteps, QuietKeepsOrder DEF Called
<1>2. ASSUME NEW w \in Worker, Dispatching(w) PROVE InFlight' /\ InOrder'
  <2>1. w \in Thread BY DEF Thread
  <2>2. CASE DropHand(w)
    <3>1. pc[w] = "drop" BY <2>2 DEF DropHand, DropMessage, At
    <3>2. hand[w] \in Ctx BY <1>0, <2>1, <3>1, Labels DEF DispatchLabels
    <3> QED BY <2>1, <2>2, <3>2, DropMessageOrder DEF DropHand
  <2> QED BY <1>2, <2>1, <2>2, PopMessageOrder, QuietSteps, QuietKeepsOrder DEF Dispatching
<1>3. ASSUME NEW w \in Worker, Launching(w) PROVE InFlight' /\ InOrder'
  <2>1. w \in Thread BY DEF Thread
  <2>2. CASE DropFailed(w)
    <3>1. pc[w] = "fdrop" BY <2>2 DEF DropFailed, DropMessage, At
    <3>2. new[w] \in Ctx BY <1>0, <2>1, <3>1, Labels DEF LaunchLabels
    <3> QED BY <2>1, <2>2, <3>2, DropMessageOrder DEF DropFailed
  <2> QED BY <1>3, <2>1, <2>2, QuietSteps, QuietKeepsOrder DEF Launching
<1>4. ASSUME NEW w \in Worker, Retire(w) \/ Register(w) PROVE InFlight' /\ InOrder'
  <2>1. w \in Thread BY DEF Thread
  <2> QED BY <1>4, <2>1, QuietSteps, QuietKeepsOrder
<1>5. ASSUME UNCHANGED vars PROVE InFlight' /\ InOrder'
  <2>1. UNCHANGED <<box, handled, nsent, call, load, pc, hand, new>>
    BY <1>5 DEF vars, queueVars, mainVars, callVars, ghostVars
  <2>2. \A t \in Thread : Pushing(t)' <=> Pushing(t) BY <2>1 DEF Pushing
  <2>3. InOrder' BY <2>1 DEF InSendOrder, InOrder, Ordered
  <2>4. InFlight' BY <2>1, <2>2 DEF InSendOrder, InFlight, Ordered
  <2> QED BY <2>3, <2>4
<1>6. InFlight' /\ InOrder' BY <1>1, <1>2, <1>3, <1>4, <1>5 DEF Next
<1> QED BY <1>0, <1>6 DEF InSendOrder

\* Messages one sender sends to a service reach its callback in the order in
\* which they were sent, whatever workers run the two (ztask_context_push,
\* ztask_mq_push and ztask_mq_pop).
THEOREM MessagesInOrder == Spec => []OrderKept
<1>1. Init => InSendOrder
  <2> SUFFICES ASSUME Init PROVE InSendOrder OBVIOUS
  <2>1. Inv BY InitInv
  <2>2. \A c \in Ctx : box[c] = << >> /\ handled[c] = << >> BY DEF Init
  <2>3. \A t \in Thread : ~Pushing(t) BY DEF Init, Pushing
  <2> QED BY <2>1, <2>2, <2>3 DEF InSendOrder, InFlight, InOrder
<1>2. InSendOrder => OrderKept BY DEF InSendOrder, InOrder, Ordered, OrderKept
<1> QED BY <1>1, <1>2, InSendOrderInv, PTL DEF Spec
=============================================================================
