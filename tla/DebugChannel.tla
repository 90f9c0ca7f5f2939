---------------------------- MODULE DebugChannel ----------------------------
(***************************************************************************)
(* The channel between the debug console's agent, which writes, and the    *)
(* service under debug, which reads (lua-debugchannel.c): a list of        *)
(* commands under a spinlock, with a count of the two ends.  Every         *)
(* operation is one critical section but the freeing of the channel, which *)
(* follows the unlocking.                                                  *)
(***************************************************************************)
EXTENDS Integers, Sequences

CONSTANTS End,          \* the ends that ever have the channel
          MaxCommands   \* bound: commands that are written

ASSUME ChanAssumption == End # {} /\ MaxCommands \in Nat

VARIABLES chan,  \* ref, list (head to tail), alive
          box,   \* each end: none, open, freeing, closed
          sent,  \* commands written so far
          got    \* commands read, in order

chanVars == <<chan, box, sent, got>>

\* channel_new: the agent of the console has the first end.
Agent == CHOOSE e \in End : TRUE
ChanInit ==
    /\ chan = [ref |-> 1, list |-> << >>, alive |-> TRUE]
    /\ box = [e \in End |-> IF e = Agent THEN "open" ELSE "none"]
    /\ sent = 0 /\ got = << >>

\* Mutant: whoever connects gets the channel.
Connect_Any(e) ==
    /\ box[e] = "none" /\ chan.alive
    /\ chan' = [chan EXCEPT !.ref = @ + 1] /\ box' = [box EXCEPT ![e] = "open"]
    /\ UNCHANGED <<sent, got>>

\* channel_connect: one other end, while the first one is there.  The pointer is
\* good as long as the agent has its end: it waits for the service to connect.
Connect(e) ==
    /\ box[e] = "none" /\ chan.alive
    /\ IF chan.ref = 1
       THEN chan' = [chan EXCEPT !.ref = 2] /\ box' = [box EXCEPT ![e] = "open"]
       ELSE chan' = chan /\ box' = [box EXCEPT ![e] = "closed"]
    /\ UNCHANGED <<sent, got>>
\* channel_write
Write(e) ==
    /\ box[e] = "open" /\ sent < MaxCommands
    /\ sent' = sent + 1 /\ chan' = [chan EXCEPT !.list = Append(@, sent + 1)]
    /\ UNCHANGED <<box, got>>
\* Mutant: the last command is read, not the first.
Read_Tail(e) ==
    /\ box[e] = "open" /\ chan.list # << >>
    /\ got' = Append(got, chan.list[Len(chan.list)])
    /\ chan' = [chan EXCEPT !.list = SubSeq(@, 1, Len(@) - 1)]
    /\ UNCHANGED <<box, sent>>

\* channel_read, when there is a command; without one it sleeps.
Read(e) ==
    /\ box[e] = "open" /\ chan.list # << >>
    /\ got' = Append(got, Head(chan.list)) /\ chan' = [chan EXCEPT !.list = Tail(@)]
    /\ UNCHANGED <<box, sent>>
\* channel_release: the last end frees the commands, then the channel.
Release(e) ==
    /\ box[e] = "open"
    /\ chan' = [chan EXCEPT !.ref = @ - 1, !.list = IF chan.ref = 1 THEN << >> ELSE @]
    /\ box' = [box EXCEPT ![e] = IF chan.ref = 1 THEN "freeing" ELSE "closed"]
    /\ UNCHANGED <<sent, got>>
Free(e) ==
    /\ box[e] = "freeing"
    /\ chan' = [chan EXCEPT !.alive = FALSE] /\ box' = [box EXCEPT ![e] = "closed"]
    /\ UNCHANGED <<sent, got>>

ChanNext == \E e \in End : Connect(e) \/ Write(e) \/ Read(e) \/ Release(e) \/ Free(e)
ChanSpec == ChanInit /\ [][ChanNext]_chanVars

-----------------------------------------------------------------------------
\* No end has the channel when it is freed, and there are never more than two.
TwoEnds ==
    LET open == {e \in End : box[e] = "open"} IN
    /\ ~chan.alive => open = {}
    /\ \A a, b, c \in open : a = b \/ b = c \/ a = c
\* Commands are read in the order in which they were written, none twice and none
\* left out.
CommandsInOrder == \A i \in DOMAIN got : got[i] = i

\* lua-debugchannel.c: never more than two ends, none when it is freed, and commands
\* arrive in order.
ChannelKept == TwoEnds /\ CommandsInOrder
=============================================================================
