------------------------------ MODULE DioStamp ------------------------------
(***************************************************************************)
(* Time stamps of the DIO mezzanine (wr-nic-dio.c): the gateware stamps    *)
(* input edges into one FIFO per channel, wrn_dio_interrupt moves them to  *)
(* a ring per channel, and the ioctl WR_DIO_CMD_STAMP reads the rings.     *)
(* Interrupt and ioctl share bhead, btail and the slots with no lock;      *)
(* ioctls exclude each other with the rtnl lock, which a waiting one drops *)
(* while it sleeps.                                                        *)
(*                                                                         *)
(* A stamp is the number of its edge on its channel; 0 stands for the      *)
(* zeroes of a slot that was never filled.  With OneCpu the interrupt      *)
(* preempts the ioctl between any two accesses and runs to its end;        *)
(* without it they interleave access by access.                            *)
(*                                                                         *)
(* Left out: a copy to the caller that faults, channel numbers above 4,    *)
(* and requests with F_NOW, the bit the check in line 222 really tests,    *)
(* which return -EINVAL and touch nothing.                                 *)
(***************************************************************************)
EXTENDS Integers, Sequences, FiniteSetsExt

CONSTANTS
  NCh,        \* channels (5)
  NBuf,       \* WRN_DIO_BUFFER_LEN
  NReply,     \* WR_DIO_N_STAMP
  MaxEvents,  \* bound on the edges of a run, per channel
  Readers,    \* processes that call the ioctl
  NoOne,      \* nobody holds the rtnl lock
  OneCpu      \* does the machine have a single processor?

ASSUME SizeAssumption == {NCh, NBuf, NReply} \subseteq Nat \ {0} /\ MaxEvents \in Nat
ASSUME ReadersAssumption == NoOne \notin Readers
ASSUME OneCpuAssumption == OneCpu \in BOOLEAN

Channel == 0..(NCh - 1)
Slot == 0..(NBuf - 1)
\* cmd->channel and the flags F_MASK and F_WAIT.
Request ==
  {q \in [chans : (SUBSET Channel) \ {{}}, mask : BOOLEAN, wait : BOOLEAN] :
     ~q.mask => \E c \in Channel : q.chans = {c}}

VARIABLES
  events,     \* edges stamped so far, per channel
  fifo,       \* the gateware's FIFO, per channel
  tsbuf, bhead, btail,  \* struct dio_channel
  irqOn,      \* the DIO interrupt is enabled in the VIC
  ipc,        \* wrn_dio_interrupt: where it is
  imask,      \* its local mask: channels still to serve
  ih, it,     \* its local h, and the btail it loaded
  rtnl,       \* who holds the rtnl lock
  rpc,        \* wrn_dio_cmd_stamp: where it is, per reader
  req,        \* the request of each reader
  rch,        \* its local ch
  rt,         \* the btail it loaded
  reply,      \* cmd->t[]: stamps collected so far
  atCall,     \* history: stamps pulled when the call began, per reader
  returned,   \* history: stamps returned to callers, per channel
  dropped     \* history: has the ring of a channel ever overflowed?

ringVars == <<tsbuf, bhead, btail>>
irqVars == <<irqOn, ipc, imask, ih, it>>
readVars == <<rtnl, rpc, req, rch, rt, reply, atCall>>
stampVars == <<events, fifo, ringVars, irqVars, readVars, returned, dropped>>

NoRequest == [chans |-> {}, mask |-> FALSE, wait |-> FALSE]

StampInit ==
  /\ events = [c \in Channel |-> 0]
  /\ fifo = [c \in Channel |-> << >>]
  /\ tsbuf = [c \in Channel |-> [s \in Slot |-> 0]]
  /\ bhead = [c \in Channel |-> 0]
  /\ btail = [c \in Channel |-> 0]
  /\ irqOn = TRUE
  /\ ipc = "idle"
  /\ imask = {}
  /\ ih = 0
  /\ it = 0
  /\ rtnl = NoOne
  /\ rpc = [r \in Readers |-> "idle"]
  /\ req = [r \in Readers |-> NoRequest]
  /\ rch = [r \in Readers |-> 0]
  /\ rt = [r \in Readers |-> 0]
  /\ reply = [r \in Readers |-> << >>]
  /\ atCall = [r \in Readers |-> [c \in Channel |-> 0]]
  /\ returned = [c \in Channel |-> << >>]
  /\ dropped = [c \in Channel |-> FALSE]

NextSlot(s) == (s + 1) % NBuf

-----------------------------------------------------------------------------
(* The gateware stamps an edge.  Its FIFO (256 entries) does not overflow  *)
(* within MaxEvents edges.                                                 *)

StampEdge(c) ==
  /\ events[c] < MaxEvents
  /\ events' = [events EXCEPT ![c] = @ + 1]
  /\ fifo' = [fifo EXCEPT ![c] = Append(@, events[c] + 1)]
  /\ UNCHANGED <<ringVars, irqVars, readVars, returned, dropped>>

-----------------------------------------------------------------------------
(* wrn_dio_interrupt.  NEMPTY is a level: a channel interrupts as long as  *)
(* its FIFO holds a stamp.  Channels are served in ascending order.        *)

\* The rate limit may turn the DIO interrupt off in the VIC; this pass goes on.
IrqEnter ==
  /\ ipc = "idle"
  /\ irqOn
  /\ imask' = {c \in Channel : fifo[c] # << >>}
  /\ imask' # {}
  /\ irqOn' \in BOOLEAN
  /\ ipc' = "pull"
  /\ UNCHANGED <<events, fifo, ringVars, ih, it, readVars, returned, dropped>>

\* The FIFO status is not empty: take a slot by advancing bhead ...
IrqTake ==
  /\ ipc = "pull"
  /\ LET c == Min(imask) IN
       /\ fifo[c] # << >>
       /\ ih' = bhead[c]
       /\ bhead' = [bhead EXCEPT ![c] = NextSlot(@)]
  /\ ipc' = "compare"
  /\ UNCHANGED <<events, fifo, tsbuf, btail, irqOn, imask, it, readVars, returned, dropped>>

\* Mutant: overflow goes unnoticed.
IrqCompareNoDrop ==
  /\ ipc = "compare"
  /\ it' = btail[Min(imask)]
  /\ ipc' = "fill"
  /\ UNCHANGED <<events, fifo, ringVars, irqOn, imask, ih, readVars, returned, dropped>>

IrqCompare ==
  /\ ipc = "compare"
  /\ LET c == Min(imask) IN
       /\ it' = btail[c]
       /\ ipc' = IF bhead[c] = btail[c] THEN "drop" ELSE "fill"
  /\ UNCHANGED <<events, fifo, ringVars, irqOn, imask, ih, readVars, returned, dropped>>

\* ... give up the oldest stamp when the ring is full ...
IrqDrop ==
  /\ ipc = "drop"
  /\ LET c == Min(imask) IN
       /\ btail' = [btail EXCEPT ![c] = NextSlot(it)]
       /\ dropped' = [dropped EXCEPT ![c] = TRUE]
  /\ ipc' = "fill"
  /\ UNCHANGED <<events, fifo, tsbuf, bhead, irqOn, imask, ih, it, readVars, returned>>

\* Mutant: the slot is taken after bhead was advanced.
IrqFillAtHead ==
  /\ ipc = "fill"
  /\ LET c == Min(imask) IN
       /\ tsbuf' = [tsbuf EXCEPT ![c][bhead[c]] = Head(fifo[c])]
       /\ fifo' = [fifo EXCEPT ![c] = Tail(@)]
  /\ ih' = 0
  /\ it' = 0
  /\ ipc' = "pull"
  /\ UNCHANGED <<events, bhead, btail, irqOn, imask, readVars, returned, dropped>>

\* ... and pop the FIFO into the slot.
IrqFill ==
  /\ ipc = "fill"
  /\ LET c == Min(imask) IN
       /\ tsbuf' = [tsbuf EXCEPT ![c][ih] = Head(fifo[c])]
       /\ fifo' = [fifo EXCEPT ![c] = Tail(@)]
  /\ ih' = 0
  /\ it' = 0
  /\ ipc' = "pull"
  /\ UNCHANGED <<events, bhead, btail, irqOn, imask, readVars, returned, dropped>>

\* Mutant: the sleepers are not woken.
IrqNextSilent ==
  /\ ipc = "pull"
  /\ fifo[Min(imask)] = << >>
  /\ imask' = imask \ {Min(imask)}
  /\ ipc' = IF imask' = {} THEN "idle" ELSE "pull"
  /\ UNCHANGED <<events, fifo, ringVars, irqOn, ih, it, readVars, returned, dropped>>

\* The FIFO is empty: acknowledge, wake the sleepers, go on to the next channel.
IrqNext ==
  /\ ipc = "pull"
  /\ LET c == Min(imask) IN
       /\ fifo[c] = << >>
       /\ imask' = imask \ {c}
       /\ rpc' = [r \in Readers |->
                    IF rpc[r] = "asleep" /\ rch[r] = c THEN "wait" ELSE rpc[r]]
  /\ ipc' = IF imask' = {} THEN "idle" ELSE "pull"
  /\ UNCHANGED <<events, fifo, ringVars, irqOn, ih, it, rtnl, req, rch, rt, reply, atCall, returned, dropped>>

-----------------------------------------------------------------------------
(* wrn_dio_cmd_stamp *)

\* Stamps that the interrupt has moved out of the FIFO of a channel.
Pulled(c) == events[c] - Len(fifo[c])

\* The call of a reader ends, and its locals with it.
Leave(r) ==
  /\ rpc' = [rpc EXCEPT ![r] = "idle"]
  /\ req' = [req EXCEPT ![r] = NoRequest]
  /\ rch' = [rch EXCEPT ![r] = 0]
  /\ rt' = [rt EXCEPT ![r] = 0]
  /\ reply' = [reply EXCEPT ![r] = << >>]
  /\ atCall' = [atCall EXCEPT ![r] = [c \in Channel |-> 0]]

\* On one processor the ioctl does not run while the interrupt does.
MayRun == OneCpu => ipc = "idle"

Call(r) ==
  /\ MayRun
  /\ rpc[r] = "idle"
  /\ rtnl = NoOne
  /\ rtnl' = r
  /\ \E q \in Request :
       /\ req' = [req EXCEPT ![r] = q]
       /\ rch' = [rch EXCEPT ![r] = Min(q.chans)]
  /\ rpc' = [rpc EXCEPT ![r] = "check"]
  /\ atCall' = [atCall EXCEPT ![r] = [c \in Channel |-> Pulled(c)]]
  /\ UNCHANGED <<events, fifo, ringVars, irqVars, rt, reply, returned, dropped>>

HasStamp(r) == bhead[rch[r]] # btail[rch[r]]

\* One turn of the inner loop starts: there is room in the reply and a stamp.
CheckMore(r) ==
  /\ MayRun
  /\ rpc[r] = "check"
  /\ Len(reply[r]) < NReply
  /\ HasStamp(r)
  /\ rt' = [rt EXCEPT ![r] = btail[rch[r]]]
  /\ rpc' = [rpc EXCEPT ![r] = "copy"]
  /\ UNCHANGED <<events, fifo, ringVars, irqVars, rtnl, req, rch, reply, atCall, returned, dropped>>

Copy(r) ==
  /\ MayRun
  /\ rpc[r] = "copy"
  /\ reply' = [reply EXCEPT ![r] = Append(@, tsbuf[rch[r]][rt[r]])]
  /\ rpc' = [rpc EXCEPT ![r] = "load"]
  /\ UNCHANGED <<events, fifo, ringVars, irqVars, rtnl, req, rch, rt, atCall, returned, dropped>>

\* btail is loaded anew, *ts might have changed it ...
Load(r) ==
  /\ MayRun
  /\ rpc[r] = "load"
  /\ rt' = [rt EXCEPT ![r] = btail[rch[r]]]
  /\ rpc' = [rpc EXCEPT ![r] = "store"]
  /\ UNCHANGED <<events, fifo, ringVars, irqVars, rtnl, req, rch, reply, atCall, returned, dropped>>

\* ... and stored advanced.
Store(r) ==
  /\ MayRun
  /\ rpc[r] = "store"
  /\ btail' = [btail EXCEPT ![rch[r]] = NextSlot(rt[r])]
  /\ rt' = [rt EXCEPT ![r] = 0]
  /\ rpc' = [rpc EXCEPT ![r] = "check"]
  /\ UNCHANGED <<events, fifo, tsbuf, bhead, irqVars, rtnl, req, rch, reply, atCall, returned, dropped>>

\* The inner loop ends with stamps, all of one channel: the ioctl returns them.
ReturnStamps(r) ==
  /\ MayRun
  /\ rpc[r] = "check"
  /\ reply[r] # << >>
  /\ Len(reply[r]) = NReply \/ ~HasStamp(r)
  /\ returned' = [returned EXCEPT ![rch[r]] = @ \o reply[r]]
  /\ rtnl' = NoOne
  /\ Leave(r)
  /\ UNCHANGED <<events, fifo, ringVars, irqVars, dropped>>

\* Mutant: a mask gives up at its first empty channel.
CheckNoneFirst(r) ==
  /\ MayRun
  /\ rpc[r] = "check"
  /\ reply[r] = << >>
  /\ ~HasStamp(r)
  /\ ~req[r].wait
  /\ rtnl' = NoOne
  /\ Leave(r)
  /\ UNCHANGED <<events, fifo, ringVars, irqVars, returned, dropped>>

\* The inner loop ends with none: go on to the next channel of the mask, or,
\* after the last one, return -EAGAIN or drop the lock and wait.  For a mask
\* "ch--" then leads to the last channel, asked for or not.
CheckNone(r) ==
  /\ MayRun
  /\ rpc[r] = "check"
  /\ reply[r] = << >>
  /\ ~HasStamp(r)
  /\ LET later == {c \in req[r].chans : c > rch[r]} IN
       \/ /\ later # {}
          /\ rch' = [rch EXCEPT ![r] = Min(later)]
          /\ UNCHANGED <<rtnl, rpc, req, rt, reply, atCall>>
       \/ /\ later = {}
          /\ req[r].wait
          /\ rch' = IF req[r].mask THEN [rch EXCEPT ![r] = NCh - 1] ELSE rch
          /\ rpc' = [rpc EXCEPT ![r] = "wait"]
          /\ rtnl' = NoOne
          /\ UNCHANGED <<req, rt, reply, atCall>>
       \/ /\ later = {}
          /\ ~req[r].wait
          /\ rtnl' = NoOne
          /\ Leave(r)
  /\ UNCHANGED <<events, fifo, ringVars, irqVars, returned, dropped>>

\* wait_event_interruptible queues itself before it looks, so that a wake-up
\* in between is not missed: look and sleep are one step.
Wait(r) ==
  /\ MayRun
  /\ rpc[r] = "wait"
  /\ rpc' = [rpc EXCEPT ![r] = IF HasStamp(r) THEN "lock" ELSE "asleep"]
  /\ UNCHANGED <<events, fifo, ringVars, irqVars, rtnl, req, rch, rt, reply, atCall, returned, dropped>>

\* goto again
Again(r) ==
  /\ MayRun
  /\ rpc[r] = "lock"
  /\ rtnl = NoOne
  /\ rtnl' = r
  /\ rch' = [rch EXCEPT ![r] = Min(req[r].chans)]
  /\ rpc' = [rpc EXCEPT ![r] = "check"]
  /\ UNCHANGED <<events, fifo, ringVars, irqVars, req, rt, reply, atCall, returned, dropped>>

\* A signal ends the wait: -ERESTARTSYS, nothing was taken from the ring.
Signal(r) ==
  /\ MayRun
  /\ rpc[r] \in {"wait", "asleep", "lock"}
  /\ Leave(r)
  /\ UNCHANGED <<events, fifo, ringVars, irqVars, rtnl, returned, dropped>>

-----------------------------------------------------------------------------
IrqRest == IrqTake \/ IrqCompare \/ IrqDrop \/ IrqFill \/ IrqNext
ReadRest(r) ==
  \/ CheckMore(r) \/ Copy(r) \/ Load(r) \/ Store(r)
  \/ ReturnStamps(r) \/ CheckNone(r) \/ Wait(r) \/ Again(r)

StampNext ==
  \/ \E c \in Channel : StampEdge(c)
  \/ IrqEnter \/ IrqRest
  \/ \E r \in Readers : Call(r) \/ ReadRest(r) \/ Signal(r)

StampSpec == StampInit /\ [][StampNext]_stampVars

(* An enabled interrupt is taken and runs to its end, a process in the     *)
(* ioctl goes on.  Nobody has to call, no edge has to come, and a lock     *)
(* that others keep taking may never be free for a given process.          *)
Fairness ==
  /\ WF_stampVars(IrqEnter)
  /\ WF_stampVars(IrqRest)
  /\ \A r \in Readers : WF_stampVars(ReadRest(r))

FairSpec == StampSpec /\ Fairness

-----------------------------------------------------------------------------
(* Properties *)

RingTypeOK ==
  /\ events \in [Channel -> 0..MaxEvents]
  /\ fifo \in [Channel -> Seq(1..MaxEvents)]
  /\ tsbuf \in [Channel -> [Slot -> 0..MaxEvents]]
  /\ {bhead, btail} \subseteq [Channel -> Slot]
  /\ returned \in [Channel -> Seq(0..MaxEvents)]
  /\ dropped \in [Channel -> BOOLEAN]

IrqTypeOK ==
  /\ irqOn \in BOOLEAN
  /\ ipc \in {"idle", "pull", "compare", "drop", "fill"}
  /\ imask \subseteq Channel
  /\ {ih, it} \subseteq Slot

ReadTypeOK ==
  /\ rtnl \in Readers \cup {NoOne}
  /\ rpc \in [Readers -> {"idle", "check", "copy", "load", "store", "wait", "asleep", "lock"}]
  /\ req \in [Readers -> Request \cup {NoRequest}]
  /\ rch \in [Readers -> Channel]
  /\ rt \in [Readers -> Slot]
  /\ reply \in [Readers -> Seq(0..MaxEvents)]
  /\ \A r \in Readers : Len(reply[r]) <= NReply
  /\ atCall \in [Readers -> [Channel -> 0..MaxEvents]]

(* Every variable has its type; the ring indexes stay in the ring, and a   *)
(* reply never holds more than WR_DIO_N_STAMP stamps.                      *)
TypeOK == RingTypeOK /\ IrqTypeOK /\ ReadTypeOK

\* Stamps in the ring of a channel.
InRing(c) == (bhead[c] - btail[c]) % NBuf

(* On one processor, whenever the interrupt is not at work, the ring holds *)
(* the newest stamps without a gap, oldest first: neither an overflow, nor *)
(* a btail that the ioctl stores over the one the overflow advanced, makes *)
(* an unfilled or outdated slot readable.                                  *)
RingIsSuffix ==
  OneCpu /\ ipc = "idle" =>
    \A c \in Channel :
      /\ InRing(c) <= Pulled(c)
      /\ \A k \in 1..InRing(c) :
           tsbuf[c][(btail[c] + k - 1) % NBuf] = Pulled(c) - InRing(c) + k

(* On one processor every stamp is returned, in order and once, as long as *)
(* the ring of its channel never overflowed: what was returned, or sits in *)
(* the reply of the one reader at work, is 1, 2, 3 ...                     *)
InOrderUntilOverflow ==
  OneCpu =>
    \A c \in Channel : ~dropped[c] =>
      LET out == returned[c] \o
                 (IF rtnl # NoOne /\ rch[rtnl] = c THEN reply[rtnl] ELSE << >>)
      IN  \A k \in 1..Len(out) : out[k] = k

(* No stamp is slept over, on any number of processors: while a process    *)
(* sleeps, the ring of its channel is empty, or the interrupt that filled  *)
(* it has still to wake the sleepers of that channel.  So none is left     *)
(* asleep with a stamp when the rate limit turns the interrupt off for     *)
(* good, nor when another reader stores a btail that the interrupt moved.  *)
NoSleepOverStamp ==
  \A r \in Readers :
    rpc[r] = "asleep" /\ HasStamp(r) => ipc # "idle" /\ rch[r] \in imask

(* A reader that sleeps for a channel is woken when a stamp arrives there, *)
(* unless the rate limit has turned the interrupt off.                     *)
SleeperWoken ==
  \A r \in Readers :
    rpc[r] = "asleep" /\ fifo[rch[r]] # << >> ~> rpc[r] # "asleep" \/ ~irqOn

(* spec-sw.in: "you can always `wr-dio-cmd stamp > /dev/null`" to flush.   *)
(* When a call returns -EAGAIN nothing is left, on any channel it asked    *)
(* for, of what was in the rings when it began.                            *)
FlushedAtEagain ==
  [][\A r \in Readers :
       rpc[r] = "check" /\ rpc'[r] = "idle" /\ reply[r] = << >> =>
         \A c \in req[r].chans : InRing(c) <= Pulled(c) - atCall[r][c]]_stampVars

(* wr-dio.h on the reply: "nstamp: number of valid stamps".  No reply may  *)
(* hold what was read from a slot that was never filled.                   *)
StampsValid == \A r \in Readers : \A k \in DOMAIN reply[r] : reply[r][k] # 0

(* "wait on several channels not supported": nobody sleeps who asked with  *)
(* a mask.                                                                 *)
NoWaitOnMask == \A r \in Readers : rpc[r] = "asleep" => ~req[r].mask
=============================================================================
