----------------------------- MODULE StampFrame -----------------------------
(***************************************************************************)
(* stamp-frame (tools/stamp-frame.c): a sender and a listener exchange a   *)
(* frame in each direction, each with a follow-up that carries its         *)
(* departure time, and the sender reports the four times T1..T4.           *)
(*                                                                         *)
(* A time stamp is the event it was taken of, <<host, frame>>, so that the *)
(* properties can tell which frame a reported time belongs to; Zero is a   *)
(* cleared stamp and Junk what an uninitialised or foreign buffer holds.   *)
(* A frame is <<host, number, answered>>, where answered is the forward    *)
(* frame a reply answers: the code has neither, they are history.          *)
(*                                                                         *)
(* The medium delivers a frame to every other host as soon as it leaves    *)
(* the NIC.  What may go wrong is chosen at the start of a behaviour, see  *)
(* Faults.  Left out: printing, STAMP_VERBOSE, the other kinds of stamp    *)
(* (ns, software, hw-sys), which are read beside the raw hardware one.     *)
(***************************************************************************)
EXTENDS Integers, Sequences, FiniteSets

CONSTANTS
  Senders,    \* hosts that run "stamp-frame wr0"
  Listeners,  \* hosts that run "stamp-frame wr0 listen"
  MaxRuns,    \* bound on the times a host starts the program
  MaxSent,    \* bound on the frames of a host
  FaultSets   \* the sets of faults to consider

Hosts == Senders \cup Listeners

\* sendFails  send() fails;                stampLost  the driver gives no stamp
\* stampLate  ... or after the second      frameLost  a frame is not received
\* kill       a sender is killed           stop       a listener is killed
\* foreign    others use the network
Faults == {"sendFails", "stampLost", "stampLate", "frameLost", "kill", "stop", "foreign"}

ASSUME HostsAssumption == Senders \cap Listeners = {}
ASSUME BoundsAssumption == {MaxRuns, MaxSent} \subseteq Nat
ASSUME FaultsAssumption == FaultSets \subseteq SUBSET Faults

Zero == << >>
Junk == <<"junk">>
ZeroTimes == [i \in 1..4 |-> Zero]
\* A frame of another program: wrong type or size, or not a first frame.
Foreign == [id |-> <<"other">>, phase |-> 2, ts |-> [i \in 1..4 |-> Junk], run |-> 0]

VARIABLES
  faults,  \* what may go wrong in this behaviour
  epFlags, \* ep->ep_flags: which stamps were asked for
  pc,      \* where the program is; "off" when it does not run
  frame,   \* static struct frame f: phase and ts[]
  stamp,   \* stamp.hw[2], the raw hardware stamp, of the local struct ts_data
  rq,      \* the socket's receive queue
  eq,      \* the socket's error queue: the stamps of its own frames
  nic,     \* frames handed to the NIC that have not left
  run,     \* starts of the program so far
  sent,    \* frames handed to the NIC so far
  report,  \* the times the program has reported, << >> before it ends
  first,   \* history: the number of the first frame of this start
  quiet,   \* history: was the network at rest when the program started?
  kills,   \* history: programs killed
  spoilt   \* history: reports of another exchange, of programs started at rest

program == <<pc, frame, stamp, report>>
network == <<rq, eq, nic, sent>>
history == <<run, first, quiet, kills, spoilt>>
vars == <<faults, epFlags, program, network, history>>

Init ==
  /\ faults \in FaultSets
  /\ epFlags = [h \in Hosts |-> {}]
  /\ pc = [h \in Hosts |-> "off"]
  /\ frame = [h \in Hosts |-> [phase |-> 0, ts |-> ZeroTimes]]
  /\ stamp = [h \in Hosts |-> Zero]
  /\ rq = [h \in Hosts |-> << >>]
  /\ eq = [h \in Hosts |-> << >>]
  /\ nic = [h \in Hosts |-> << >>]
  /\ run = [h \in Hosts |-> 0]
  /\ sent = [h \in Hosts |-> 0]
  /\ report = [h \in Hosts |-> << >>]
  /\ first = [h \in Hosts |-> 0]
  /\ quiet = [h \in Hosts |-> FALSE]
  /\ kills = 0
  /\ spoilt = 0

-----------------------------------------------------------------------------
(* Starting and ending                                                     *)

\* wrn_tstamp_ioctl with HWTSTAMP_TX_ON and a filter: nothing in the driver
\* reads these flags.
wrn_tstamp_ioctl(h) == epFlags' = [epFlags EXCEPT ![h] = {"tx", "rx"}]

\* Nothing is under way and every listener waits, for a first frame or, after
\* its sender was killed, for a follow-up.
AtRest ==
  /\ \A h \in Hosts : nic[h] = << >> /\ rq[h] = << >>
  /\ \A h \in Listeners : pc[h] \in {"recv0", "recv1"}
  /\ \A h \in Senders : pc[h] = "off"

\* socket() to setsockopt(): from the start the queues collect.
Open(h) ==
  /\ wrn_tstamp_ioctl(h)
  /\ rq' = [rq EXCEPT ![h] = << >>]
  /\ eq' = [eq EXCEPT ![h] = << >>]

\* make_stamping_socket failed after the ioctl: exit(1).
StartFails(h) ==
  /\ pc[h] = "off"
  /\ wrn_tstamp_ioctl(h)
  /\ UNCHANGED <<faults, program, network, history>>

Start(h) ==
  /\ pc[h] = "off"
  /\ run[h] < MaxRuns
  /\ Open(h)
  /\ pc' = [pc EXCEPT ![h] = IF h \in Listeners THEN "recv0" ELSE "send0"]
  /\ frame' = [frame EXCEPT ![h] = [phase |-> 0, ts |-> ZeroTimes]]
  /\ stamp' = [stamp EXCEPT ![h] = Zero]
  /\ report' = [report EXCEPT ![h] = << >>]
  /\ run' = [run EXCEPT ![h] = @ + 1]
  /\ first' = [first EXCEPT ![h] = sent[h] + 1]
  /\ quiet' = [quiet EXCEPT ![h] = AtRest]
  /\ UNCHANGED <<faults, nic, sent, kills, spoilt>>

Kill(h) ==
  /\ (IF h \in Senders THEN "kill" ELSE "stop") \in faults
  /\ pc[h] # "off"
  /\ pc' = [pc EXCEPT ![h] = "off"]
  /\ kills' = kills + 1
  /\ UNCHANGED <<faults, epFlags, frame, stamp, report, network, run, first, quiet, spoilt>>

-----------------------------------------------------------------------------
(* send_one_with_followup                                                  *)

\* ts[offset] of the frame the program sends, and of the one it receives.
TxAt(h) == IF h \in Listeners THEN 3 ELSE 1
RxAt(h) == IF h \in Listeners THEN 2 ELSE 4

\* The frame a listener answers: its arrival is in T2.
Answered(h) == IF h \in Listeners THEN frame[h].ts[2][2] ELSE << >>

\* The socket's stamping option makes the driver stamp every frame sent.
HandToNic(h, phase, ts) ==
  /\ sent[h] < MaxSent
  /\ sent' = [sent EXCEPT ![h] = @ + 1]
  /\ nic' = [nic EXCEPT ![h] =
       Append(@, [id |-> <<h, sent[h] + 1, Answered(h)>>, phase |-> phase,
                  ts |-> ts, run |-> run[h]])]

Send0(h) ==
  /\ pc[h] = "send0"
  /\ HandToNic(h, 0, frame[h].ts)
  /\ frame' = [frame EXCEPT ![h].phase = 0]
  /\ pc' = [pc EXCEPT ![h] = "stamp0"]
  /\ UNCHANGED <<faults, epFlags, stamp, report, rq, eq, history>>

\* send() fails: a message, and the uninitialised stamp is used all the same.
Send0Fails(h) ==
  /\ "sendFails" \in faults
  /\ pc[h] = "send0"
  /\ stamp' = [stamp EXCEPT ![h] = <<h, Junk>>]
  /\ pc' = [pc EXCEPT ![h] = "send1"]
  /\ UNCHANGED <<faults, epFlags, frame, report, network, history>>

\* The head of the error queue is taken for the stamp of the frame just sent:
\* "FIX<E: Check that the actual data is what we sent".
Stamp0(h) ==
  /\ pc[h] = "stamp0"
  /\ eq[h] # << >>
  /\ stamp' = [stamp EXCEPT ![h] = Head(eq[h])]
  /\ eq' = [eq EXCEPT ![h] = Tail(@)]
  /\ pc' = [pc EXCEPT ![h] = "send1"]
  /\ UNCHANGED <<faults, epFlags, frame, report, rq, nic, sent, history>>

\* Mutant: the trials are not counted.
TrialsEndless(h) == FALSE
\* A hundred trials in a second.  A frame has left the NIC long before.
TrialsOver(h) == eq[h] = << >> /\ (nic[h] = << >> \/ "stampLate" \in faults)

Stamp0Timeout(h) ==
  /\ pc[h] = "stamp0"
  /\ TrialsOver(h)
  /\ stamp' = [stamp EXCEPT ![h] = Zero]
  /\ pc' = [pc EXCEPT ![h] = "send1"]
  /\ UNCHANGED <<faults, epFlags, frame, report, network, history>>

Send1(h) ==
  /\ pc[h] = "send1"
  /\ frame' = [frame EXCEPT ![h] =
       [phase |-> 1, ts |-> [@.ts EXCEPT ![TxAt(h)] = stamp[h]]]]
  /\ \/ HandToNic(h, 1, frame'[h].ts) /\ pc' = [pc EXCEPT ![h] = "stamp1"]
     \/ /\ "sendFails" \in faults
        /\ pc' = [pc EXCEPT ![h] = "recv0"]
        /\ UNCHANGED <<nic, sent>>
  /\ UNCHANGED <<faults, epFlags, stamp, report, rq, eq, history>>

\* The stamp of the follow-up is collected and ignored; a sender goes on to
\* receive the reply, a listener to wait for the next frame.
Stamp1(h) ==
  /\ pc[h] = "stamp1"
  /\ \/ eq[h] # << >> /\ eq' = [eq EXCEPT ![h] = Tail(@)]
     \/ TrialsOver(h) /\ UNCHANGED eq
  /\ pc' = [pc EXCEPT ![h] = "recv0"]
  /\ UNCHANGED <<faults, epFlags, frame, stamp, report, rq, nic, sent, history>>

-----------------------------------------------------------------------------
(* recv_one_with_followup                                                  *)

\* recvmsg overwrites f with whatever arrives.
Receive(h) ==
  /\ rq[h] # << >>
  /\ rq' = [rq EXCEPT ![h] = Tail(@)]

\* Mutant: any frame of the protocol is taken for a first frame.
GoodFrameAnyPhase(m) == m.phase \in {0, 1}
GoodFrame(m) == m.phase = 0

Recv0(h) ==
  /\ pc[h] = "recv0"
  /\ Receive(h)
  /\ LET m == Head(rq[h]) IN
       /\ stamp' = [stamp EXCEPT ![h] = <<h, m.id>>]
       /\ frame' = [frame EXCEPT ![h] = [phase |-> m.phase, ts |-> m.ts]]
       /\ pc' = IF GoodFrame(m) THEN [pc EXCEPT ![h] = "recv1"] ELSE pc
  /\ UNCHANGED <<faults, epFlags, report, eq, nic, sent, history>>

\* The next frame is taken for the follow-up, "lazily": it is not looked at.
Followup(h, m) == [phase |-> m.phase, ts |-> [m.ts EXCEPT ![RxAt(h)] = stamp[h]]]

Recv1(h) ==
  /\ pc[h] = "recv1"
  /\ Receive(h)
  /\ frame' = [frame EXCEPT ![h] = Followup(h, Head(rq[h]))]
  /\ pc' = [pc EXCEPT ![h] = IF h \in Listeners THEN "send0" ELSE "report"]
  /\ UNCHANGED <<faults, epFlags, stamp, report, eq, nic, sent, history>>

\* Are the times ts those of the exchange that the program of h began?
OwnExchange(h, ts) ==
  LET own == <<h, first[h], << >> >> IN
    /\ ts[1] \in {Zero, <<h, own>>}
    /\ ts[2] # Zero /\ ts[2][2] = own
    /\ ts[4][2][3] = own

\* report_times and exit(0).
Report(h) ==
  /\ pc[h] = "report"
  /\ report' = [report EXCEPT ![h] = frame[h].ts]
  /\ pc' = [pc EXCEPT ![h] = "off"]
  /\ spoilt' = IF quiet[h] /\ ~OwnExchange(h, frame[h].ts) THEN spoilt + 1 ELSE spoilt
  /\ UNCHANGED <<faults, epFlags, frame, stamp, network, run, first, quiet, kills>>

-----------------------------------------------------------------------------
(* The network                                                             *)

\* Mutant: the stamp is of the frame that the NIC sent before.
StampOfPrevious(h, m) == <<h, <<h, m.id[2] - 1, m.id[3]>> >>
StampOf(h, m) == <<h, m.id>>

\* The oldest frame leaves the NIC of h: its stamp goes to the error queue of
\* the socket that sent it, if that is still open, the frame to every other host.
Depart(h) ==
  /\ nic[h] # << >>
  /\ nic' = [nic EXCEPT ![h] = Tail(@)]
  /\ LET m == Head(nic[h])
         open == {g \in Hosts \ {h} : pc[g] # "off"}
     IN
       /\ \E to \in SUBSET open :
            /\ "frameLost" \in faults \/ to = open
            /\ rq' = [g \in Hosts |-> IF g \in to THEN Append(rq[g], m) ELSE rq[g]]
       /\ \/ /\ pc[h] # "off" /\ m.run = run[h]
             /\ eq' = [eq EXCEPT ![h] = Append(@, StampOf(h, m))]
          \/ /\ "stampLost" \in faults \/ pc[h] = "off" \/ m.run # run[h]
             /\ UNCHANGED eq
  /\ UNCHANGED <<faults, epFlags, program, sent, history>>

\* A frame of another program; one at a time waits in a queue.
Intrude(h) ==
  /\ "foreign" \in faults
  /\ pc[h] # "off"
  /\ \A i \in DOMAIN rq[h] : rq[h][i] # Foreign
  /\ rq' = [rq EXCEPT ![h] = Append(@, Foreign)]
  /\ UNCHANGED <<faults, epFlags, program, eq, nic, sent, history>>

-----------------------------------------------------------------------------
Step(h) ==
  \/ Send0(h) \/ Send0Fails(h) \/ Stamp0(h) \/ Stamp0Timeout(h)
  \/ Send1(h) \/ Stamp1(h) \/ Recv0(h) \/ Recv1(h) \/ Report(h)

Next ==
  \E h \in Hosts :
    Start(h) \/ StartFails(h) \/ Kill(h) \/ Step(h) \/ Depart(h) \/ Intrude(h)

(* A program that can go on does, and the NIC sends what it was given.     *)
(* Nobody has to start a program.                                          *)
Spec == Init /\ [][Next]_vars /\ \A h \in Hosts : WF_vars(Step(h)) /\ WF_vars(Depart(h))

-----------------------------------------------------------------------------
(* Properties *)

(* Stamps name the host they were taken at; the queues hold frames.        *)
TypeOK ==
  /\ faults \in FaultSets
  /\ pc \in [Hosts -> {"off", "send0", "stamp0", "send1", "stamp1",
                       "recv0", "recv1", "report"}]
  /\ \A h \in Hosts :
       /\ epFlags[h] \subseteq {"tx", "rx"}
       /\ \A i \in DOMAIN rq[h] : rq[h][i].phase \in 0..2
       /\ stamp[h] = Zero \/ stamp[h][1] = h
  /\ run \in [Hosts -> 0..MaxRuns]
  /\ sent \in [Hosts -> 0..MaxSent]

\* The times ts of a report of h are of one frame and of the reply to it.
TimesOfOneExchange(h, ts) ==
  LET g == ts[4][2]       \* the reply
      f == g[3]           \* the frame it answers
  IN  /\ ts[1] \in {Zero, <<h, f>>}
      /\ ts[2] \in {Zero, <<g[1], f>>}
      /\ ts[3] \in {Zero, <<g[1], g>>}

(* spec-sw.in: "The four times are departure and arrival of the forward    *)
(* frame, followed by departure and arrival of the backward frame."        *)
(* Whichever stamps are missing, and whether sending fails, frames are     *)
(* lost, senders killed or listeners, one of the four: the times of a      *)
(* report are of one frame and of the reply to that frame.                 *)
OneExchange ==
  (\E fault \in {"kill", "stop", "frameLost", "sendFails"} :
     faults \subseteq {"stampLost", fault}) =>
  \A h \in Senders : report[h] # << >> => TimesOfOneExchange(h, report[h])

(* The same whatever happens.                                              *)
AlwaysOneExchange ==
  \A h \in Senders : report[h] # << >> => TimesOfOneExchange(h, report[h])

(* A program killed between a frame and its follow-up leaves the listener  *)
(* waiting for the latter, and spoils one exchange: it is back in step for *)
(* the next.  A program that is started with the network at rest reports   *)
(* another exchange than its own at most once per kill.                    *)
OneSpoiltPerKill == faults \subseteq {"stampLost", "kill"} => spoilt <= kills

(* With a listener at work and no frame lost every program that starts     *)
(* ends with a report, also when a stamp does not come, for the wait is    *)
(* bounded, "retry for 1 second", and among the frames of others.          *)
EveryExchangeEnds ==
  \A h \in Senders :
    (/\ faults \subseteq {"stampLost", "stampLate", "foreign"}
     /\ pc[h] = "send0" /\ quiet[h]) ~> report[h] # << >>
=============================================================================
