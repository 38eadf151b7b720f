---------------------------- MODULE EpisubHandler ----------------------------
(***************************************************************************)
(* The handler of one connection: episub/handler.rs.                       *)
(*                                                                         *)
(* The swarm calls the inject_ functions between two polls; a poll runs    *)
(* the inbound loop and then the outbound loop, one step here per turn of  *)
(* a loop, and the outcome of every stream operation is the network's      *)
(* choice.  The state _Closing of the outbound substream is never entered  *)
(* by the code and has no counterpart.                                     *)
(***************************************************************************)
EXTENDS Naturals, Sequences

CONSTANTS
  MaxEvents,     \* bound: messages the behaviour hands to the handler
  MaxReceived    \* bound: messages the remote sends

ASSUME HandlerAssumption == MaxEvents \in Nat /\ MaxReceived \in Nat

VARIABLES
  temporary,   \* the handler was made for a shuffle reply; never changes
  inbound,     \* inbound_substream
  outbound,    \* outbound_substream
  sending,     \* the message PendingSend holds, as a sequence of at most one
  queue,       \* outbound_queue
  keepAlive,   \* keep_alive is KeepAlive::Yes
  pc,          \* where poll() is: "idle" between polls
  negotiating, \* an outbound upgrade is under way
  status,      \* of the connection: running, closed, or the task has panicked
  received,    \* number of messages handed to the behaviour
  accepted,    \* messages put into the queue, in order (history)
  finished     \* messages written to the stream or dropped as too long (history)

vars == <<temporary, inbound, outbound, sending, queue, keepAlive, pc,
          negotiating, status, received, accepted, finished>>

Kind == {"SHUFFLEREPLY", "OTHER"}

Init ==
  /\ temporary \in BOOLEAN
  /\ inbound = "none" /\ outbound = "none" /\ sending = << >>
  /\ queue = << >> /\ keepAlive = ~temporary
  /\ pc = "idle" /\ negotiating = FALSE /\ status = "running"
  /\ received = 0 /\ accepted = << >> /\ finished = << >>

-----------------------------------------------------------------------------
(* Calls of the swarm between two polls.                                   *)

Idle == status = "running" /\ pc = "idle"

\* The remote opens a substream; a new one replaces the one there was.
InjectFullyNegotiatedInbound ==
  /\ Idle
  /\ inbound' = "waitingInput"
  /\ UNCHANGED <<temporary, outbound, sending, queue, keepAlive, pc, negotiating, status,
                 received, accepted, finished>>

InjectFullyNegotiatedOutbound ==
  /\ Idle /\ negotiating
  /\ outbound' = "waitingOutput"
  /\ negotiating' = FALSE
  /\ UNCHANGED <<temporary, inbound, sending, queue, keepAlive, pc, status, received,
                 accepted, finished>>

\* inject_dial_upgrade_error only writes a warning: the substream stays
\* requested and is not asked for again.
InjectDialUpgradeError ==
  /\ Idle /\ negotiating
  /\ negotiating' = FALSE
  /\ UNCHANGED <<temporary, inbound, outbound, sending, queue, keepAlive, pc, status,
                 received, accepted, finished>>

\* A handler that is not kept alive takes nothing but a shuffle reply.
Takes(kind) == keepAlive \/ kind = "SHUFFLEREPLY"

\* inject_event: what is not taken is dropped without a trace.  Messages are
\* numbered to tell them apart.
InjectEvent(kind) ==
  LET m == [kind |-> kind, seq |-> Len(accepted) + 1]
  IN  /\ Idle
      /\ Len(accepted) < MaxEvents
      /\ Takes(kind)
      /\ queue' = Append(queue, m)
      /\ accepted' = Append(accepted, m)
      /\ UNCHANGED <<temporary, inbound, outbound, sending, keepAlive, pc, negotiating,
                     status, received, finished>>

\* libp2p closes a connection whose handler reports KeepAlive::No.
CloseIdleConnection ==
  /\ Idle /\ ~keepAlive
  /\ status' = "closed"
  /\ UNCHANGED <<temporary, inbound, outbound, sending, queue, keepAlive, pc, negotiating,
                 received, accepted, finished>>

StartPoll ==
  /\ Idle
  /\ pc' = "inbound"
  /\ UNCHANGED <<temporary, inbound, outbound, sending, queue, keepAlive, negotiating,
                 status, received, accepted, finished>>

-----------------------------------------------------------------------------
(* process_inbound_poll: leaving the loop with Pending goes on to the      *)
(* outbound loop, leaving it with an event ends the poll.                  *)

InLoop(loop) == status = "running" /\ pc = loop

\* What the inbound loop never touches.
InboundFrame == UNCHANGED <<temporary, outbound, sending, queue, negotiating, accepted,
                            finished>>

InboundMessage ==
  /\ InLoop("inbound") /\ inbound = "waitingInput"
  /\ received < MaxReceived
  /\ received' = received + 1
  /\ pc' = "idle"
  /\ InboundFrame /\ UNCHANGED <<inbound, keepAlive, status>>

\* The error arm leaves Poisoned behind and turns the loop once more.
InboundError ==
  /\ InLoop("inbound") /\ inbound = "waitingInput"
  /\ inbound' = "poisoned"
  /\ InboundFrame /\ UNCHANGED <<keepAlive, pc, status, received>>

InboundEof ==
  /\ InLoop("inbound") /\ inbound = "waitingInput"
  /\ inbound' = "closing"
  /\ InboundFrame /\ UNCHANGED <<keepAlive, pc, status, received>>

InboundClosed ==
  /\ InLoop("inbound") /\ inbound = "closing"
  /\ inbound' = "none"
  /\ keepAlive' = (keepAlive /\ outbound # "none")
  /\ pc' = "outbound"
  /\ InboundFrame /\ UNCHANGED <<status, received>>

\* Nothing to read yet, a close that waits, or no substream.
InboundPending ==
  /\ InLoop("inbound") /\ inbound \in {"waitingInput", "closing", "none"}
  /\ pc' = "outbound"
  /\ InboundFrame /\ UNCHANGED <<inbound, keepAlive, status, received>>

-----------------------------------------------------------------------------
(* process_outbound_poll: every way out of the loop ends the poll.         *)

OutboundFrame == UNCHANGED <<temporary, inbound, received, accepted>>

RequestSubstream ==
  /\ InLoop("outbound") /\ outbound = "none"
  /\ outbound' = "substreamRequested"
  /\ negotiating' = TRUE
  /\ pc' = "idle"
  /\ OutboundFrame
  /\ UNCHANGED <<sending, queue, keepAlive, status, finished>>

\* Nothing to send, or no substream to send on.
OutboundIdle ==
  /\ InLoop("outbound")
  /\ \/ outbound = "substreamRequested"
     \/ outbound = "waitingOutput" /\ queue = << >>
  /\ pc' = "idle"
  /\ OutboundFrame
  /\ UNCHANGED <<outbound, sending, queue, keepAlive, negotiating, status,
                 finished>>

\* Mutant: the message is taken and the state stays WaitingOutput.
TakeMessageOnly ==
  /\ InLoop("outbound") /\ outbound = "waitingOutput" /\ queue # << >>
  /\ sending' = <<Head(queue)>>
  /\ queue' = Tail(queue)
  /\ OutboundFrame
  /\ UNCHANGED <<outbound, keepAlive, pc, negotiating, status, finished>>

TakeMessage ==
  /\ InLoop("outbound") /\ outbound = "waitingOutput" /\ queue # << >>
  /\ outbound' = "pendingSend"
  /\ sending' = <<Head(queue)>>
  /\ queue' = Tail(queue)
  /\ OutboundFrame
  /\ UNCHANGED <<keepAlive, pc, negotiating, status, finished>>

\* Mutant: a message that is too long, or written, is put back at the end.
PutBackMessage(next) ==
  /\ InLoop("outbound") /\ outbound = "pendingSend"
  /\ outbound' = next
  /\ queue' = queue \o sending
  /\ sending' = << >>
  /\ OutboundFrame
  /\ UNCHANGED <<keepAlive, pc, negotiating, status, finished>>

\* poll_ready and start_send succeed, or the message is too long and dropped.
SendMessage(next) ==
  /\ InLoop("outbound") /\ outbound = "pendingSend"
  /\ outbound' = next
  /\ finished' = finished \o sending
  /\ sending' = << >>
  /\ OutboundFrame
  /\ UNCHANGED <<queue, keepAlive, pc, negotiating, status>>

SendStarted == SendMessage("pendingFlush")
SendTooLong == SendMessage("waitingOutput")

\* Mutant: the flushed substream is not put back into its idle state.
FlushedStaysPending ==
  /\ InLoop("outbound") /\ outbound = "pendingFlush"
  /\ pc' = "idle"
  /\ OutboundFrame
  /\ UNCHANGED <<outbound, sending, queue, keepAlive, negotiating, status,
                 finished>>

Flushed ==
  /\ InLoop("outbound") /\ outbound = "pendingFlush"
  /\ outbound' = "waitingOutput"
  /\ OutboundFrame
  /\ UNCHANGED <<sending, queue, keepAlive, pc, negotiating, status, finished>>

\* The stream is not ready: the connection is kept alive from now on.
OutboundWaits ==
  /\ InLoop("outbound") /\ outbound \in {"pendingSend", "pendingFlush"}
  /\ keepAlive' = TRUE
  /\ pc' = "idle"
  /\ OutboundFrame
  /\ UNCHANGED <<outbound, sending, queue, negotiating, status, finished>>

\* Mutant: the error is logged and the loop turns again.
OutboundErrorLogged ==
  /\ InLoop("outbound") /\ outbound \in {"pendingSend", "pendingFlush"}
  /\ outbound' = "poisoned"
  /\ sending' = << >>
  /\ OutboundFrame
  /\ UNCHANGED <<queue, keepAlive, pc, negotiating, status, finished>>

\* An error of poll_ready, start_send or poll_flush: Close is returned and
\* the substream stays Poisoned.
OutboundError ==
  /\ InLoop("outbound") /\ outbound \in {"pendingSend", "pendingFlush"}
  /\ outbound' = "poisoned"
  /\ sending' = << >>
  /\ status' = "closed"
  /\ pc' = "idle"
  /\ OutboundFrame
  /\ UNCHANGED <<queue, keepAlive, negotiating, finished>>

-----------------------------------------------------------------------------

\* The loop takes the state out of its field: what it finds there when it
\* turns again is Poisoned if no arm has put a state back.
Current == IF pc = "inbound" THEN inbound ELSE outbound

\* unreachable!("Error occurred during ... stream processing") in both loops.
Unreachable ==
  /\ status = "running" /\ pc # "idle" /\ Current = "poisoned"
  /\ status' = "panicked"
  /\ InboundFrame /\ UNCHANGED <<inbound, keepAlive, pc, received>>

SwarmStep ==
  \/ InjectFullyNegotiatedInbound \/ InjectFullyNegotiatedOutbound
  \/ InjectDialUpgradeError \/ CloseIdleConnection
  \/ \E kind \in Kind : InjectEvent(kind)

PollStep ==
  \/ InboundMessage \/ InboundError \/ InboundEof \/ InboundClosed
  \/ InboundPending \/ RequestSubstream \/ OutboundIdle \/ TakeMessage
  \/ SendStarted \/ SendTooLong \/ Flushed \/ OutboundWaits \/ OutboundError
  \/ Unreachable

Next == SwarmStep \/ StartPoll \/ PollStep

Spec == Init /\ [][Next]_vars

\* A started poll runs to its end and the connection task polls again; the
\* upgrade is decided; a stream that keeps being polled is ready in the end.
FairSpec ==
  /\ Spec
  /\ WF_vars(StartPoll) /\ WF_vars(PollStep)
  /\ SF_vars(InjectFullyNegotiatedOutbound \/ InjectDialUpgradeError)
  /\ SF_vars(/\ outbound = "pendingSend"
             /\ SendStarted \/ SendTooLong \/ OutboundError)
  /\ SF_vars(outbound = "pendingFlush" /\ (Flushed \/ OutboundError))

-----------------------------------------------------------------------------

Messages == [kind : Kind, seq : 1 .. MaxEvents]

\* Every field has one of its states, and a message is held in PendingSend
\* and in no other state (handler.rs 30-56).
TypeOK ==
  /\ temporary \in BOOLEAN
  /\ inbound \in {"none", "waitingInput", "closing", "poisoned"}
  /\ outbound \in {"none", "substreamRequested", "waitingOutput",
                   "pendingSend", "pendingFlush", "poisoned"}
  /\ (sending = << >>) = (outbound # "pendingSend") /\ Len(sending) =< 1
  /\ sending \in Seq(Messages) /\ queue \in Seq(Messages)
  /\ keepAlive \in BOOLEAN
  /\ pc \in {"idle", "inbound", "outbound"}
  /\ negotiating \in BOOLEAN
  /\ status \in {"running", "closed", "panicked"}
  /\ received \in 0 .. MaxReceived
  /\ accepted \in Seq(Messages) /\ finished \in Seq(Messages)

\* While the connection runs, every message the handler took is written
\* once, in order, or still waits: no arm of the loop loses the message it
\* holds (handler.rs 253-366).
InOrder == status = "running" => finished \o sending \o queue = accepted

\* Only an inbound error can bring the task to an unreachable!(): each
\* outbound error closes the connection before the loop meets Poisoned
\* again (handler.rs 285-293, 309-311, 352-354).
OutboundNeverPanics == status = "panicked" => pc = "inbound"

\* A message in the queue is taken from it in the end, unless the connection
\* ends or the upgrade failed, after which nothing asks for a substream
\* again (handler.rs 153-161, 347-351).
QueueDrains ==
  queue # << >> ~> \/ queue = << >>
                   \/ status # "running"
                   \/ outbound = "substreamRequested" /\ ~negotiating

\* unreachable!() says the Poisoned state is never met (handler.rs 237-239).
NeverPanics == status # "panicked"

\* "temporary: used only for shuffle reply, then the connection is closed":
\* a temporary handler takes nothing but shuffle replies, however its sends
\* are delayed (handler.rs 82, 137-140).
TemporaryOnlyReplies ==
  temporary => \A i \in DOMAIN accepted : accepted[i].kind = "SHUFFLEREPLY"
=============================================================================
