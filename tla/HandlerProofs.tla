---------------------------- MODULE HandlerProofs ----------------------------
(***************************************************************************)
(* The connection handler keeps the order of what it sends and meets       *)
(* Poisoned in the inbound loop only, for any number of messages in either *)
(* direction.                                                              *)
(*                                                                         *)
(* None of these is inductive by itself.  The order of the messages needs  *)
(* that PendingSend is the only state that holds one, which needs that a   *)
(* substream is negotiated only while it is requested: otherwise a late    *)
(* answer would replace a PendingSend and lose its message.  That the      *)
(* outbound loop never panics needs that a connection that still runs has  *)
(* no Poisoned outbound substream.                                         *)
(***************************************************************************)
EXTENDS EpisubHandler, SequenceTheorems, TLAPS

\* An upgrade is under way only while the substream is requested.
UpgradeRequested == negotiating => outbound = "substreamRequested"

\* Every outbound error has closed the connection.
OutboundWhole == status = "running" => outbound # "poisoned"

HandlerInv ==
  /\ TypeOK
  /\ InOrder
  /\ UpgradeRequested
  /\ OutboundWhole
  /\ OutboundNeverPanics

-----------------------------------------------------------------------------
(* Sequences of messages.                                                  *)

\* Appending to the queue appends to everything that was taken.
LEMMA AppendToLast ==
  ASSUME NEW S, NEW a \in Seq(S), NEW b \in Seq(S), NEW c \in Seq(S), NEW m \in S
  PROVE  a \o b \o Append(c, m) = Append(a \o b \o c, m)
<1>1. a \o b \in Seq(S) /\ a \o b \o c \in Seq(S)
  BY ConcatProperties
<1>2. <<m>> \in Seq(S)
  OBVIOUS
<1>3. Append(c, m) = c \o <<m>> /\ Append(a \o b \o c, m) = (a \o b \o c) \o <<m>>
  BY <1>1, AppendIsConcat
<1> QED BY <1>1, <1>2, <1>3, ConcatAssociative

\* Moving the head of the queue into an empty PendingSend keeps the order.
LEMMA MoveHead ==
  ASSUME NEW S, NEW a \in Seq(S), NEW c \in Seq(S), c # << >>
  PROVE  /\ <<Head(c)>> \in Seq(S) /\ Tail(c) \in Seq(S)
         /\ Len(<<Head(c)>>) = 1 /\ <<Head(c)>> # << >>
         /\ a \o <<Head(c)>> \o Tail(c) = a \o << >> \o c
<1>1. Head(c) \in S /\ Tail(c) \in Seq(S)
  BY HeadTailProperties
<1>2. <<Head(c)>> \in Seq(S) /\ Len(<<Head(c)>>) = 1 /\ <<Head(c)>> # << >>
  BY <1>1
<1>3. c = <<Head(c)>> \o Tail(c)
  <2>1. Len(c) \in Nat \ {0}
    BY EmptySeq
  <2>2. SubSeq(c, 1, Len(c)) = <<c[1]>> \o SubSeq(c, 2, Len(c))
    BY <2>1, SubSeqRecursiveFirst, 1 \in 1 .. Len(c), Len(c) \in 1 .. Len(c), 1 + 1 = 2
  <2>3. SubSeq(c, 1, Len(c)) = c /\ Tail(c) = SubSeq(c, 2, Len(c))
    BY SubSeqFull, TailIsSubSeq
  <2> QED BY <2>2, <2>3
<1>4. a \o << >> = a
  BY ConcatEmptySeq
<1> QED BY <1>1, <1>2, <1>3, <1>4, ConcatAssociative

\* The message a full PendingSend holds is the last one finished afterwards.
LEMMA FinishSending ==
  ASSUME NEW S, NEW a \in Seq(S), NEW b \in Seq(S), NEW c \in Seq(S)
  PROVE  a \o b \in Seq(S) /\ a \o b \o << >> \o c = a \o b \o c
<1>1. a \o b \in Seq(S)
  BY ConcatProperties
<1> QED BY <1>1, ConcatEmptySeq

-----------------------------------------------------------------------------
(* One lemma per group of actions that disturb the same conjuncts.         *)

\* A handler that was just made holds nothing.
LEMMA InitHandler == Init => HandlerInv
<1> SUFFICES ASSUME Init PROVE HandlerInv
  OBVIOUS
<1>1. << >> \in Seq(Messages) /\ Len(<< >>) = 0
  BY EmptySeq
<1>2. keepAlive \in BOOLEAN
  BY Zenon DEF Init
<1>3. TypeOK
  <2>1. 0 \in 0 .. MaxReceived
    BY HandlerAssumption
  <2>2. (sending = << >>) = (outbound # "pendingSend") /\ Len(sending) =< 1
    BY <1>1 DEF Init
  <2> QED BY <1>1, <1>2, <2>1, <2>2 DEF Init, TypeOK
<1>4. InOrder
  BY <1>1, ConcatEmptySeq DEF Init, InOrder
<1> QED BY <1>2, <1>3, <1>4 DEF Init, HandlerInv, UpgradeRequested,
     OutboundWhole, OutboundNeverPanics

\* inject_event puts a message it takes behind all others.
LEMMA InjectEventKeeps ==
  ASSUME HandlerInv, NEW kind \in Kind, InjectEvent(kind)
  PROVE  HandlerInv'
<1> USE DEF HandlerInv
<1> DEFINE m == [kind |-> kind, seq |-> Len(accepted) + 1]
<1>1. /\ queue' = Append(queue, m) /\ accepted' = Append(accepted, m)
      /\ UNCHANGED <<temporary, inbound, outbound, sending, keepAlive, pc,
                     negotiating, status, received, finished>>
      /\ Len(accepted) < MaxEvents /\ Takes(kind) /\ status = "running"
  BY DEF InjectEvent, Idle
<1>2. Len(accepted) \in Nat /\ DOMAIN accepted = 1 .. Len(accepted)
  BY LenProperties DEF TypeOK
<1>3. Len(accepted) + 1 \in 1 .. MaxEvents
  BY <1>1, <1>2, HandlerAssumption
<1>4. m \in Messages
  BY <1>3 DEF Messages
<1> HIDE DEF m
<1>5. queue' \in Seq(Messages) /\ accepted' \in Seq(Messages)
  BY <1>1, <1>4, AppendProperties DEF TypeOK
<1>6. TypeOK'
  BY <1>1, <1>5 DEF TypeOK
<1>7. InOrder'
  <2>1. finished \o sending \o Append(queue, m)
          = Append(finished \o sending \o queue, m)
    BY <1>4, AppendToLast DEF TypeOK
  <2> QED BY <1>1, <2>1 DEF InOrder
<1> QED BY <1>1, <1>6, <1>7 DEF UpgradeRequested, OutboundWhole,
     OutboundNeverPanics

\* The other calls between two polls, and the start of a poll, leave the
\* messages where they are.
LEMMA SwarmKeeps ==
  ASSUME HandlerInv,
         \/ InjectFullyNegotiatedInbound \/ InjectFullyNegotiatedOutbound
         \/ InjectDialUpgradeError \/ CloseIdleConnection \/ StartPoll
  PROVE  HandlerInv'
<1> USE DEF HandlerInv, Idle, InjectFullyNegotiatedInbound,
      InjectFullyNegotiatedOutbound, InjectDialUpgradeError,
      CloseIdleConnection, StartPoll
<1>1. TypeOK'
  BY DEF TypeOK, UpgradeRequested
<1>2. InOrder'
  BY DEF InOrder
<1> QED BY <1>1, <1>2 DEF UpgradeRequested, OutboundWhole, OutboundNeverPanics

\* The inbound loop does not touch what is sent.
LEMMA InboundKeeps ==
  ASSUME HandlerInv,
         \/ InboundMessage \/ InboundError \/ InboundEof \/ InboundClosed
         \/ InboundPending
  PROVE  HandlerInv'
<1> USE DEF HandlerInv, InLoop, InboundFrame, InboundMessage, InboundError,
      InboundEof, InboundClosed, InboundPending
<1>1. keepAlive' \in BOOLEAN
  BY Zenon DEF TypeOK
<1>2. TypeOK'
  <2>1. received' \in 0 .. MaxReceived
    BY HandlerAssumption DEF TypeOK
  <2>2. inbound' \in {"none", "waitingInput", "closing", "poisoned"}
    BY DEF TypeOK
  <2>3. pc' \in {"idle", "inbound", "outbound"} /\ status' = status
    BY DEF TypeOK
  <2> QED BY <1>1, <2>1, <2>2, <2>3 DEF TypeOK
<1>3. InOrder'
  BY DEF InOrder
<1> QED BY <1>1, <1>2, <1>3 DEF UpgradeRequested, OutboundWhole,
     OutboundNeverPanics

\* The turns of the outbound loop that move no message.
LEMMA OutboundKeeps ==
  ASSUME HandlerInv,
         \/ RequestSubstream \/ OutboundIdle \/ Flushed \/ OutboundWaits
         \/ OutboundError
  PROVE  HandlerInv'
<1> USE DEF HandlerInv, InLoop, OutboundFrame, RequestSubstream, OutboundIdle,
      Flushed, OutboundWaits, OutboundError
<1>1. << >> \in Seq(Messages) /\ Len(<< >>) = 0
  BY EmptySeq
<1>2. TypeOK'
  <2>1. keepAlive' \in BOOLEAN /\ negotiating' \in BOOLEAN
    BY Zenon DEF TypeOK
  <2>2. CASE RequestSubstream \/ OutboundIdle
    BY <2>1, <2>2 DEF TypeOK
  <2>3. CASE Flushed \/ OutboundWaits
    BY <2>1, <2>3 DEF TypeOK
  <2>4. CASE OutboundError
    BY <1>1, <2>1, <2>4 DEF TypeOK
  <2> QED BY <2>2, <2>3, <2>4
<1>3. InOrder'
  BY DEF InOrder
<1> QED BY <1>2, <1>3 DEF UpgradeRequested, OutboundWhole,
     OutboundNeverPanics

\* The head of the queue moves into PendingSend.
LEMMA TakeMessageKeeps ==
  ASSUME HandlerInv, TakeMessage
  PROVE  HandlerInv'
<1> USE DEF HandlerInv, InLoop, OutboundFrame, TakeMessage
<1>1. /\ sending = << >> /\ queue # << >>
      /\ finished \in Seq(Messages) /\ queue \in Seq(Messages)
  BY DEF TypeOK
<1>2. /\ sending' \in Seq(Messages) /\ queue' \in Seq(Messages)
      /\ Len(sending') = 1 /\ sending' # << >>
      /\ finished \o sending' \o queue' = finished \o << >> \o queue
  BY <1>1, MoveHead
<1>3. TypeOK'
  BY <1>2 DEF TypeOK
<1>4. InOrder'
  BY <1>1, <1>2 DEF InOrder
<1> QED BY <1>3, <1>4 DEF UpgradeRequested, OutboundWhole,
     OutboundNeverPanics

\* The message of PendingSend is written, or dropped as too long.
LEMMA SendMessageKeeps ==
  ASSUME HandlerInv, NEW next \in {"pendingFlush", "waitingOutput"},
         SendMessage(next)
  PROVE  HandlerInv'
<1> USE DEF HandlerInv, InLoop, OutboundFrame, SendMessage
<1>1. /\ finished' \in Seq(Messages)
      /\ finished' \o sending' \o queue' = finished \o sending \o queue
  BY FinishSending DEF TypeOK
<1>2. << >> \in Seq(Messages) /\ Len(<< >>) = 0
  BY EmptySeq
<1>3. TypeOK'
  BY <1>1, <1>2 DEF TypeOK
<1>4. InOrder'
  BY <1>1 DEF InOrder
<1> QED BY <1>3, <1>4 DEF UpgradeRequested, OutboundWhole,
     OutboundNeverPanics

\* The panic is one of the inbound loop.
LEMMA UnreachableKeeps ==
  ASSUME HandlerInv, Unreachable
  PROVE  HandlerInv'
<1> USE DEF HandlerInv, InboundFrame, Unreachable
<1>1. pc = "inbound"
  BY DEF Current, OutboundWhole
<1>2. TypeOK'
  BY DEF TypeOK
<1>3. InOrder'
  BY DEF InOrder
<1> QED BY <1>1, <1>2, <1>3 DEF UpgradeRequested, OutboundWhole,
     OutboundNeverPanics

\* Every step of the handler keeps the invariant.
LEMMA StepKeeps == HandlerInv /\ [Next]_vars => HandlerInv'
<1> SUFFICES ASSUME HandlerInv, [Next]_vars PROVE HandlerInv'
  OBVIOUS
<1>1. CASE SwarmStep
  BY <1>1, InjectEventKeeps, SwarmKeeps DEF SwarmStep
<1>2. CASE StartPoll
  BY <1>2, SwarmKeeps
<1>3. CASE PollStep
  BY <1>3, InboundKeeps, OutboundKeeps, TakeMessageKeeps, SendMessageKeeps,
     UnreachableKeeps DEF PollStep, SendStarted, SendTooLong
<1>4. CASE UNCHANGED vars
  BY <1>4 DEF vars, HandlerInv, TypeOK, InOrder, UpgradeRequested, OutboundWhole,
     OutboundNeverPanics
<1> QED BY <1>1, <1>2, <1>3, <1>4 DEF Next

-----------------------------------------------------------------------------

\* The invariant holds in every state of the handler.
THEOREM HandlerInvariant == Spec => []HandlerInv
BY InitHandler, StepKeeps, PTL DEF Spec

\* PendingSend holds one message and no other state holds any: a late answer
\* to an upgrade never overwrites it (handler.rs 30-56, 117-134).
THEOREM HandlerTypes == Spec => []TypeOK
<1>1. HandlerInv => TypeOK
  BY DEF HandlerInv
<1> QED BY <1>1, HandlerInvariant, PTL

\* Whatever the stream does, what was taken is written in order, each message
\* once, until the connection ends (handler.rs 253-366).
THEOREM NothingLost == Spec => []InOrder
<1>1. HandlerInv => InOrder
  BY DEF HandlerInv
<1> QED BY <1>1, HandlerInvariant, PTL

\* The unreachable!() of the outbound loop is unreachable (handler.rs 352-354).
THEOREM OutboundUnreachable == Spec => []OutboundNeverPanics
<1>1. HandlerInv => OutboundNeverPanics
  BY DEF HandlerInv
<1> QED BY <1>1, HandlerInvariant, PTL
=============================================================================
