--------------------------- MODULE CANBadger_proofs --------------------------
(***************************************************************************)
(* Proofs about the connection process, for every window, pipe capacity,   *)
(* set of failures and number of commands and messages; and about the      *)
(* client object that owns it, for any number of calls and of resets.      *)
(* Where a theorem is about one client thread it says so.                  *)
(***************************************************************************)
EXTENDS CANBadger, SequenceTheorems, TLAPS

-----------------------------------------------------------------------------
(* The process, with any client that puts commands into its queue *)

(* Everything a variable can hold, whatever goes wrong on the connection.   *)
LEMMA TypeInit == Init => TypeOK
<1> SUFFICES ASSUME Init PROVE TypeOK
  OBVIOUS
<1> USE DEF Init, ProcessInit
<1>1. current \in Commands
  BY DEF NoCommand, Commands, Kinds
<1>2. /\ main \in MainStates /\ reader \in ReaderStates
      /\ conn \in ConnStates /\ status \in Statuses
  BY DEF MainStates, ReaderStates, ConnStates, Statuses
<1>3. deviceRead \in 0..Len(forwarded) /\ produced \in Nat /\ issued \in Nat
  OBVIOUS
<1>4. abort \in BOOLEAN
  OBVIOUS
<1>5. /\ inbound \in Seq(Messages) /\ buffer \in Seq(Messages)
      /\ forwarded \in Seq(Commands) /\ command_queue \in Seq(Commands)
      /\ signal_queue \in Seq(Statuses)
      /\ received_queue \in Seq(Data) /\ ack_queue \in Seq(Acks)
  OBVIOUS
<1> QED
  BY <1>1, <1>2, <1>3, <1>4, <1>5 DEF TypeOK

LEMMA TypeStep == TypeOK /\ [Next]_vars => TypeOK'
<1> SUFFICES ASSUME TypeOK, [Next]_vars PROVE TypeOK'
  OBVIOUS
<1> USE DEF TypeOK, vars, processVars, threadVars, socketVars, queueVars,
            MainStates, ReaderStates, ConnStates, Statuses
<1>1. CASE Start
  BY <1>1 DEF Start
<1>2. CASE ConnectionSetup
  BY <1>2 DEF ConnectionSetup
<1>3. CASE Accept
  BY <1>3 DEF Accept, SetStatus
<1>4. CASE CheckAbort
  BY <1>4 DEF CheckAbort, LoopEnds
<1>5. CASE GetCommand
  BY <1>5 DEF GetCommand, NextCommand
<1>6. CASE SendAccepted
  <2>1. forwarded' \in Seq(Commands) /\ deviceRead' \in 0..Len(forwarded')
    BY <1>6 DEF SendAccepted
  <2> QED
    BY <1>6, <2>1 DEF SendAccepted, AbortAfter
<1>7. CASE SendRaises
  BY <1>7 DEF SendRaises
<1>8. CASE Finish
  BY <1>8 DEF Finish, SetStatus
<1>9. CASE Exit
  BY <1>9 DEF Exit
<1>10. CASE Interrupt
  BY <1>10 DEF Interrupt
<1>11. CASE ReaderCheck
  BY <1>11 DEF ReaderCheck
<1>12. CASE ReaderSelect
  BY <1>12 DEF ReaderSelect
<1>13. CASE ReaderRecvFails
  BY <1>13 DEF ReaderRecvFails
<1>14. ASSUME NEW n \in 0..Len(inbound), ReaderReceives(n)
       PROVE  TypeOK'
  <2>1. buffer' \in Seq(Messages) /\ inbound' \in Seq(Messages)
    BY <1>14, SMTT(30) DEF ReaderReceives
  <2>2. reader' \in {"check", "put"} /\ (reader' = "put" => buffer' # <<>>)
    BY <1>14 DEF ReaderReceives
  <2> QED
    BY <1>14, <2>1, <2>2 DEF ReaderReceives
<1>15. CASE ReaderPuts
  <2> DEFINE m == NextMessage(buffer)
  <2>1. Dispatch(m) /\ buffer' = Tail(buffer) /\ buffer # <<>>
    BY <1>15 DEF ReaderPuts
  <2>2. buffer' \in Seq(Messages) /\ m \in Messages
    BY <2>1 DEF NextMessage
  <2> HIDE DEF m
  <2>3. /\ IsReply(m) => m \in Acks
        /\ ~(IsReply(m) \/ m.type = "BAD") => m \in Data
    BY <2>2 DEF IsReply, Acks, Data, Messages
  <2>4. /\ ack_queue' \in Seq(Acks)
        /\ received_queue' \in Seq(Data)
        /\ reader' \in {"check", "died"}
    BY <2>1, <2>3 DEF Dispatch
  <2> QED
    BY <1>15, <2>2, <2>4 DEF ReaderPuts
<1>16. CASE DeviceConnect
  BY <1>16 DEF DeviceConnect
<1>17. CASE DeviceRead
  <2>1. deviceRead' \in 1..Len(forwarded)
    BY <1>17 DEF DeviceRead
  <2>2. forwarded[deviceRead'].id \in Nat
    <3>1. forwarded[deviceRead'] \in Commands
      BY <2>1
    <3> QED
      BY <3>1 DEF Commands
  <2>3. ASSUME NEW type \in {"ACK", "NACK"},
               DeviceSends([type |-> type, re |-> forwarded[deviceRead'].id])
        PROVE  inbound' \in Seq(Messages) /\ produced' \in Nat
    <3>1. [type |-> type, re |-> forwarded[deviceRead'].id] \in Messages
      BY <2>2 DEF Messages
    <3> QED
      BY <2>3, <3>1 DEF DeviceSends
  <2>4. inbound' \in Seq(Messages) /\ produced' \in Nat
    BY <1>17, <2>3 DEF DeviceRead
  <2>5. UNCHANGED <<threadVars, conn, buffer, forwarded, issued, queueVars>>
    BY <1>17 DEF DeviceRead
  <2> QED
    BY <2>1, <2>4, <2>5
<1>18. CASE DeviceData
  <2>1. \A type \in {"DATA", "BAD"} : [type |-> type, re |-> 0] \in Messages
    BY DEF Messages
  <2>2. inbound' \in Seq(Messages) /\ produced' \in Nat
    BY <1>18, <2>1 DEF DeviceData, DeviceSends
  <2> QED
    BY <1>18, <2>2 DEF DeviceData
<1>19. CASE DeviceFail
  BY <1>19 DEF DeviceFail, PeerFailures
<1>20. ASSUME NEW kind \in Kinds, Issue(kind)
       PROVE  TypeOK'
  BY <1>20 DEF Issue, Commands
<1>21. CASE TakeSignal
  BY <1>21 DEF TakeSignal
<1>22. CASE TakeReceived
  BY <1>22 DEF TakeReceived
<1>23. CASE TakeAck
  BY <1>23 DEF TakeAck
<1>24. CASE UNCHANGED vars
  BY <1>24
<1> QED
  BY <1>1, <1>2, <1>3, <1>4, <1>5, <1>6, <1>7, <1>8, <1>9, <1>10, <1>11, <1>12,
     <1>13, <1>14, <1>15, <1>16, <1>17, <1>18, <1>19, <1>20, <1>21, <1>22, <1>23, <1>24
     DEF Next, ProcessStep, MainStep, ReaderStep, DeviceStep, ClientStep

(* The state of the threads, the connection and the queues is always one of *)
(* those the code is written for.                                           *)
THEOREM TypeCorrect == Spec => []TypeOK
  BY TypeInit, TypeStep, PTL DEF Spec

-----------------------------------------------------------------------------
(* The promises of ConnectionLifecycle. *)

\* What ties the status, the two threads and the commands sent together:
\* inductive together with TypeOK.
LifecycleInv ==
  /\ TypeOK
  /\ main \in {"new", "setup", "accept"} =>
       status = "Unconnected" /\ forwarded = <<>>
  /\ main \in {"check", "get", "send", "join"} => status = "Connected"
  /\ status = "Unconnected" => reader = "off"
  /\ status = "Shutdown" => main \in {"exiting", "exited"} /\ reader \in Stopped
  /\ main = "send" => current.kind # "CONNECT"
  /\ main \in {"get", "send"} =>
       \A i \in DOMAIN forwarded : forwarded[i].kind # "RESET"
  /\ ~abort => \A i \in DOMAIN forwarded : forwarded[i].kind # "RESET"

LEMMA LifecycleInit == Init => LifecycleInv
  BY TypeInit DEF Init, ProcessInit, LifecycleInv

LEMMA LifecycleStep == LifecycleInv /\ [Next]_vars => LifecycleInv'
<1> SUFFICES ASSUME LifecycleInv, [Next]_vars PROVE LifecycleInv'
  OBVIOUS
<1>t. TypeOK /\ TypeOK'
  BY TypeStep DEF LifecycleInv
<1> USE <1>t DEF LifecycleInv, processVars, threadVars, socketVars, queueVars,
                 Stopped
<1>1. CASE Start
  BY <1>1 DEF Start
<1>2. CASE ConnectionSetup
  BY <1>2 DEF ConnectionSetup
<1>3. CASE Accept
  BY <1>3 DEF Accept, SetStatus
<1>4. CASE CheckAbort
  BY <1>4 DEF CheckAbort, LoopEnds
<1>5. CASE GetCommand
  BY <1>5 DEF GetCommand
<1>6. CASE SendAccepted
  <2>1. /\ main = "send" /\ main' = "check"
        /\ forwarded' = Append(forwarded, current)
        /\ abort' = (abort \/ current.kind = "RESET")
        /\ UNCHANGED <<reader, current, status>>
    BY <1>6 DEF SendAccepted, AbortAfter
  <2>2. ~abort' => \A i \in DOMAIN forwarded' : forwarded'[i].kind # "RESET"
    <3> SUFFICES ASSUME ~abort', NEW i \in DOMAIN forwarded'
                 PROVE  forwarded'[i].kind # "RESET"
      OBVIOUS
    <3>1. ~abort /\ current.kind # "RESET"
      BY <2>1
    <3>2. forwarded \in Seq(Commands) /\ current \in Commands
      BY DEF TypeOK
    <3>3. CASE i = Len(forwarded) + 1
      BY <2>1, <3>1, <3>2, <3>3
    <3>4. CASE i # Len(forwarded) + 1
      <4>1. i \in DOMAIN forwarded /\ forwarded'[i] = forwarded[i]
        BY <2>1, <3>2, <3>4
      <4> QED
        BY <3>1, <4>1
    <3> QED
      BY <3>3, <3>4
  <2> QED
    BY <2>1, <2>2
<1>7. CASE SendRaises
  BY <1>7 DEF SendRaises
<1>8. CASE Finish
  BY <1>8 DEF Finish, SetStatus, ReaderJoined
<1>9. CASE Exit
  BY <1>9 DEF Exit
<1>10. CASE Interrupt
  BY <1>10 DEF Interrupt, Running, MainStates
<1>11. CASE ReaderCheck
  BY <1>11 DEF ReaderCheck
<1>12. CASE ReaderSelect
  BY <1>12 DEF ReaderSelect
<1>13. CASE ReaderRecvFails
  BY <1>13 DEF ReaderRecvFails
<1>14. ASSUME NEW n \in 0..Len(inbound), ReaderReceives(n)
       PROVE  LifecycleInv'
  <2>1. /\ reader = "recv"
        /\ UNCHANGED <<main, abort, current, status, forwarded>>
    BY <1>14 DEF ReaderReceives
  <2> QED
    BY <2>1
<1>15. CASE ReaderPuts
  <2>1. /\ reader = "put"
        /\ UNCHANGED <<main, abort, current, status, forwarded>>
    BY <1>15 DEF ReaderPuts
  <2> QED
    BY <2>1
<1>16. CASE DeviceConnect
  BY <1>16 DEF DeviceConnect
<1>17. CASE DeviceRead
  BY <1>17 DEF DeviceRead
<1>18. CASE DeviceData
  BY <1>18 DEF DeviceData
<1>19. CASE DeviceFail
  BY <1>19 DEF DeviceFail
<1>20. ASSUME NEW kind \in Kinds, Issue(kind)
       PROVE  LifecycleInv'
  BY <1>20 DEF Issue
<1>21. CASE TakeSignal
  BY <1>21 DEF TakeSignal
<1>22. CASE TakeReceived
  BY <1>22 DEF TakeReceived
<1>23. CASE TakeAck
  BY <1>23 DEF TakeAck
<1>24. CASE UNCHANGED vars
  BY <1>24 DEF vars
<1> QED
  BY <1>1, <1>2, <1>3, <1>4, <1>5, <1>6, <1>7, <1>8, <1>9, <1>10, <1>11, <1>12,
     <1>13, <1>14, <1>15, <1>16, <1>17, <1>18, <1>19, <1>20, <1>21, <1>22, <1>23, <1>24
     DEF Next, ProcessStep, MainStep, ReaderStep, DeviceStep, ClientStep

\* What the reader thread hands over counts once.
LEMMA DispatchCounts ==
  ASSUME TypeOK, NEW m \in Messages, Dispatch(m)
  PROVE  Inbox' = Inbox \/ Inbox' = Inbox + 1
<1>1. received_queue \in Seq(Data) /\ ack_queue \in Seq(Acks)
  BY DEF TypeOK
<1>2. ack_queue' = ack_queue \/ ack_queue' = Append(ack_queue, m)
  BY DEF Dispatch
<1>3. received_queue' = received_queue \/ received_queue' = Append(received_queue, m)
  BY DEF Dispatch
<1>4. ack_queue' = ack_queue \/ received_queue' = received_queue
  BY DEF Dispatch
<1>5. Len(ack_queue) \in Nat /\ Len(received_queue) \in Nat
  BY <1>1
<1>6. CASE ack_queue' = ack_queue /\ received_queue' = received_queue
  BY <1>6 DEF Inbox
<1>7. CASE ack_queue' = Append(ack_queue, m) /\ received_queue' = received_queue
  <2>1. Len(ack_queue') = Len(ack_queue) + 1
    BY <1>1, <1>7
  <2> QED
    BY <1>5, <1>7, <2>1 DEF Inbox
<1>8. CASE ack_queue' = ack_queue /\ received_queue' = Append(received_queue, m)
  <2>1. Len(received_queue') = Len(received_queue) + 1
    BY <1>1, <1>8
  <2> QED
    BY <1>5, <1>8, <2>1 DEF Inbox
<1> QED
  BY <1>2, <1>3, <1>4, <1>6, <1>7, <1>8

LEMMA KindsOfSent ==
  ASSUME TypeOK, forwarded' = Append(forwarded, current)
  PROVE  KindsSent' = Append(KindsSent, current.kind)
<1>1. forwarded \in Seq(Commands) /\ current \in Commands
  BY DEF TypeOK
<1>2. KindsSent \in Seq(Kinds) /\ Len(KindsSent) = Len(forwarded)
  <2>1. ASSUME NEW i \in 1..Len(forwarded) PROVE forwarded[i].kind \in Kinds
    <3>1. forwarded[i] \in Commands
      BY <1>1
    <3> QED
      BY <3>1 DEF Commands
  <2>2. KindsSent \in [1..Len(forwarded) -> Kinds]
    BY <1>1, <2>1 DEF KindsSent
  <2>3. Len(forwarded) \in Nat
    BY <1>1
  <2> QED
    BY <2>2, <2>3
<1>3. DOMAIN KindsSent' = 1..(Len(forwarded) + 1)
  BY <1>1 DEF KindsSent
<1>4. \A i \in 1..Len(forwarded) : KindsSent'[i] = KindsSent[i]
  BY <1>1 DEF KindsSent
<1>5. KindsSent'[Len(forwarded) + 1] = current.kind
  BY <1>1 DEF KindsSent
<1> QED
  BY <1>1, <1>2, <1>3, <1>4, <1>5 DEF KindsSent

LEMMA RefinesInit == Init => Lifecycle!Init
<1> SUFFICES ASSUME Init PROVE Lifecycle!Init
  OBVIOUS
<1>1. Phase = "new" /\ Inbox = 0 /\ KindsSent = <<>>
  BY DEF Init, ProcessInit, Phase, Inbox, KindsSent
<1> QED
  BY <1>1 DEF Init, Lifecycle!Init

LEMMA RefinesStep == LifecycleInv /\ [Next]_vars => [Lifecycle!Next]_Lifecycle!lifeVars
<1> SUFFICES ASSUME LifecycleInv, [Next]_vars
             PROVE  [Lifecycle!Next]_Lifecycle!lifeVars
  OBVIOUS
<1>t. TypeOK
  BY DEF LifecycleInv
<1>s. ASSUME UNCHANGED <<Phase, signal_queue, Inbox, KindsSent>>
      PROVE  UNCHANGED Lifecycle!lifeVars
  BY <1>s DEF Lifecycle!lifeVars
<1>q. ASSUME UNCHANGED <<main, status, forwarded>>
      PROVE  UNCHANGED <<Phase, KindsSent>>
  BY <1>q DEF Phase, KindsSent
<1>i. ASSUME UNCHANGED <<received_queue, ack_queue>>
      PROVE  UNCHANGED Inbox
  BY <1>i DEF Inbox
<1> USE DEF processVars, threadVars, socketVars, queueVars
<1>1. CASE Start
  <2>1. Phase = "new" /\ Phase' = "connecting"
    BY <1>1 DEF Start, Phase, LifecycleInv
  <2> QED
    BY <1>1, <1>i, <2>1 DEF Start, Lifecycle!Next, Lifecycle!Begin, KindsSent
<1>2. CASE ConnectionSetup
  <2>1. /\ UNCHANGED <<signal_queue, Inbox, KindsSent>>
        /\ Phase = "connecting"
        /\ Phase' \in {"connecting", "failed"}
    BY <1>2 DEF ConnectionSetup, Phase, LifecycleInv, Inbox, KindsSent
  <2> QED
    BY <1>s, <2>1 DEF Lifecycle!Next, Lifecycle!Fail
<1>3. CASE Accept
  <2>1. Phase = "connecting" /\ Phase' = "connected"
    BY <1>3 DEF Accept, SetStatus, Phase, LifecycleInv
  <2>2. signal_queue' = Append(signal_queue, "Connected")
    BY <1>3 DEF Accept, SetStatus
  <2>3. UNCHANGED <<Inbox, KindsSent>>
    BY <1>3 DEF Accept, Inbox, KindsSent
  <2> QED
    BY <2>1, <2>2, <2>3 DEF Lifecycle!Next, Lifecycle!Connect
<1>4. CASE CheckAbort
  <2>1. Phase = "connected" /\ Phase' = "connected"
    BY <1>4 DEF CheckAbort, LoopEnds, Phase, LifecycleInv
  <2>2. UNCHANGED <<signal_queue, Inbox, KindsSent>>
    BY <1>4 DEF CheckAbort, LoopEnds, Inbox, KindsSent
  <2> QED
    BY <1>s, <2>1, <2>2
<1>5. CASE GetCommand
  <2>1. Phase = "connected" /\ Phase' = "connected"
    BY <1>5 DEF GetCommand, Phase, LifecycleInv
  <2>2. UNCHANGED <<signal_queue, Inbox, KindsSent>>
    BY <1>5 DEF GetCommand, Inbox, KindsSent
  <2> QED
    BY <1>s, <2>1, <2>2
<1>6. CASE SendAccepted
  <2>1. Phase = "connected" /\ Phase' = "connected"
    BY <1>6 DEF SendAccepted, Phase, LifecycleInv
  <2>2. UNCHANGED <<signal_queue, Inbox>>
    BY <1>6 DEF SendAccepted, Inbox
  <2>3. KindsSent' = Append(KindsSent, current.kind)
    BY <1>6, <1>t, KindsOfSent DEF SendAccepted
  <2>4. current.kind \in {"RESET", "OTHER"}
    BY <1>6, <1>t DEF SendAccepted, LifecycleInv, TypeOK, Commands, Kinds
  <2>5. \A i \in DOMAIN KindsSent : KindsSent[i] # "RESET"
    BY <1>6 DEF SendAccepted, LifecycleInv, KindsSent
  <2>6. Lifecycle!Forward(current.kind)
    BY <2>1, <2>2, <2>3, <2>5 DEF Lifecycle!Forward
  <2> QED
    BY <2>4, <2>6 DEF Lifecycle!Next
<1>7. CASE SendRaises
  <2>1. Phase = "connected" /\ Phase' = "failed"
    BY <1>7 DEF SendRaises, Phase, LifecycleInv
  <2>2. UNCHANGED <<signal_queue, Inbox, KindsSent>>
    BY <1>7 DEF SendRaises, Inbox, KindsSent
  <2> QED
    BY <2>1, <2>2 DEF Lifecycle!Next, Lifecycle!Fail
<1>8. CASE Finish
  <2>1. Phase = "connected" /\ Phase' = "shutdown"
    BY <1>8 DEF Finish, SetStatus, Phase, LifecycleInv
  <2>2. signal_queue' = Append(signal_queue, "Shutdown")
    BY <1>8 DEF Finish, SetStatus
  <2>3. UNCHANGED <<Inbox, KindsSent>>
    BY <1>8 DEF Finish, Inbox, KindsSent
  <2> QED
    BY <2>1, <2>2, <2>3 DEF Lifecycle!Next, Lifecycle!Shutdown
<1>9. CASE Exit
  <2>1. Phase' = Phase
    BY <1>9 DEF Exit, Phase
  <2>2. UNCHANGED <<signal_queue, Inbox, KindsSent>>
    BY <1>9 DEF Exit, Inbox, KindsSent
  <2> QED
    BY <1>s, <2>1, <2>2
<1>10. CASE Interrupt
  <2>1. Phase \in {"connecting", "connected"} /\ Phase' = "failed"
    BY <1>10 DEF Interrupt, Running, MainStates, Phase, LifecycleInv
  <2>2. UNCHANGED <<signal_queue, Inbox, KindsSent>>
    BY <1>10 DEF Interrupt, Inbox, KindsSent
  <2> QED
    BY <2>1, <2>2 DEF Lifecycle!Next, Lifecycle!Fail
<1>11. CASE ReaderCheck
  BY <1>11, <1>s, <1>q, <1>i DEF ReaderCheck
<1>12. CASE ReaderSelect
  BY <1>12, <1>s, <1>q, <1>i DEF ReaderSelect
<1>13. CASE ReaderRecvFails
  BY <1>13, <1>s, <1>q, <1>i DEF ReaderRecvFails
<1>14. ASSUME NEW n \in 0..Len(inbound), ReaderReceives(n)
       PROVE  [Lifecycle!Next]_Lifecycle!lifeVars
  BY <1>14, <1>s, <1>q, <1>i DEF ReaderReceives
<1>15. CASE ReaderPuts
  <2>1. /\ reader = "put"
        /\ UNCHANGED <<main, status, forwarded, signal_queue>>
    BY <1>15 DEF ReaderPuts
  <2>2. UNCHANGED <<Phase, KindsSent>>
    BY <1>q, <2>1
  <2>3. Inbox' = Inbox \/ Inbox' = Inbox + 1
    <3>1. NextMessage(buffer) \in Messages
      BY <1>15, <1>t DEF ReaderPuts, TypeOK, NextMessage
    <3> QED
      BY <1>15, <1>t, <3>1, DispatchCounts DEF ReaderPuts
  <2>4. Phase \in {"connected", "failed"}
    BY <2>1 DEF LifecycleInv, TypeOK, Phase, MainStates, Stopped, Statuses
  <2> QED
    BY <1>s, <2>1, <2>2, <2>3, <2>4 DEF Lifecycle!Next, Lifecycle!HandOver
<1>16. CASE DeviceConnect
  BY <1>16, <1>s, <1>q, <1>i DEF DeviceConnect
<1>17. CASE DeviceRead
  BY <1>17, <1>s, <1>q, <1>i DEF DeviceRead
<1>18. CASE DeviceData
  BY <1>18, <1>s, <1>q, <1>i DEF DeviceData
<1>19. CASE DeviceFail
  BY <1>19, <1>s, <1>q, <1>i DEF DeviceFail
<1>20. ASSUME NEW kind \in Kinds, Issue(kind)
       PROVE  [Lifecycle!Next]_Lifecycle!lifeVars
  BY <1>20, <1>s, <1>q, <1>i DEF Issue
<1>21. CASE TakeSignal
  BY <1>21, <1>q, <1>i DEF TakeSignal, Lifecycle!Next, Lifecycle!TakeSignal
<1>22. CASE TakeReceived
  <2>1. Inbox > 0 /\ Inbox' = Inbox - 1
    BY <1>22, <1>t DEF TakeReceived, Inbox, TypeOK
  <2> QED
    BY <1>22, <1>q, <2>1 DEF TakeReceived, Lifecycle!Next, Lifecycle!TakeMessage
<1>23. CASE TakeAck
  <2>1. Inbox > 0 /\ Inbox' = Inbox - 1
    BY <1>23, <1>t DEF TakeAck, Inbox, TypeOK
  <2> QED
    BY <1>23, <1>q, <2>1 DEF TakeAck, Lifecycle!Next, Lifecycle!TakeMessage
<1>24. CASE UNCHANGED vars
  BY <1>24, <1>s, <1>q, <1>i DEF vars
<1> QED
  BY <1>1, <1>2, <1>3, <1>4, <1>5, <1>6, <1>7, <1>8, <1>9, <1>10, <1>11, <1>12,
     <1>13, <1>14, <1>15, <1>16, <1>17, <1>18, <1>19, <1>20, <1>21, <1>22, <1>23, <1>24
     DEF Next, ProcessStep, MainStep, ReaderStep, DeviceStep, ClientStep

(* The connection process keeps the promises of ConnectionLifecycle: the    *)
(* client hears of every status change when it happens, nothing is handed   *)
(* over after Shutdown (the reader thread is joined first, line 191), and   *)
(* no command follows a RESET to the device (lines 188-189).                *)
THEOREM LifecycleRefined == Spec => ImplementsLifecycle
<1>1. Spec => []LifecycleInv
  BY LifecycleInit, LifecycleStep, PTL DEF Spec
<1> QED
  BY <1>1, RefinesInit, RefinesStep, PTL
     DEF Spec, ImplementsLifecycle, Lifecycle!Spec

-----------------------------------------------------------------------------
(* The order of commands and replies. *)

Increasing(q) == \A i, j \in DOMAIN q : i < j => q[i].id < q[j].id

\* Commands are numbered in the order in which they are issued, and stay in it.
CommandsInv ==
  /\ Increasing(forwarded) /\ Increasing(command_queue)
  /\ \A i \in DOMAIN forwarded, j \in DOMAIN command_queue :
       forwarded[i].id < command_queue[j].id
  /\ \A i \in DOMAIN forwarded : forwarded[i].id \in 1..issued
  /\ \A i \in DOMAIN command_queue : command_queue[i].id \in 1..issued
  /\ main = "send" =>
       /\ \A i \in DOMAIN forwarded : forwarded[i].id < current.id
       /\ \A i \in DOMAIN command_queue : current.id < command_queue[i].id
       /\ current.id \in 1..issued

\* Every reply is to a command the device has read.
RepliesInv ==
  /\ AcksInOrder
  /\ \A i \in DOMAIN OnTheWay : OnTheWay[i].re # 0 =>
       \E k \in 1..deviceRead : OnTheWay[i].re = forwarded[k].id

LEMMA CommandIds ==
  ASSUME NEW q \in Seq(Commands), NEW i \in DOMAIN q
  PROVE  q[i] \in Commands /\ q[i].id \in Nat
<1>1. q[i] \in Commands
  OBVIOUS
<1> QED BY <1>1 DEF Commands

LEMMA TailOfQueue ==
  ASSUME NEW S, NEW q \in Seq(S), q # <<>>
  PROVE  /\ Tail(q) \in Seq(S) /\ 1 \in DOMAIN q
         /\ \A i \in DOMAIN Tail(q) :
              i \in Nat /\ 1 < i + 1 /\ i + 1 \in DOMAIN q /\ Tail(q)[i] = q[i + 1]
  OBVIOUS

LEMMA AppendToQueue ==
  ASSUME NEW S, NEW q \in Seq(S), NEW e \in S
  PROVE  /\ Append(q, e) \in Seq(S)
         /\ \A i \in DOMAIN Append(q, e) :
              \/ i \in DOMAIN q /\ Append(q, e)[i] = q[i] /\ i < Len(q) + 1
              \/ i = Len(q) + 1 /\ Append(q, e)[i] = e
         /\ \A i \in DOMAIN q : i \in DOMAIN Append(q, e) /\ Append(q, e)[i] = q[i]
  OBVIOUS

\* A command that is issued has a higher number than all others.
LEMMA CommandIssued ==
  ASSUME TypeOK, CommandsInv, NEW kind \in Kinds,
         issued' = issued + 1,
         command_queue' = Append(command_queue, [kind |-> kind, id |-> issued + 1]),
         UNCHANGED <<main, current, forwarded>>
  PROVE  CommandsInv'
<1> DEFINE e == [kind |-> kind, id |-> issued + 1]
<1>1. /\ command_queue \in Seq(Commands) /\ e \in Commands /\ e.id = issued + 1
      /\ issued \in Nat
  BY DEF TypeOK, Commands
<1>2. \A i \in DOMAIN command_queue : command_queue[i].id \in Nat
  BY <1>1, CommandIds
<1>3. \A i \in DOMAIN forwarded : forwarded[i].id \in Nat
  BY CommandIds DEF TypeOK
<1> HIDE DEF e
<1>4. /\ \A i \in DOMAIN command_queue' :
           \/ i \in DOMAIN command_queue /\ command_queue'[i] = command_queue[i]
              /\ i < Len(command_queue) + 1
           \/ i = Len(command_queue) + 1 /\ command_queue'[i] = e
  BY <1>1, AppendToQueue DEF e
<1>5. Increasing(command_queue')
  <2> SUFFICES ASSUME NEW i \in DOMAIN command_queue', NEW j \in DOMAIN command_queue', i < j
               PROVE  command_queue'[i].id < command_queue'[j].id
    BY DEF Increasing
  <2>1. /\ DOMAIN command_queue \subseteq Nat /\ Len(command_queue) \in Nat
        /\ i \in Nat /\ j \in Nat
        /\ (i \in DOMAIN command_queue => i <= Len(command_queue))
        /\ (j \in DOMAIN command_queue => j <= Len(command_queue))
    BY <1>1, <1>4
  <2>2. CASE j \in DOMAIN command_queue
    BY <2>1, <2>2, <1>4 DEF CommandsInv, Increasing
  <2>3. CASE j = Len(command_queue) + 1
    BY <2>1, <2>3, <1>1, <1>2, <1>4 DEF CommandsInv
  <2> QED BY <1>4, <2>2, <2>3
<1>6. \A i \in DOMAIN command_queue' : command_queue'[i].id \in 1..issued'
  BY <1>1, <1>2, <1>4 DEF CommandsInv
<1>7. /\ \A i \in DOMAIN forwarded' : forwarded'[i].id \in 1..issued'
      /\ \A i \in DOMAIN forwarded', j \in DOMAIN command_queue' :
           forwarded'[i].id < command_queue'[j].id
  BY <1>1, <1>3, <1>4 DEF CommandsInv
<1>8. main' = "send" => \A i \in DOMAIN command_queue' : current'.id < command_queue'[i].id
  BY <1>1, <1>4, SMTT(30) DEF CommandsInv, TypeOK, Commands
<1>9. main' = "send" => current'.id \in 1..issued'
  BY <1>1 DEF CommandsInv, TypeOK, Commands
<1> QED BY <1>5, <1>6, <1>7, <1>8, <1>9 DEF CommandsInv

\* Nor does a step of the process change the order.
LEMMA CommandsStep == TypeOK /\ CommandsInv /\ [Next]_vars => CommandsInv'
<1> SUFFICES ASSUME TypeOK, CommandsInv, [Next]_vars PROVE CommandsInv'
  OBVIOUS
<1> USE DEF processVars, threadVars, socketVars, queueVars
<1>0. TypeOK'
  BY TypeStep
<1>f. forwarded \in Seq(Commands) /\ command_queue \in Seq(Commands) /\ current \in Commands
  BY DEF TypeOK
\* The steps that leave the commands alone.
<1>q. ASSUME UNCHANGED <<command_queue, forwarded, current, issued>>, main' = "send" => main = "send"
      PROVE  CommandsInv'
  BY <1>q DEF CommandsInv
<1>1. CASE Start BY <1>1, <1>q DEF Start
<1>2. CASE ConnectionSetup BY <1>2, <1>q DEF ConnectionSetup
<1>3. CASE Accept BY <1>3, <1>q DEF Accept
<1>4. CASE CheckAbort BY <1>4, <1>q DEF CheckAbort
<1>5. CASE GetCommand
  <2>1. /\ command_queue # <<>> /\ current' = command_queue[1]
        /\ command_queue' = Tail(command_queue) /\ UNCHANGED <<forwarded, issued>>
    BY <1>5 DEF GetCommand, NextCommand
  <2>2. /\ 1 \in DOMAIN command_queue
        /\ \A i \in DOMAIN command_queue' :
             /\ i \in Nat /\ 1 < i + 1 /\ i + 1 \in DOMAIN command_queue
             /\ command_queue'[i] = command_queue[i + 1]
    BY <1>f, <2>1, TailOfQueue
  <2>3. /\ \A i \in DOMAIN forwarded' : forwarded'[i].id < current'.id
        /\ \A i \in DOMAIN command_queue' : current'.id < command_queue'[i].id
        /\ current'.id \in 1..issued'
    BY <2>1, <2>2 DEF CommandsInv, Increasing
  <2>4. Increasing(command_queue')
    BY <2>2 DEF CommandsInv, Increasing
  <2>5. /\ \A i \in DOMAIN forwarded', j \in DOMAIN command_queue' :
             forwarded'[i].id < command_queue'[j].id
        /\ \A i \in DOMAIN command_queue' : command_queue'[i].id \in 1..issued'
    BY <2>1, <2>2 DEF CommandsInv
  <2> QED BY <2>1, <2>3, <2>4, <2>5 DEF CommandsInv
<1>6. CASE SendAccepted
  <2>1. /\ main = "send" /\ main' = "check" /\ forwarded' = Append(forwarded, current)
        /\ UNCHANGED <<command_queue, current, issued>>
    BY <1>6 DEF SendAccepted
  <2>2. \A i \in DOMAIN forwarded' :
             \/ i \in DOMAIN forwarded /\ forwarded'[i] = forwarded[i] /\ i < Len(forwarded) + 1
             \/ i = Len(forwarded) + 1 /\ forwarded'[i] = current
    BY <1>f, <2>1, AppendToQueue
  <2>3. Increasing(forwarded')
    <3> SUFFICES ASSUME NEW i \in DOMAIN forwarded', NEW j \in DOMAIN forwarded', i < j
                 PROVE  forwarded'[i].id < forwarded'[j].id
      BY DEF Increasing
    <3>1. i \in Nat /\ j \in Nat /\ Len(forwarded) \in Nat
      BY <1>f, <2>2
    <3>2. CASE i \in DOMAIN forwarded
      BY <3>1, <3>2, <2>1, <2>2 DEF CommandsInv, Increasing
    <3>3. CASE i = Len(forwarded) + 1
      BY <3>1, <3>3, <2>2
    <3> QED BY <2>2, <3>2, <3>3
  <2>4. /\ \A i \in DOMAIN forwarded', j \in DOMAIN command_queue' :
             forwarded'[i].id < command_queue'[j].id
        /\ \A i \in DOMAIN forwarded' : forwarded'[i].id \in 1..issued'
    BY <2>1, <2>2 DEF CommandsInv
  <2> QED BY <2>1, <2>3, <2>4 DEF CommandsInv
<1>7. CASE SendRaises BY <1>7, <1>q DEF SendRaises
<1>8. CASE Finish BY <1>8, <1>q DEF Finish
<1>9. CASE Exit BY <1>9, <1>q DEF Exit
<1>10. CASE Interrupt BY <1>10, <1>q DEF Interrupt
<1>11. CASE ReaderStep
  BY <1>11, <1>q DEF ReaderStep, ReaderCheck, ReaderSelect, ReaderRecvFails, ReaderPuts,
                     ReaderReceives
<1>12. CASE DeviceStep
  BY <1>12, <1>q DEF DeviceStep, DeviceConnect, DeviceRead, DeviceData, DeviceFail
<1>13. ASSUME NEW kind \in Kinds, Issue(kind) PROVE CommandsInv'
  BY <1>13, CommandIssued DEF Issue
<1>14. CASE TakeSignal \/ TakeReceived \/ TakeAck
  BY <1>14, <1>q DEF TakeSignal, TakeReceived, TakeAck
<1>15. CASE UNCHANGED vars BY <1>15, <1>q DEF vars
<1> QED
  BY <1>1, <1>2, <1>3, <1>4, <1>5, <1>6, <1>7, <1>8, <1>9, <1>10, <1>11, <1>12, <1>13,
     <1>14, <1>15 DEF Next, ProcessStep, MainStep, ClientStep

\* Two elements of t are two elements of s, in the same order.
PartOf(t, s) ==
  /\ \A i \in DOMAIN t : \E k \in DOMAIN s : t[i] = s[k]
  /\ \A i, j \in DOMAIN t : i < j =>
       \E k, l \in DOMAIN s : k < l /\ t[i] = s[k] /\ t[j] = s[l]

\* The head of b is taken out of a \o b.
LEMMA RemovedFromMiddle ==
  ASSUME NEW S, NEW a \in Seq(S), NEW b \in Seq(S), b # <<>>
  PROVE  PartOf(a \o Tail(b), a \o b)
<1>1. /\ Tail(b) \in Seq(S) /\ Len(Tail(b)) = Len(b) - 1
      /\ \A i \in 1..Len(Tail(b)) : Tail(b)[i] = b[i + 1]
  OBVIOUS
<1> DEFINE t == a \o Tail(b)
           s == a \o b
           m(i) == IF i <= Len(a) THEN i ELSE i + 1
<1>2. DOMAIN t = 1..(Len(a) + Len(b) - 1) /\ DOMAIN s = 1..(Len(a) + Len(b))
  BY <1>1
<1>3. ASSUME NEW i \in DOMAIN t
      PROVE  m(i) \in DOMAIN s /\ t[i] = s[m(i)] /\ i \in Nat
  <2>1. CASE i <= Len(a)
    BY <2>1, <1>1, <1>2
  <2>2. CASE i > Len(a)
    <3>1. t[i] = Tail(b)[i - Len(a)]
      BY <1>1, <1>2, <2>2
    <3>2. s[i + 1] = b[i + 1 - Len(a)]
      BY <1>1, <1>2, <2>2
    <3> QED BY <3>1, <3>2, <1>1, <1>2, <2>2
  <2> QED BY <2>1, <2>2, <1>2
<1>4. \A i, j \in DOMAIN t : i < j => m(i) < m(j)
  BY <1>2
<1> HIDE DEF t, s, m
<1>5. PartOf(t, s) BY <1>3, <1>4 DEF PartOf
<1> QED BY <1>5 DEF t, s

\* What recv() moves from c to b stays where it was.
LEMMA MovedAlong ==
  ASSUME NEW S, NEW b \in Seq(S), NEW c \in Seq(S), NEW n \in 0..Len(c)
  PROVE  (b \o SubSeq(c, 1, n)) \o SubSeq(c, n + 1, Len(c)) = b \o c
<1> DEFINE f == SubSeq(c, 1, n)
           g == SubSeq(c, n + 1, Len(c))
<1>1. f \o g = c
  <2>1. 1 \in 1..(Len(c) + 1) /\ n \in (1 - 1)..Len(c) /\ Len(c) \in n..Len(c)
    OBVIOUS
  <2>2. f \o g = SubSeq(c, 1, Len(c))
    BY <2>1, ConcatAdjacentSubSeq, Zenon
  <2>3. SubSeq(c, 1, Len(c)) = c
    BY SubSeqFull, Zenon
  <2> QED BY <2>2, <2>3
<1>2. f \in Seq(S) /\ g \in Seq(S)
  OBVIOUS
<1> HIDE DEF f, g
<1>3. (b \o f) \o g = b \o (f \o g)
  BY <1>2
<1> QED BY <1>3, <1>1 DEF f, g

LEMMA AppendedAtTheEnd ==
  ASSUME NEW S, NEW a \in Seq(S), NEW b \in Seq(S), NEW e \in S
  PROVE  a \o Append(b, e) = Append(a \o b, e) /\ a \o b \in Seq(S)
  OBVIOUS

LEMMA HandedOver ==
  ASSUME NEW S, NEW a \in Seq(S), NEW b \in Seq(S), NEW c \in Seq(S), b # <<>>
  PROVE  /\ Append(a, b[1]) \o (Tail(b) \o c) = a \o (b \o c)
         /\ Tail(b) \o c = Tail(b \o c) /\ b \o c # <<>> /\ b \o c \in Seq(S)
<1>1. Append(a, b[1]) \o (Tail(b) \o c) = a \o (b \o c)
  BY SMTT(30)
<1>2. Tail(b) \o c = Tail(b \o c)
  OBVIOUS
<1>3. b \o c # <<>> /\ b \o c \in Seq(S)
  <2>1. b \o c \in Seq(S) /\ Len(b \o c) = Len(b) + Len(c) /\ Len(b) > 0 /\ Len(c) >= 0
    OBVIOUS
  <2>2. Len(b \o c) > 0
    BY <2>1
  <2> QED BY <2>1, <2>2
<1> QED BY <1>1, <1>2, <1>3

\* Messages may drop out without disturbing the order of the others, and commands may
\* join those that have been sent.
LEMMA RepliesDropOut ==
  ASSUME RepliesInv, PartOf(OnTheWay', OnTheWay), deviceRead' = deviceRead,
         \A k \in 1..deviceRead : forwarded'[k] = forwarded[k]
  PROVE  RepliesInv'
<1>1. AcksInOrder'
  BY DEF RepliesInv, AcksInOrder, PartOf
<1>2. ASSUME NEW i \in DOMAIN OnTheWay', OnTheWay'[i].re # 0
      PROVE  \E k \in 1..deviceRead' : OnTheWay'[i].re = forwarded'[k].id
  <2>1. PICK k \in DOMAIN OnTheWay : OnTheWay'[i] = OnTheWay[k]
    BY DEF PartOf
  <2>2. PICK l \in 1..deviceRead : OnTheWay[k].re = forwarded[l].id
    BY <1>2, <2>1 DEF RepliesInv
  <2> QED BY <2>1, <2>2
<1> QED BY <1>1, <1>2 DEF RepliesInv

LEMMA SameIsPart == ASSUME NEW s PROVE PartOf(s, s)
  BY DEF PartOf

LEMMA TakenFromFront ==
  ASSUME TypeOK, ack_queue # <<>>, ack_queue' = Tail(ack_queue), UNCHANGED <<buffer, inbound>>
  PROVE  /\ OnTheWay \in Seq(Messages) /\ OnTheWay # <<>>
         /\ OnTheWay' = Tail(OnTheWay) /\ OnTheWay[1] = Head(ack_queue)
         /\ PartOf(OnTheWay', OnTheWay)
<1>f. ack_queue \in Seq(Messages) /\ buffer \in Seq(Messages) /\ inbound \in Seq(Messages)
  BY DEF TypeOK, Acks
<1>1. buffer \o inbound \in Seq(Messages)
  BY <1>f
<1> DEFINE d == buffer \o inbound
<1>o. OnTheWay = ack_queue \o d /\ OnTheWay' = Tail(ack_queue) \o d /\ d \in Seq(Messages)
  BY <1>1 DEF OnTheWay
<1> HIDE DEF d
<1>2. OnTheWay' = Tail(OnTheWay) /\ OnTheWay # <<>> /\ OnTheWay \in Seq(Messages)
  <2>1. /\ Tail(ack_queue) \o d = Tail(ack_queue \o d) /\ ack_queue \o d # <<>>
        /\ ack_queue \o d \in Seq(Messages)
    BY <1>f, <1>o, HandedOver
  <2> QED BY <2>1, <1>o
<1>3. OnTheWay[1] = Head(ack_queue)
  BY <1>f, <1>o
<1> HIDE DEF OnTheWay
<1>4. PartOf(Tail(OnTheWay), OnTheWay)
  BY <1>2, TailOfQueue DEF PartOf
<1> QED BY <1>2, <1>3, <1>4

\* What the device sends when it has read a command.
Answers(m) ==
  IF m.re = 0 /\ ~IsReply(m)
  THEN deviceRead' = deviceRead
  ELSE /\ deviceRead' = deviceRead + 1 /\ deviceRead < Len(forwarded)
       /\ m.re = forwarded[deviceRead + 1].id

\* What a step does to the messages: some drop out, the device reads a command, or one
\* comes to the end.
MessagesMove ==
  /\ \A k \in 1..Len(forwarded) : forwarded'[k] = forwarded[k]
  /\ \/ deviceRead' = deviceRead /\ PartOf(OnTheWay', OnTheWay)
     \/ deviceRead' = deviceRead + 1 /\ deviceRead < Len(forwarded) /\ OnTheWay' = OnTheWay
        /\ forwarded' = forwarded
     \/ /\ \E m \in Messages : OnTheWay' = Append(OnTheWay, m) /\ Answers(m)
        /\ forwarded' = forwarded

LEMMA MessagesStep == TypeOK /\ [Next]_vars => MessagesMove
<1> SUFFICES ASSUME TypeOK, [Next]_vars PROVE MessagesMove
  OBVIOUS
<1> USE DEF processVars, threadVars, socketVars, queueVars
<1>f. /\ forwarded \in Seq(Commands) /\ current \in Commands
      /\ ack_queue \in Seq(Messages) /\ buffer \in Seq(Messages) /\ inbound \in Seq(Messages)
      /\ deviceRead \in Nat /\ deviceRead <= Len(forwarded)
  <2>1. ack_queue \in Seq(Messages)
    BY DEF TypeOK, Acks
  <2> QED BY <2>1 DEF TypeOK
\* The steps that leave messages and commands alone.
<1>q. ASSUME UNCHANGED <<ack_queue, buffer, inbound, deviceRead, forwarded>>
      PROVE  MessagesMove
  BY <1>q, SameIsPart DEF OnTheWay, MessagesMove
<1>1. CASE Start BY <1>1, <1>q DEF Start
<1>2. CASE ConnectionSetup BY <1>2, <1>q DEF ConnectionSetup
<1>3. CASE Accept BY <1>3, <1>q DEF Accept
<1>4. CASE CheckAbort BY <1>4, <1>q DEF CheckAbort
<1>5. CASE GetCommand BY <1>5, <1>q DEF GetCommand
<1>6. CASE SendAccepted
  <2>1. /\ forwarded' = Append(forwarded, current) /\ OnTheWay' = OnTheWay
        /\ deviceRead' = deviceRead
    BY <1>6 DEF SendAccepted, OnTheWay
  <2>2. \A k \in 1..Len(forwarded) : forwarded'[k] = forwarded[k]
    BY <1>f, <2>1
  <2> QED BY <2>1, <2>2, SameIsPart DEF MessagesMove
<1>7. CASE SendRaises BY <1>7, <1>q DEF SendRaises
<1>8. CASE Finish BY <1>8, <1>q DEF Finish
<1>9. CASE Exit BY <1>9, <1>q DEF Exit
<1>10. CASE Interrupt BY <1>10, <1>q DEF Interrupt
<1>11. CASE ReaderCheck \/ ReaderSelect \/ ReaderRecvFails
  BY <1>11, <1>q DEF ReaderCheck, ReaderSelect, ReaderRecvFails
<1>12. CASE ReaderPuts
  <2> DEFINE m == buffer[1]
  <2>1. /\ buffer # <<>> /\ buffer' = Tail(buffer)
        /\ ack_queue' \in {ack_queue, Append(ack_queue, m)}
        /\ UNCHANGED <<inbound, deviceRead, forwarded>>
    BY <1>12 DEF ReaderPuts, TypeOK, Dispatch, NextMessage
  <2>2. CASE ack_queue' = Append(ack_queue, m)
    <3>1. Append(ack_queue, buffer[1]) \o (Tail(buffer) \o inbound)
            = ack_queue \o (buffer \o inbound)
      <4>1. /\ ack_queue \in Seq(Messages) /\ buffer \in Seq(Messages)
            /\ inbound \in Seq(Messages) /\ buffer # <<>>
        BY <1>f, <2>1
      <4> QED BY <4>1
    <3>2. OnTheWay' = OnTheWay
      BY <2>1, <2>2, <3>1 DEF OnTheWay
    <3> QED BY <2>1, <3>2, SameIsPart DEF MessagesMove
  <2>3. CASE ack_queue' = ack_queue
    <3>1. /\ Tail(buffer) \o inbound = Tail(buffer \o inbound)
          /\ buffer \o inbound # <<>> /\ buffer \o inbound \in Seq(Messages)
      BY <1>f, <2>1, HandedOver, SMTT(30)
    <3>2. PartOf(ack_queue \o Tail(buffer \o inbound), ack_queue \o (buffer \o inbound))
      BY <1>f, <3>1, RemovedFromMiddle
    <3>3. OnTheWay' = ack_queue \o Tail(buffer \o inbound)
      BY <2>1, <2>3, <3>1 DEF OnTheWay
    <3>4. PartOf(OnTheWay', OnTheWay)
      BY <3>2, <3>3 DEF OnTheWay
    <3> QED BY <2>1, <3>4 DEF MessagesMove
  <2> QED BY <2>1, <2>2, <2>3
<1>13. ASSUME NEW n \in 0..Len(inbound), ReaderReceives(n) PROVE MessagesMove
  <2>1. /\ inbound' = SubSeq(inbound, n + 1, Len(inbound))
        /\ buffer' = buffer \o SubSeq(inbound, 1, n)
        /\ UNCHANGED <<ack_queue, deviceRead, forwarded>>
    BY <1>13 DEF ReaderReceives
  <2>2. buffer' \o inbound' = buffer \o inbound
    BY <1>f, <2>1, MovedAlong
  <2>3. OnTheWay' = OnTheWay
    BY <2>1, <2>2 DEF OnTheWay
  <2> QED BY <2>1, <2>3, SameIsPart DEF MessagesMove
<1>14. CASE DeviceConnect \/ DeviceFail
  BY <1>14, <1>q DEF DeviceConnect, DeviceFail
<1>15. ASSUME NEW m \in Messages, inbound' = Append(inbound, m),
              UNCHANGED <<ack_queue, buffer, forwarded>>, Answers(m)
       PROVE  MessagesMove
  <2>1. /\ buffer \o Append(inbound, m) = Append(buffer \o inbound, m)
        /\ buffer \o inbound \in Seq(Messages)
    BY <1>f, AppendedAtTheEnd, Zenon
  <2>2. /\ ack_queue \o Append(buffer \o inbound, m) = Append(ack_queue \o (buffer \o inbound), m)
        /\ ack_queue \o (buffer \o inbound) \in Seq(Messages)
    BY <1>f, <2>1, AppendedAtTheEnd, ZenonT(60)
  <2>3. OnTheWay' = Append(OnTheWay, m)
    BY <1>15, <2>1, <2>2, Zenon DEF OnTheWay
  <2> QED BY <1>15, <2>3 DEF MessagesMove
<1>16. CASE DeviceRead
  <2>1. /\ deviceRead' = deviceRead + 1 /\ deviceRead < Len(forwarded)
        /\ UNCHANGED <<ack_queue, buffer, forwarded>>
    BY <1>16 DEF DeviceRead
  <2>2. CASE inbound' = inbound
    BY <2>1, <2>2 DEF MessagesMove, OnTheWay
  <2>3. ASSUME NEW type \in {"ACK", "NACK"},
               DeviceSends([type |-> type, re |-> forwarded[deviceRead'].id])
        PROVE  MessagesMove
    <3> DEFINE m == [type |-> type, re |-> forwarded[deviceRead'].id]
    <3>1. forwarded[deviceRead'].id \in Nat
      BY <1>f, <2>1, CommandIds
    <3>2. m \in Messages
      BY <3>1 DEF Messages
    <3>3. IsReply(m) /\ Answers(m)
      BY <2>1 DEF IsReply, Answers
    <3> HIDE DEF m
    <3>4. inbound' = Append(inbound, m)
      BY <2>3 DEF DeviceSends, m
    <3> QED BY <1>15, <2>1, <3>2, <3>3, <3>4
  <2> QED BY <1>16, <2>2, <2>3 DEF DeviceRead
<1>17. CASE DeviceData
  <2>1. PICK type \in {"DATA", "BAD"} : DeviceSends([type |-> type, re |-> 0])
    BY <1>17 DEF DeviceData
  <2> DEFINE m == [type |-> type, re |-> 0]
  <2>2. m \in Messages /\ Answers(m)
    BY <1>17 DEF Messages, Answers, IsReply, DeviceData
  <2>3. inbound' = Append(inbound, m) /\ UNCHANGED <<ack_queue, buffer, forwarded>>
    BY <1>17, <2>1 DEF DeviceSends, DeviceData
  <2> HIDE DEF m
  <2> QED BY <1>15, <2>2, <2>3
<1>18. ASSUME NEW kind \in Kinds, Issue(kind) PROVE MessagesMove
  BY <1>18, <1>q DEF Issue
<1>19. CASE TakeSignal \/ TakeReceived
  BY <1>19, <1>q DEF TakeSignal, TakeReceived
<1>20. CASE TakeAck
  BY <1>20, TakenFromFront DEF TakeAck, MessagesMove
<1>21. CASE UNCHANGED vars BY <1>21, <1>q DEF vars
<1> QED
  BY <1>1, <1>2, <1>3, <1>4, <1>5, <1>6, <1>7, <1>8, <1>9, <1>10, <1>11, <1>12, <1>13,
     <1>14, <1>16, <1>17, <1>18, <1>19, <1>20, <1>21
     DEF Next, ProcessStep, MainStep, ReaderStep, DeviceStep, ClientStep

LEMMA RepliesStep == TypeOK /\ CommandsInv /\ RepliesInv /\ [Next]_vars => RepliesInv'
<1> SUFFICES ASSUME TypeOK, CommandsInv, RepliesInv, MessagesMove PROVE RepliesInv'
  BY MessagesStep
<1>f. /\ forwarded \in Seq(Commands) /\ DOMAIN forwarded = 1..Len(forwarded)
      /\ Len(forwarded) \in Nat /\ deviceRead \in Nat /\ deviceRead <= Len(forwarded)
  BY DEF TypeOK
<1>1. CASE deviceRead' = deviceRead /\ PartOf(OnTheWay', OnTheWay)
  <2>1. \A k \in 1..deviceRead : forwarded'[k] = forwarded[k]
    BY <1>f DEF MessagesMove
  <2> QED BY <1>1, <2>1, RepliesDropOut
<1>2. CASE deviceRead' = deviceRead + 1 /\ OnTheWay' = OnTheWay /\ forwarded' = forwarded
  <2>1. \A k \in 1..deviceRead : k \in 1..deviceRead'
    BY <1>f, <1>2
  <2> QED BY <1>2, <2>1 DEF RepliesInv, AcksInOrder
<1>3. ASSUME NEW m \in Messages, OnTheWay' = Append(OnTheWay, m), Answers(m),
             forwarded' = forwarded
      PROVE  RepliesInv'
  <2>0. /\ deviceRead' \in {deviceRead, deviceRead + 1}
        /\ m.re # 0 => /\ deviceRead' = deviceRead + 1 /\ deviceRead + 1 \in DOMAIN forwarded
                       /\ m.re = forwarded[deviceRead + 1].id
    BY <1>f, <1>3 DEF Answers
  <2>1. OnTheWay \in Seq(Messages)
    BY DEF TypeOK, Acks, OnTheWay
  <2>2. \A i \in DOMAIN OnTheWay' :
             \/ i \in DOMAIN OnTheWay /\ OnTheWay'[i] = OnTheWay[i] /\ i < Len(OnTheWay) + 1
             \/ i = Len(OnTheWay) + 1 /\ OnTheWay'[i] = m
    BY <1>3, <2>1, AppendToQueue
  <2>3. ASSUME NEW i \in DOMAIN OnTheWay', OnTheWay'[i].re # 0
        PROVE  \E k \in 1..deviceRead' : OnTheWay'[i].re = forwarded'[k].id
    <3>1. CASE i \in DOMAIN OnTheWay /\ OnTheWay'[i] = OnTheWay[i]
      <4>1. PICK k \in 1..deviceRead : OnTheWay[i].re = forwarded[k].id
        BY <2>3, <3>1 DEF RepliesInv
      <4> QED BY <1>f, <1>3, <2>0, <3>1, <4>1
    <3>2. CASE OnTheWay'[i] = m
      <4>1. deviceRead + 1 \in 1..deviceRead'
        BY <1>f, <2>0, <2>3, <3>2
      <4> QED BY <1>3, <2>0, <2>3, <3>2, <4>1
    <3> QED BY <2>2, <3>1, <3>2
  <2>4. ASSUME NEW i \in DOMAIN OnTheWay', NEW j \in DOMAIN OnTheWay', i < j,
               OnTheWay'[i].re # 0, OnTheWay'[j].re # 0
        PROVE  OnTheWay'[i].re < OnTheWay'[j].re
    <3>1. i \in Nat /\ j \in Nat /\ Len(OnTheWay) \in Nat
      BY <1>3, <2>1, <2>2
    <3>2. i \in DOMAIN OnTheWay /\ OnTheWay'[i] = OnTheWay[i]
      BY <1>3, <2>1, <2>2, <2>4, <3>1
    <3>3. CASE j \in DOMAIN OnTheWay /\ OnTheWay'[j] = OnTheWay[j]
      BY <2>4, <3>2, <3>3 DEF RepliesInv, AcksInOrder
    <3>4. CASE OnTheWay'[j] = m
      <4>1. PICK k \in 1..deviceRead : OnTheWay[i].re = forwarded[k].id
        BY <2>4, <3>2 DEF RepliesInv
      <4>2. k \in DOMAIN forwarded /\ k < deviceRead + 1
        BY <1>f
      <4>3. m.re = forwarded[deviceRead + 1].id /\ deviceRead + 1 \in DOMAIN forwarded
        BY <2>0, <2>4, <3>4
      <4> QED BY <3>2, <3>4, <4>1, <4>2, <4>3 DEF CommandsInv, Increasing
    <3> QED BY <2>2, <3>3, <3>4
  <2> QED BY <2>3, <2>4 DEF RepliesInv, AcksInOrder
<1> QED BY <1>1, <1>2, <1>3 DEF MessagesMove

(* "the client pairs them with its sends by order alone": whatever one      *)
(* recv() returns together, replies are handed over in the order of the     *)
(* commands, for any number of commands in flight (lines 134-170, 179-189). *)
THEOREM RepliesInOrder == Spec => []AcksInOrder
<1>1. Init => CommandsInv /\ RepliesInv
  BY DEF Init, ProcessInit, CommandsInv, Increasing, RepliesInv, AcksInOrder, OnTheWay
<1>2. RepliesInv => AcksInOrder
  BY DEF RepliesInv
<1>3. UNCHANGED vars => UNCHANGED vars
  OBVIOUS
<1> QED
  BY <1>1, <1>2, TypeCorrect, CommandsStep, RepliesStep, PTL DEF Spec

-----------------------------------------------------------------------------
(* The client object *)

ObjectTypeInv ==
  /\ TypeOK
  /\ connection_status \in Statuses
  /\ call \in [Threads -> Calls]
  /\ returned \in Returns
  /\ resets \in Nat /\ firstOfProcess \in Nat /\ posix \in BOOLEAN

\* What a call does to the queues of an object that keeps its process.
QueueStep ==
  /\ UNCHANGED <<processVars, resets, firstOfProcess>>
  /\ \/ UNCHANGED <<issued, command_queue>>
     \/ \E kind \in Kinds : Put(kind)
  /\ \/ UNCHANGED <<connection_status, signal_queue>>
     \/ TakeStatus
  /\ received_queue' \in {received_queue, DropOne(received_queue)}
  /\ ack_queue' \in {ack_queue, DropOne(ack_queue)}

\* What reset() does to the process and the queues.
Renewal ==
  /\ \E signals \in Prefixes(signal_queue), data \in Prefixes(received_queue),
        acks \in Prefixes(ack_queue) : Renew(signals, data, acks)
  /\ UNCHANGED issued

LEMMA WholeIsPrefix == ASSUME NEW S, NEW q \in Seq(S) PROVE q \in Prefixes(q)
<1>1. SubSeq(q, 1, Len(q)) = q
  BY SubSeqFull
<1>2. Len(q) \in 0..Len(q)
  OBVIOUS
<1> QED BY <1>1, <1>2 DEF Prefixes

\* connect() starts the process.
StartStep == Start /\ UNCHANGED <<connection_status, resets, firstOfProcess>>

LEMMA ClientSteps ==
  ASSUME ObjectTypeInv, ClientNext
  PROVE  QueueStep \/ StartStep \/ Renewal
<1> USE DEF UpdateStatus, Return, Enter
<1>t. PICK t \in Threads :
    \/ GetConnectionStatus(t)
    \/ Connect(t) \/ ConnectPoll(t) \/ ConnectTimeout(t)
    \/ \E kind \in SendKinds : Send(t, kind)
    \/ \E op \in {"ack", "frame"} : SendAndWait(t, op)
    \/ AckArrives(t) \/ AckTimeout(t)
    \/ Receive(t) \/ ReceiveReturns(t)
    \/ Reset(t) \/ ResetJoined(t) \/ ResetJoinRaises(t)
    \/ ResetRaises(t) \/ ResetKills(t)
  BY DEF ClientNext
<1>v. ASSUME UNCHANGED vars, UNCHANGED <<connection_status, resets, firstOfProcess>>
      PROVE  QueueStep
  BY <1>v DEF QueueStep, vars, queueVars
<1>1. CASE GetConnectionStatus(t)
  BY <1>1 DEF GetConnectionStatus, QueueStep
<1>2. CASE Connect(t)
  BY <1>2 DEF Connect, StartStep
<1>3. CASE ConnectPoll(t)
  BY <1>3 DEF ConnectPoll, QueueStep
<1>4. CASE ConnectTimeout(t) \/ AckTimeout(t) \/ ResetJoinRaises(t)
  BY <1>4, <1>v DEF ConnectTimeout, AckTimeout, ResetJoinRaises
<1>5. ASSUME NEW kind \in SendKinds, Send(t, kind) PROVE QueueStep
  BY <1>5, KindsAssumption DEF Send, QueueStep
<1>6. ASSUME NEW op \in {"ack", "frame"}, SendAndWait(t, op) PROVE QueueStep
  BY <1>6 DEF SendAndWait, QueueStep, Kinds
<1>7. CASE AckArrives(t)
  BY <1>7 DEF AckArrives, AfterTaking, QueueStep, DropOne
<1>8. CASE Receive(t)
  BY <1>8 DEF Receive, QueueStep
<1>9. CASE ReceiveReturns(t)
  BY <1>9 DEF ReceiveReturns, QueueStep, DropOne
<1>10. CASE Reset(t)
  BY <1>10 DEF Reset, QueueStep, Kinds
<1>11. CASE ResetJoined(t)
  <2>1. /\ signal_queue \in Prefixes(signal_queue)
        /\ received_queue \in Prefixes(received_queue)
        /\ ack_queue \in Prefixes(ack_queue)
    BY WholeIsPrefix DEF ObjectTypeInv, TypeOK
  <2> QED BY <1>11, <2>1 DEF ResetJoined, Renewal
<1>12. CASE ResetRaises(t)
  BY <1>12 DEF ResetRaises, QueueStep
<1>13. CASE ResetKills(t)
  BY <1>13 DEF ResetKills, Renewal
<1> QED
  BY <1>t, <1>1, <1>2, <1>3, <1>4, <1>5, <1>6, <1>7, <1>8, <1>9, <1>10, <1>11, <1>12, <1>13

LEMMA ObjectSteps ==
  ASSUME ObjectTypeInv, [ObjectNext]_allVars
  PROVE  \/ [Start \/ ProcessStep]_vars /\ UNCHANGED <<connection_status, resets, firstOfProcess>>
         \/ QueueStep
         \/ Renewal
<1>1. CASE ProcessStep /\ UNCHANGED objectVars
  BY <1>1 DEF objectVars
<1>2. CASE ClientNext
  BY <1>2, ClientSteps DEF StartStep
<1>3. CASE UNCHANGED allVars
  BY <1>3 DEF allVars, objectVars
<1> QED BY <1>1, <1>2, <1>3 DEF ObjectNext

-----------------------------------------------------------------------------
(* Types *)

LEMMA DropKeepsType ==
  ASSUME NEW S, NEW q \in Seq(S)
  PROVE  DropOne(q) \in Seq(S)
  BY DEF DropOne

LEMMA PrefixKeepsType ==
  ASSUME NEW S, NEW q \in Seq(S), NEW p \in Prefixes(q)
  PROVE  p \in Seq(S)
  BY DEF Prefixes

LEMMA QueueStepType ==
  ASSUME ObjectTypeInv, QueueStep
  PROVE  TypeOK' /\ connection_status' \in Statuses /\ resets' \in Nat
         /\ firstOfProcess' \in Nat
<1>1. UNCHANGED <<processVars, resets, firstOfProcess>>
  BY DEF QueueStep
<1>2. issued' \in Nat /\ command_queue' \in Seq(Commands)
  <2>1. CASE UNCHANGED <<issued, command_queue>>
    BY <2>1 DEF ObjectTypeInv, TypeOK
  <2>2. ASSUME NEW kind \in Kinds, Put(kind) PROVE <1>2!1 /\ <1>2!2
    BY <2>2 DEF Put, ObjectTypeInv, TypeOK, Commands
  <2> QED BY <2>1, <2>2 DEF QueueStep
<1>3. connection_status' \in Statuses /\ signal_queue' \in Seq(Statuses)
  <2>1. connection_status \in Statuses /\ signal_queue \in Seq(Statuses)
    BY DEF ObjectTypeInv, TypeOK
  <2>2. CASE TakeStatus
    BY <2>1, <2>2 DEF TakeStatus
  <2> QED BY <2>1, <2>2 DEF QueueStep
<1>4. received_queue' \in Seq(Data) /\ ack_queue' \in Seq(Acks)
  BY DropKeepsType DEF QueueStep, ObjectTypeInv, TypeOK
<1> QED BY <1>1, <1>2, <1>3, <1>4
        DEF ObjectTypeInv, TypeOK, processVars, threadVars, socketVars

LEMMA RenewalType ==
  ASSUME ObjectTypeInv, Renewal
  PROVE  TypeOK' /\ connection_status' \in Statuses /\ resets' \in Nat
         /\ firstOfProcess' \in Nat
<1>1. PICK signals \in Prefixes(signal_queue), data \in Prefixes(received_queue),
           acks \in Prefixes(ack_queue) : Renew(signals, data, acks)
  BY DEF Renewal
<1>2. /\ signals \in Seq(Statuses) /\ data \in Seq(Data) /\ acks \in Seq(Acks)
  BY PrefixKeepsType DEF ObjectTypeInv, TypeOK
<1>3. /\ signal_queue' \in Seq(Statuses) /\ received_queue' \in Seq(Data)
      /\ ack_queue' \in Seq(Acks) /\ command_queue' \in Seq(Commands)
  BY <1>1, <1>2, DropKeepsType DEF Renew, ObjectTypeInv, TypeOK
<1>4. /\ main' = "new" /\ reader' = "off" /\ abort' = FALSE
      /\ current' = NoCommand /\ status' = "Unconnected"
      /\ conn' = "none" /\ inbound' = <<>> /\ buffer' = <<>>
      /\ forwarded' = <<>> /\ deviceRead' = 0 /\ produced' = 0
      /\ connection_status' = "Unconnected" /\ resets' = resets + 1
      /\ firstOfProcess' = issued + 1 /\ issued' = issued
  BY <1>1 DEF Renew, Renewal
<1>5. NoCommand \in Commands
  BY DEF NoCommand, Commands, Kinds
<1>6. /\ inbound' \in Seq(Messages) /\ buffer' \in Seq(Messages) /\ forwarded' \in Seq(Commands)
      /\ deviceRead' \in 0..Len(forwarded')
  BY <1>4
<1>7. /\ main' \in MainStates /\ reader' \in ReaderStates /\ conn' \in ConnStates
      /\ status' \in Statuses /\ connection_status' \in Statuses /\ reader' # "put"
  BY <1>4 DEF MainStates, ReaderStates, ConnStates, Statuses
<1>8. /\ resets \in Nat /\ issued \in Nat
  BY DEF ObjectTypeInv, TypeOK
<1>9. /\ current' \in Commands /\ produced' \in Nat /\ issued' \in Nat
      /\ resets' \in Nat /\ firstOfProcess' \in Nat
  BY <1>4, <1>5, <1>8
<1>10. abort' \in BOOLEAN
  BY <1>4
<1> QED BY <1>3, <1>6, <1>7, <1>9, <1>10 DEF TypeOK

\* Where a call ends, and with what.
LEMMA ReturnType ==
  ASSUME ObjectTypeInv, NEW t \in Threads, NEW op \in Ops \cup {"send", "reset", "status"},
         NEW value \in Values, Return(t, op, value)
  PROVE  call' \in [Threads -> Calls] /\ returned' \in Returns
<1>1. NoCall \in Calls
  BY DEF NoCall, Calls, Ops
<1>2. returned.astray \in BOOLEAN
  BY DEF ObjectTypeInv, Returns
<1>3. returned' = [op |-> op, value |-> value, n |-> 0, type |-> "NONE", re |-> 0,
                   astray |-> returned.astray \/ op \in {"send", "reset", "ack", "frame"}]
  BY DEF Return, NoReturn
<1>4. returned' \in Returns
  BY <1>2, <1>3 DEF Returns
<1> QED BY <1>1, <1>4 DEF Return, ObjectTypeInv

LEMMA EnterType ==
  ASSUME ObjectTypeInv, NEW t \in Threads, NEW op \in Ops, NEW n \in Nat, Enter(t, op, n)
  PROVE  call' \in [Threads -> Calls]
  BY DEF Enter, ObjectTypeInv, Calls

LEMMA ObjectTypeStep == ObjectTypeInv /\ [ObjectNext]_allVars => ObjectTypeInv'
<1> SUFFICES ASSUME ObjectTypeInv, [ObjectNext]_allVars PROVE ObjectTypeInv'
  OBVIOUS
<1>1. TypeOK' /\ connection_status' \in Statuses /\ resets' \in Nat /\ firstOfProcess' \in Nat
  BY ObjectSteps, TypeStep, QueueStepType, RenewalType DEF ObjectTypeInv, Next
<1>2. posix' \in BOOLEAN
  BY DEF ObjectNext, ObjectTypeInv, allVars, objectVars
<1>3. call' \in [Threads -> Calls] /\ returned' \in Returns
  <2>1. CASE UNCHANGED <<call, returned>>
    BY <2>1 DEF ObjectTypeInv
  <2>2. ASSUME NEW t \in Threads,
               \E op \in Ops \cup {"send", "reset", "status"}, value \in Values : Return(t, op, value)
        PROVE  <1>3!1 /\ <1>3!2
    BY <2>2, ReturnType
  <2>3. ASSUME NEW t \in Threads,
               \E op \in Ops, n \in Nat : Enter(t, op, n),
               UNCHANGED returned
        PROVE  <1>3!1 /\ <1>3!2
    BY <2>3, EnterType DEF ObjectTypeInv
  <2>4. ASSUME NEW t \in Threads, GetConnectionStatus(t) PROVE <1>3!1 /\ <1>3!2
    BY <2>2, <2>4 DEF GetConnectionStatus, Ops, Values, ObjectTypeInv
  <2>5. ASSUME NEW t \in Threads, Connect(t) PROVE <1>3!1 /\ <1>3!2
    BY <2>3, <2>5, PollsAssumption DEF Connect, Ops
  <2>6. ASSUME NEW t \in Threads, ConnectPoll(t) PROVE <1>3!1 /\ <1>3!2
    <3>1. CASE Return(t, "connect", "True")
      BY <2>2, <3>1 DEF Ops, Values
    <3>2. CASE call' = [call EXCEPT ![t].n = @ - 1] /\ UNCHANGED returned
      BY <2>6, <3>2 DEF ConnectPoll, ObjectTypeInv, Calls
    <3> QED BY <2>6, <3>1, <3>2 DEF ConnectPoll
  <2>7. ASSUME NEW t \in Threads, ConnectTimeout(t) PROVE <1>3!1 /\ <1>3!2
    BY <2>2, <2>7 DEF ConnectTimeout, Ops, Values
  <2>8. ASSUME NEW t \in Threads, NEW kind \in SendKinds, Send(t, kind)
        PROVE  <1>3!1 /\ <1>3!2
    BY <2>2, <2>8 DEF Send, Values
  <2>9. ASSUME NEW t \in Threads, NEW op \in {"ack", "frame"}, SendAndWait(t, op)
        PROVE  <1>3!1 /\ <1>3!2
    <3>1. issued' \in Nat
      BY <1>1 DEF TypeOK
    <3> QED BY <2>3, <2>9, <3>1 DEF SendAndWait, Ops
  <2>10. ASSUME NEW t \in Threads, AckArrives(t) PROVE <1>3!1 /\ <1>3!2
    <3> DEFINE ack == Head(ack_queue)
    <3>1. ack \in Acks
      BY <2>10 DEF AckArrives, ObjectTypeInv, TypeOK
    <3>2. ack.type \in {"ACK", "NACK"} /\ ack.re \in Nat
      BY <3>1 DEF Acks, Messages
    <3>3. call[t] \in Calls /\ call[t].op \in Ops /\ call[t].n \in Nat
          /\ returned.astray \in BOOLEAN
      BY DEF ObjectTypeInv, Calls, Returns
    <3>4. ValueFor(call[t].op, AckValue(ack)) \in Values
      BY <2>10 DEF AckArrives, Waiting, ValueFor, AckValue, Values
    <3>5. call' = [call EXCEPT ![t] = NoCall] /\ NoCall \in Calls
      BY <2>10 DEF AckArrives, NoCall, Calls, Ops
    <3>6. returned' = [op |-> call[t].op, value |-> ValueFor(call[t].op, AckValue(ack)),
                  n |-> call[t].n, type |-> ack.type, re |-> ack.re,
                  astray |-> returned.astray]
      BY <2>10 DEF AckArrives
    <3> HIDE DEF ack
    <3> QED BY <3>2, <3>3, <3>4, <3>5, <3>6 DEF Returns, ObjectTypeInv
  <2>11. ASSUME NEW t \in Threads, AckTimeout(t) PROVE <1>3!1 /\ <1>3!2
    <3>1. call[t].op \in {"ack", "frame"} /\ ValueFor(call[t].op, "None") \in Values
      BY <2>11 DEF AckTimeout, Waiting, ValueFor, Values
    <3> QED BY <2>2, <2>11, <3>1 DEF AckTimeout, Ops
  <2>12. ASSUME NEW t \in Threads, Receive(t) PROVE <1>3!1 /\ <1>3!2
    BY <2>2, <2>3, <2>12 DEF Receive, Ops, Values
  <2>13. ASSUME NEW t \in Threads, ReceiveReturns(t) PROVE <1>3!1 /\ <1>3!2
    BY <2>2, <2>13 DEF ReceiveReturns, Ops, Values
  <2>14. ASSUME NEW t \in Threads, Reset(t) PROVE <1>3!1 /\ <1>3!2
    BY <2>3, <2>14 DEF Reset, Ops, ObjectTypeInv
  <2>15. ASSUME NEW t \in Threads, ResetJoined(t) PROVE <1>3!1 /\ <1>3!2
    BY <2>2, <2>15 DEF ResetJoined, Values
  <2>16. ASSUME NEW t \in Threads, ResetJoinRaises(t) PROVE <1>3!1 /\ <1>3!2
    BY <2>2, <2>16 DEF ResetJoinRaises, Values
  <2>17. ASSUME NEW t \in Threads, ResetRaises(t) PROVE <1>3!1 /\ <1>3!2
    BY <2>2, <2>17 DEF ResetRaises, Values
  <2>18. ASSUME NEW t \in Threads, ResetKills(t) PROVE <1>3!1 /\ <1>3!2
    BY <2>2, <2>18 DEF ResetKills, Values
  <2> QED
    BY <2>1, <2>4, <2>5, <2>6, <2>7, <2>8, <2>9, <2>10, <2>11, <2>12, <2>13, <2>14, <2>15,
       <2>16, <2>17, <2>18 DEF ObjectNext, ClientNext, allVars, objectVars
<1> QED BY <1>1, <1>2, <1>3 DEF ObjectTypeInv

LEMMA ObjectTypeInit == ObjectInit => ObjectTypeInv
<1> SUFFICES ASSUME ObjectInit PROVE ObjectTypeInv
  OBVIOUS
<1>1. TypeOK
  BY TypeInit DEF ObjectInit
<1>2. NoCall \in Calls /\ NoReturn \in Returns
  BY DEF NoCall, Calls, NoReturn, Returns, Ops, Values
<1> QED BY <1>1, <1>2, PlatformsAssumption DEF ObjectInit, ObjectTypeInv, Statuses

-----------------------------------------------------------------------------
(* The order of the commands *)

LEMMA ObjectCommandsStep ==
  ObjectTypeInv /\ CommandsInv /\ [ObjectNext]_allVars => CommandsInv'
<1> SUFFICES ASSUME ObjectTypeInv, CommandsInv, [ObjectNext]_allVars PROVE CommandsInv'
  OBVIOUS
<1>1. CASE [Start \/ ProcessStep]_vars
  BY <1>1, CommandsStep DEF ObjectTypeInv, Next
<1>2. CASE QueueStep
  <2>1. UNCHANGED <<main, current, forwarded>>
    BY <1>2 DEF QueueStep, processVars, threadVars, socketVars
  <2>2. CASE UNCHANGED <<issued, command_queue>>
    BY <2>1, <2>2 DEF CommandsInv, Increasing
  <2>3. ASSUME NEW kind \in Kinds, Put(kind) PROVE CommandsInv'
    BY <2>1, <2>3, CommandIssued DEF Put, ObjectTypeInv
  <2> QED BY <1>2, <2>2, <2>3 DEF QueueStep
<1>3. CASE Renewal
  <2>1. /\ main' = "new" /\ forwarded' = <<>> /\ issued' = issued
        /\ command_queue' \in {command_queue, DropOne(command_queue)}
    BY <1>3 DEF Renewal, Renew
  <2>2. CASE command_queue' = command_queue
    BY <2>1, <2>2 DEF CommandsInv, Increasing
  <2>3. CASE command_queue # <<>> /\ command_queue' = Tail(command_queue)
    <3>1. \A i \in DOMAIN command_queue' :
             /\ i \in Nat /\ i + 1 \in DOMAIN command_queue
             /\ command_queue'[i] = command_queue[i + 1]
      BY <2>3, TailOfQueue DEF ObjectTypeInv, TypeOK
    <3>2. Increasing(command_queue')
      BY <3>1 DEF CommandsInv, Increasing
    <3> QED BY <2>1, <3>1, <3>2 DEF CommandsInv, Increasing
  <2> QED BY <2>1, <2>2, <2>3 DEF DropOne
<1> QED BY <1>1, <1>2, <1>3, ObjectSteps

(* Commands reach a connection in the order they were issued, none twice,   *)
(* however often the object is reset, by however many threads               *)
(* (canbadger.py:92-114, 144).                                              *)
THEOREM CommandsCorrect == ObjectSpec => []CommandsInOrder
<1>1. ObjectInit => CommandsInv
  BY DEF ObjectInit, Init, ProcessInit, CommandsInv, Increasing
<1>2. CommandsInv => CommandsInOrder
  BY DEF CommandsInv, Increasing, CommandsInOrder
<1> QED BY <1>1, <1>2, ObjectTypeInit, ObjectTypeStep, ObjectCommandsStep, PTL DEF ObjectSpec

-----------------------------------------------------------------------------
(* The status, for one client thread *)

Known(known, signals) == connection_status = known /\ signal_queue = signals

\* The object knows the status of its process, or will when it has taken the signals.
SignalsInv ==
  posix =>
    \/ status = "Unconnected" /\ Known("Unconnected", <<>>)
    \/ /\ status = "Connected"
       /\ Known("Unconnected", <<"Connected">>) \/ Known("Connected", <<>>)
    \/ /\ status = "Shutdown"
       /\ \/ Known("Unconnected", <<"Connected", "Shutdown">>)
          \/ Known("Connected", <<"Shutdown">>) \/ Known("Shutdown", <<>>)

\* It joins its own process, and only one that it knows to have connected.
JoinInv ==
  \A t \in Threads :
    call[t].op = "join" => call[t].n = resets /\ connection_status # "Unconnected"

StatusInv == LifecycleInv /\ SignalsInv /\ JoinInv

LEMMA ObjectLifecycleStep ==
  ObjectTypeInv /\ LifecycleInv /\ [ObjectNext]_allVars => LifecycleInv'
<1> SUFFICES ASSUME ObjectTypeInv, LifecycleInv, [ObjectNext]_allVars PROVE LifecycleInv'
  OBVIOUS
<1>1. CASE [Start \/ ProcessStep]_vars
  BY <1>1, LifecycleStep DEF Next
<1>2. CASE QueueStep
  BY <1>2, QueueStepType DEF QueueStep, processVars, threadVars, socketVars, LifecycleInv
<1>3. CASE Renewal
  <2>1. /\ main' = "new" /\ reader' = "off" /\ abort' = FALSE /\ status' = "Unconnected"
        /\ forwarded' = <<>>
    BY <1>3 DEF Renewal, Renew
  <2>2. TypeOK'
    BY <1>3, RenewalType
  <2> QED BY <2>1, <2>2 DEF LifecycleInv
<1> QED BY <1>1, <1>2, <1>3, ObjectSteps

\* What one thread does in and out of join().
LEMMA OneThread ==
  ASSUME ObjectTypeInv, NEW t, Threads = {t}, ClientNext
  PROVE  \/ call[t].op # "join" /\ call'[t].op # "join" /\ (QueueStep \/ StartStep)
         \/ Reset(t) \/ ResetJoined(t) \/ ResetJoinRaises(t)
         \/ ~posix /\ ResetKills(t)
<1> USE DEF Idle, Enter, Return, ObjectTypeInv, NoCall, Waiting
<1>0. call \in [{t} -> Calls]
  OBVIOUS
<1>1. CASE QueueStep \/ StartStep
  <2>1. CASE GetConnectionStatus(t)
    BY <1>0, <1>1, <2>1 DEF GetConnectionStatus
  <2>2. CASE Connect(t)
    BY <1>0, <1>1, <2>2 DEF Connect
  <2>3. CASE ConnectPoll(t)
    <3>1. call[t].op = "connect"
      BY <2>3 DEF ConnectPoll
    <3>2. CASE call' = [call EXCEPT ![t].n = @ - 1]
      BY <1>0, <1>1, <3>1, <3>2 DEF Calls
    <3>3. CASE call' = [call EXCEPT ![t] = NoCall]
      BY <1>0, <1>1, <3>1, <3>3
    <3> QED BY <2>3, <3>2, <3>3 DEF ConnectPoll
  <2>11. CASE ConnectTimeout(t)
    BY <1>0, <1>1, <2>11 DEF ConnectTimeout
  <2>4. ASSUME NEW kind \in SendKinds, Send(t, kind)
        PROVE  call[t].op # "join" /\ call'[t].op # "join"
    BY <1>0, <1>1, <2>4 DEF Send
  <2>5. ASSUME NEW op \in {"ack", "frame"}, SendAndWait(t, op)
        PROVE  call[t].op # "join" /\ call'[t].op # "join"
    BY <1>0, <1>1, <2>5 DEF SendAndWait
  <2>6. CASE AckArrives(t) \/ AckTimeout(t)
    BY <1>0, <1>1, <2>6 DEF AckArrives, AckTimeout
  <2>7. CASE Receive(t)
    BY <1>0, <1>1, <2>7 DEF Receive
  <2>8. CASE ReceiveReturns(t)
    BY <1>0, <1>1, <2>8 DEF ReceiveReturns
  <2>9. CASE ResetRaises(t)
    BY <1>0, <1>1, <2>9 DEF ResetRaises
  <2>10. CASE ResetKills(t)
    BY <2>10 DEF ResetKills
  <2> QED BY <1>1, <2>1, <2>2, <2>3, <2>4, <2>5, <2>6, <2>7, <2>8, <2>9, <2>10, <2>11
     DEF ClientNext
<1>2. CASE Renewal
  <2>1. resets' = resets + 1 /\ resets \in Nat
    BY <1>2 DEF Renewal, Renew
  <2>2. resets' # resets
    BY <2>1
  <2>3. ResetJoined(t) \/ ResetKills(t)
    BY <2>2 DEF ClientNext, GetConnectionStatus, Connect, ConnectPoll, ConnectTimeout, Send,
       SendAndWait, AckArrives, AckTimeout, Receive, ReceiveReturns, Reset, ResetJoinRaises,
       ResetRaises
  <2> QED BY <2>3 DEF ResetKills
<1> QED BY <1>1, <1>2, ClientSteps

\* The signals of the process.
LEMMA ProcessSignals ==
  ASSUME [Start \/ ProcessStep]_vars
  PROVE  \/ UNCHANGED <<status, signal_queue>>
         \/ /\ main = "accept" /\ status' = "Connected"
            /\ signal_queue' = Append(signal_queue, "Connected")
         \/ /\ main = "join" /\ status' = "Shutdown"
            /\ signal_queue' = Append(signal_queue, "Shutdown")
<1> USE DEF threadVars, processVars, queueVars, SetStatus
<1>1. CASE Start BY <1>1 DEF Start
<1>2. CASE Accept BY <1>2 DEF Accept
<1>3. CASE Finish BY <1>3 DEF Finish
<1>4. CASE ConnectionSetup \/ CheckAbort \/ GetCommand \/ SendAccepted \/ SendRaises \/ Exit
  BY <1>4 DEF ConnectionSetup, CheckAbort, GetCommand, SendAccepted, SendRaises, Exit
<1>5. CASE Interrupt BY <1>5 DEF Interrupt
<1>6. CASE ReaderStep
  BY <1>6 DEF ReaderStep, ReaderCheck, ReaderSelect, ReaderRecvFails, ReaderPuts, ReaderReceives
<1>7. CASE DeviceStep
  BY <1>7 DEF DeviceStep, DeviceConnect, DeviceRead, DeviceData, DeviceFail
<1>8. CASE UNCHANGED vars BY <1>8 DEF vars
<1> QED BY <1>1, <1>2, <1>3, <1>4, <1>5, <1>6, <1>7, <1>8 DEF ProcessStep, MainStep

LEMMA StatusStep ==
  ASSUME NEW t, Threads = {t}
  PROVE  ObjectTypeInv /\ StatusInv /\ [ObjectNext]_allVars => StatusInv'
<1> SUFFICES ASSUME ObjectTypeInv, StatusInv, [ObjectNext]_allVars PROVE StatusInv'
  OBVIOUS
<1>1. LifecycleInv'
  BY ObjectLifecycleStep DEF StatusInv
<1>2. posix' = posix
  BY DEF ObjectNext, objectVars, allVars
\* Concrete lists of signals.
<1>a. /\ Append(<<>>, "Connected") = <<"Connected">>
      /\ Append(<<>>, "Shutdown") = <<"Shutdown">>
      /\ Append(<<"Connected">>, "Shutdown") = <<"Connected", "Shutdown">>
  <2>1. Append(<<>>, "Connected") = <<"Connected">>
    OBVIOUS
  <2>2. Append(<<>>, "Shutdown") = <<"Shutdown">>
    OBVIOUS
  <2>3. ASSUME NEW a, NEW b PROVE Append(<<a>>, b) = <<a, b>>
    <3>1. Append(<<a>>, b) \in Seq({a, b}) /\ <<a, b>> \in Seq({a, b})
      OBVIOUS
    <3>2. Len(Append(<<a>>, b)) = 2 /\ Len(<<a, b>>) = 2
      OBVIOUS
    <3>3. /\ Append(<<a>>, b)[1] = a /\ Append(<<a>>, b)[2] = b
          /\ <<a, b>>[1] = a /\ <<a, b>>[2] = b
      OBVIOUS
    <3>4. \A i \in 1..2 : Append(<<a>>, b)[i] = <<a, b>>[i]
      BY <3>3
    <3> QED BY <3>1, <3>2, <3>4, SeqEqual
  <2> QED BY <2>1, <2>2, <2>3
<1>b. /\ Head(<<"Connected">>) = "Connected" /\ Tail(<<"Connected">>) = <<>>
      /\ Head(<<"Shutdown">>) = "Shutdown" /\ Tail(<<"Shutdown">>) = <<>>
      /\ Head(<<"Connected", "Shutdown">>) = "Connected"
      /\ Tail(<<"Connected", "Shutdown">>) = <<"Shutdown">>
  OBVIOUS
<1>s. /\ SignalsInv /\ LifecycleInv /\ JoinInv
  BY DEF StatusInv
<1>3. ASSUME [Start \/ ProcessStep]_vars, connection_status' = connection_status
      PROVE  SignalsInv'
  <2>1. CASE UNCHANGED <<status, signal_queue>>
    BY <1>2, <1>3, <2>1 DEF StatusInv, SignalsInv, Known
  <2>2. CASE main = "accept" /\ status' = "Connected"
             /\ signal_queue' = Append(signal_queue, "Connected")
    BY <1>2, <1>3, <2>2 DEF StatusInv, SignalsInv, Known, LifecycleInv
  <2>3. CASE main = "join" /\ status' = "Shutdown"
             /\ signal_queue' = Append(signal_queue, "Shutdown")
    <3>1. status = "Connected"
      BY <1>s, <2>3 DEF LifecycleInv
    <3>2. CASE posix /\ Known("Unconnected", <<"Connected">>)
      BY <1>a, <1>3, <2>3, <3>2 DEF SignalsInv, Known
    <3>3. CASE posix /\ Known("Connected", <<>>)
      BY <1>a, <1>3, <2>3, <3>3 DEF SignalsInv, Known
    <3> QED BY <1>2, <1>s, <3>1, <3>2, <3>3 DEF SignalsInv
  <2> QED BY <1>3, <2>1, <2>2, <2>3, ProcessSignals
\* A call that takes a signal, or none.
<1>4. ASSUME UNCHANGED status,
             UNCHANGED <<connection_status, signal_queue>> \/ TakeStatus
      PROVE  SignalsInv'
  <2>1. CASE UNCHANGED <<connection_status, signal_queue>>
    BY <1>2, <1>4, <2>1 DEF StatusInv, SignalsInv, Known
  <2>2. ASSUME TakeStatus, posix PROVE SignalsInv'
    <3>1. CASE Known("Unconnected", <<"Connected">>) /\ status = "Connected"
      BY <1>b, <1>4, <2>2, <3>1 DEF SignalsInv, Known, TakeStatus
    <3>2. CASE Known("Unconnected", <<"Connected", "Shutdown">>) /\ status = "Shutdown"
      BY <1>b, <1>4, <2>2, <3>2 DEF SignalsInv, Known, TakeStatus
    <3>3. CASE Known("Connected", <<"Shutdown">>) /\ status = "Shutdown"
      BY <1>b, <1>4, <2>2, <3>3 DEF SignalsInv, Known, TakeStatus
    <3>4. signal_queue # <<>>
      BY <2>2 DEF TakeStatus
    <3> QED BY <1>s, <2>2, <3>1, <3>2, <3>3, <3>4 DEF SignalsInv, Known
  <2> QED BY <1>2, <1>4, <2>1, <2>2 DEF SignalsInv
<1>5. CASE ProcessStep /\ UNCHANGED objectVars
  BY <1>1, <1>3, <1>5 DEF objectVars, StatusInv, JoinInv
<1>6. CASE UNCHANGED allVars
  BY <1>1, <1>3, <1>6 DEF allVars, objectVars, StatusInv, JoinInv
<1>7. CASE ClientNext
  <2>0. call \in [{t} -> Calls] /\ resets \in Nat
    BY DEF ObjectTypeInv
  <2>1. CASE call[t].op # "join" /\ call'[t].op # "join" /\ (QueueStep \/ StartStep)
    <3>1. SignalsInv'
      <4>1. CASE QueueStep
        BY <1>4, <4>1 DEF QueueStep, processVars, threadVars
      <4>2. CASE StartStep
        BY <1>3, <4>2 DEF StartStep
      <4> QED BY <2>1, <4>1, <4>2
    <3> QED BY <1>1, <2>1, <3>1 DEF StatusInv, JoinInv
  <2>2. CASE Reset(t)
    <3>1. SignalsInv'
      BY <1>4, <2>2 DEF Reset, UpdateStatus, processVars, threadVars
    <3>2. JoinInv'
      BY <2>0, <2>2 DEF Reset, Enter, JoinInv
    <3> QED BY <1>1, <3>1, <3>2 DEF StatusInv
  <2>3. CASE ResetJoined(t)
    <3>1. call'[t].op # "join" /\ connection_status # "Unconnected"
      BY <1>s, <2>0, <2>3 DEF ResetJoined, Return, NoCall, JoinInv
    <3>2. /\ status' = "Unconnected" /\ connection_status' = "Unconnected"
          /\ signal_queue' = DropOne(signal_queue)
      BY <2>3 DEF ResetJoined, Renew
    <3>3. posix => signal_queue \in {<<>>, <<"Shutdown">>}
      BY <1>s, <3>1 DEF SignalsInv, Known
    <3>4. posix => signal_queue' = <<>>
      BY <1>b, <3>2, <3>3 DEF DropOne
    <3> QED BY <1>1, <1>2, <3>1, <3>2, <3>4 DEF StatusInv, SignalsInv, Known, JoinInv
  <2>4. CASE ResetJoinRaises(t)
    <3>1. SignalsInv'
      BY <1>4, <2>4 DEF ResetJoinRaises, vars, processVars, threadVars, queueVars
    <3>2. JoinInv'
      BY <2>0, <2>4 DEF ResetJoinRaises, Return, NoCall, JoinInv
    <3> QED BY <1>1, <3>1, <3>2 DEF StatusInv
  <2>5. CASE ~posix /\ ResetKills(t)
    <3>1. JoinInv'
      BY <2>0, <2>5 DEF ResetKills, Return, NoCall, JoinInv
    <3> QED BY <1>1, <1>2, <2>5, <3>1 DEF StatusInv, SignalsInv
  <2> QED BY <1>7, <2>1, <2>2, <2>3, <2>4, <2>5, OneThread
<1> QED BY <1>5, <1>6, <1>7 DEF ObjectNext

(* "keeps track of the connection state": on Linux the status that one      *)
(* client thread knows, or will know when it has taken the signals, is that *)
(* of the process it owns, however often it resets the object               *)
(* (canbadger.py:95-114).                                                   *)
THEOREM StatusCorrect ==
  ASSUME NEW t, Threads = {t}
  PROVE  ObjectSpec => []StatusTracksProcess
<1>1. ObjectInit => StatusInv
  BY LifecycleInit, TypeInit
     DEF ObjectInit, Init, ProcessInit, StatusInv, SignalsInv, Known, JoinInv, NoCall
<1>2. SignalsInv => StatusTracksProcess
  <2> SUFFICES ASSUME SignalsInv, posix
               PROVE  LET statuses == <<connection_status>> \o signal_queue
                      IN  statuses[Len(statuses)] = status
    BY DEF StatusTracksProcess
  <2> DEFINE Last(s) == s[Len(s)]
  <2>1. ASSUME NEW a PROVE Last(<<a>> \o <<>>) = a
    OBVIOUS
  <2>2. ASSUME NEW a, NEW b PROVE Last(<<a>> \o <<b>>) = b
    OBVIOUS
  <2>3. ASSUME NEW a, NEW b, NEW c PROVE Last(<<a>> \o <<b, c>>) = c
    OBVIOUS
  <2> HIDE DEF Last
  <2>4. Last(<<connection_status>> \o signal_queue) = status
    <3>1. CASE signal_queue = <<>> /\ status = connection_status
      BY <2>1, <3>1
    <3>2. CASE \E b : signal_queue = <<b>> /\ status = b
      BY <2>2, <3>2
    <3>3. CASE \E b, c : signal_queue = <<b, c>> /\ status = c
      BY <2>3, <3>3
    <3> QED BY <3>1, <3>2, <3>3 DEF SignalsInv, Known
  <2> QED BY <2>4 DEF Last
<1>3. StatusInv => SignalsInv
  BY DEF StatusInv
<1> QED BY <1>1, <1>2, <1>3, ObjectTypeInit, ObjectTypeStep, StatusStep, PTL DEF ObjectSpec

-----------------------------------------------------------------------------
(* Replies, for one client thread *)

\* Every command that has not been answered is in N, and so is every command whose
\* reply has not been taken.
Unanswered(N) ==
  /\ \A i \in DOMAIN command_queue : command_queue[i].id \in N
  /\ main = "send" => current.id \in N
  /\ \A k \in DOMAIN forwarded : k > deviceRead => forwarded[k].id \in N
  /\ \A i \in DOMAIN OnTheWay : OnTheWay[i].re \in N \cup {0}

RepliesNumbered == \A i \in DOMAIN OnTheWay : IsReply(OnTheWay[i]) => OnTheWay[i].re # 0

\* No step of the process makes a command that nobody has issued.
LEMMA UnansweredStep ==
  ASSUME TypeOK, CommandsInv, [Start \/ ProcessStep]_vars, RepliesNumbered
  PROVE  RepliesNumbered' /\ \A N : Unanswered(N) => Unanswered(N)'
<1> USE DEF processVars, threadVars, socketVars, queueVars
<1>f. /\ forwarded \in Seq(Commands) /\ command_queue \in Seq(Commands) /\ current \in Commands
      /\ OnTheWay \in Seq(Messages) /\ deviceRead \in Nat /\ deviceRead <= Len(forwarded)
      /\ DOMAIN forwarded = 1..Len(forwarded) /\ Len(forwarded) \in Nat
  BY DEF TypeOK, Acks, OnTheWay
<1>m. MessagesMove
  BY MessagesStep DEF Next
\* The commands that are on their way to the device.
<1>1. \/ UNCHANGED <<command_queue, current, forwarded>> /\ (main' = "send" => main = "send")
      \/ GetCommand
      \/ SendAccepted
  <2>1. CASE Start BY <2>1 DEF Start
  <2>2. CASE ConnectionSetup \/ Accept \/ CheckAbort \/ SendRaises \/ Finish \/ Exit \/ Interrupt
    BY <2>2 DEF ConnectionSetup, Accept, CheckAbort, SendRaises, Finish, Exit, Interrupt,
                SetStatus
  <2>3. CASE ReaderStep
    BY <2>3 DEF ReaderStep, ReaderCheck, ReaderSelect, ReaderRecvFails, ReaderPuts,
                ReaderReceives
  <2>4. CASE DeviceStep
    BY <2>4 DEF DeviceStep, DeviceConnect, DeviceRead, DeviceData, DeviceFail
  <2>5. CASE UNCHANGED vars BY <2>5 DEF vars
  <2> QED BY <2>1, <2>2, <2>3, <2>4, <2>5 DEF ProcessStep, MainStep
<1>2. /\ \A i \in DOMAIN OnTheWay' :
           \/ \E k \in DOMAIN OnTheWay : OnTheWay'[i] = OnTheWay[k]
           \/ OnTheWay'[i].re = 0 /\ ~IsReply(OnTheWay'[i])
           \/ /\ deviceRead + 1 \in DOMAIN forwarded /\ deviceRead + 1 > deviceRead
              /\ OnTheWay'[i].re = forwarded[deviceRead + 1].id
      /\ deviceRead' \in Nat /\ deviceRead' >= deviceRead
  <2>1. CASE deviceRead' = deviceRead /\ PartOf(OnTheWay', OnTheWay)
    BY <1>f, <2>1 DEF PartOf
  <2>2. CASE deviceRead' = deviceRead + 1 /\ OnTheWay' = OnTheWay
    BY <1>f, <2>2
  <2>3. ASSUME NEW m \in Messages, OnTheWay' = Append(OnTheWay, m), Answers(m)
        PROVE  <1>2!1 /\ <1>2!2
    <3>1. \A i \in DOMAIN OnTheWay' :
               \/ i \in DOMAIN OnTheWay /\ OnTheWay'[i] = OnTheWay[i]
               \/ OnTheWay'[i] = m
      BY <1>f, <2>3, AppendToQueue
    <3>2. /\ deviceRead' \in {deviceRead, deviceRead + 1}
          /\ \/ m.re = 0 /\ ~IsReply(m)
             \/ deviceRead + 1 \in DOMAIN forwarded /\ m.re = forwarded[deviceRead + 1].id
      BY <1>f, <2>3 DEF Answers
    <3> QED BY <1>f, <3>1, <3>2
  <2> QED BY <1>m, <2>1, <2>2, <2>3 DEF MessagesMove
<1>3. RepliesNumbered'
  <2> SUFFICES ASSUME NEW i \in DOMAIN OnTheWay', IsReply(OnTheWay'[i])
               PROVE  OnTheWay'[i].re # 0
    BY DEF RepliesNumbered, IsReply
  <2>1. \A k \in DOMAIN forwarded : forwarded[k].id # 0
    BY DEF CommandsInv
  <2> QED BY <1>2, <2>1 DEF RepliesNumbered
<1>4. ASSUME NEW N, Unanswered(N) PROVE Unanswered(N)'
  <2>1. \A i \in DOMAIN OnTheWay' : OnTheWay'[i].re \in N \cup {0}
    BY <1>2, <1>4 DEF Unanswered
  <2>2. CASE UNCHANGED <<command_queue, current, forwarded>> /\ (main' = "send" => main = "send")
    <3>1. \A k \in DOMAIN forwarded' : k > deviceRead' => forwarded'[k].id \in N
      BY <1>2, <1>4, <1>f, <2>2 DEF Unanswered
    <3> QED BY <1>4, <2>1, <2>2, <3>1 DEF Unanswered
  <2>3. CASE GetCommand
    <3>1. /\ command_queue # <<>> /\ current' = command_queue[1]
          /\ command_queue' = Tail(command_queue) /\ UNCHANGED <<forwarded, deviceRead>>
      BY <2>3 DEF GetCommand, NextCommand
    <3>2. /\ 1 \in DOMAIN command_queue
          /\ \A i \in DOMAIN command_queue' :
               i + 1 \in DOMAIN command_queue /\ command_queue'[i] = command_queue[i + 1]
      BY <1>f, <3>1, TailOfQueue
    <3> QED BY <1>4, <2>1, <3>1, <3>2 DEF Unanswered
  <2>4. CASE SendAccepted
    <3>1. /\ main = "send" /\ main' = "check" /\ forwarded' = Append(forwarded, current)
          /\ UNCHANGED <<command_queue, deviceRead>>
      BY <2>4 DEF SendAccepted
    <3>2. \A i \in DOMAIN forwarded' :
               \/ i \in DOMAIN forwarded /\ forwarded'[i] = forwarded[i]
               \/ forwarded'[i] = current
      BY <1>f, <3>1, AppendToQueue
    <3> QED BY <1>4, <2>1, <3>1, <3>2 DEF Unanswered
  <2> QED BY <1>1, <2>2, <2>3, <2>4
<1> QED BY <1>3, <1>4

\* The commands whose reply thread t waits for: one at most.
Awaited(t) == IF Waiting(t) THEN {call[t].n} ELSE {}

\* As long as no call has ended without its reply.
NotAstray(t) ==
  /\ RepliesInv /\ RepliesNumbered
  /\ call[t].op # "join" => Unanswered(Awaited(t))
  /\ returned.type # "NONE" => returned.re = returned.n

AnswersInv(t) == ~returned.astray => NotAstray(t)

\* What the calls of a single thread do to the replies.
Elsewhere == UNCHANGED <<processVars, issued, command_queue, ack_queue>>

LEMMA CallsAndReplies ==
  ASSUME ObjectTypeInv, NEW t, Threads = {t}, ClientNext
  PROVE  \/ /\ Elsewhere \/ (StartStep /\ call[t].op = "idle")
            /\ call[t].op \notin {"join", "ack", "frame"}
            /\ call'[t].op \notin {"join", "ack", "frame"}
            /\ \/ UNCHANGED returned
               \/ returned'.type = "NONE" /\ returned'.astray = returned.astray
         \/ returned'.astray /\ returned'.type = "NONE"
         \/ \E op \in {"ack", "frame"} : SendAndWait(t, op)
         \/ AckArrives(t)
         \/ Reset(t)
<1> USE DEF Idle, Enter, Elsewhere
<1>0. call \in [{t} -> Calls] /\ returned \in Returns
  BY DEF ObjectTypeInv
<1>r. ASSUME NEW op, NEW value, Return(t, op, value)
      PROVE  /\ call'[t].op = "idle" /\ returned'.type = "NONE"
             /\ IF op \in {"send", "reset", "ack", "frame"}
                THEN returned'.astray ELSE returned'.astray = returned.astray
  BY <1>0, <1>r DEF Return, NoCall, NoReturn, Returns
<1>1. CASE GetConnectionStatus(t)
  <2>1. Elsewhere /\ call[t].op = "idle" /\ \E value : Return(t, "status", value)
    BY <1>1 DEF GetConnectionStatus
  <2> QED BY <2>1, <1>r
<1>2. CASE Connect(t)
  BY <1>0, <1>2 DEF Connect, StartStep
<1>3. CASE ConnectPoll(t)
  <2>1. call[t].op = "connect" /\ Elsewhere
    BY <1>3 DEF ConnectPoll
  <2>2. CASE call' = [call EXCEPT ![t].n = @ - 1] /\ UNCHANGED returned
    BY <1>0, <2>1, <2>2 DEF Calls
  <2>3. CASE Return(t, "connect", "True")
    BY <1>r, <2>1, <2>3
  <2> QED BY <1>3, <2>2, <2>3 DEF ConnectPoll
<1>4. CASE ConnectTimeout(t)
  BY <1>r, <1>4 DEF ConnectTimeout, vars, queueVars
<1>5. ASSUME NEW kind \in SendKinds, Send(t, kind)
      PROVE  returned'.astray /\ returned'.type = "NONE"
  BY <1>r, <1>5 DEF Send
<1>6. CASE AckTimeout(t)
  <2>1. \E op \in {"ack", "frame"} : \E value : Return(t, op, value)
    BY <1>6 DEF AckTimeout, Waiting
  <2> QED BY <2>1, <1>r
<1>7. CASE Receive(t)
  <2>1. Elsewhere /\ call[t].op = "idle"
    BY <1>7 DEF Receive
  <2>2. CASE Enter(t, "receive", 0) /\ UNCHANGED returned
    BY <1>0, <2>1, <2>2
  <2>3. CASE Return(t, "receive", "-1")
    BY <1>r, <2>1, <2>3
  <2> QED BY <1>7, <2>2, <2>3 DEF Receive
<1>8. CASE ReceiveReturns(t)
  <2>1. /\ Elsewhere /\ call[t].op = "receive"
        /\ \E value \in {"Message", "-1"} : Return(t, "receive", value)
    BY <1>8 DEF ReceiveReturns
  <2> QED BY <2>1, <1>r
<1>9. CASE ResetJoined(t) \/ ResetJoinRaises(t) \/ ResetRaises(t) \/ ResetKills(t)
  <2>1. \E value : Return(t, "reset", value)
    BY <1>9 DEF ResetJoined, ResetJoinRaises, ResetRaises, ResetKills
  <2> QED BY <2>1, <1>r
<1> QED
  BY <1>1, <1>2, <1>3, <1>4, <1>5, <1>6, <1>7, <1>8, <1>9 DEF ClientNext

LEMMA AnswersStep ==
  ASSUME NEW t, Threads = {t}
  PROVE  ObjectTypeInv /\ CommandsInv /\ AnswersInv(t) /\ [ObjectNext]_allVars => AnswersInv(t)'
<1> SUFFICES ASSUME ObjectTypeInv, CommandsInv, AnswersInv(t), [ObjectNext]_allVars
             PROVE  AnswersInv(t)'
  OBVIOUS
<1>f. /\ TypeOK /\ call \in [{t} -> Calls] /\ returned \in Returns
      /\ forwarded \in Seq(Commands) /\ command_queue \in Seq(Commands) /\ issued \in Nat
      /\ OnTheWay \in Seq(Messages) /\ deviceRead \in Nat /\ deviceRead <= Len(forwarded)
      /\ DOMAIN forwarded = 1..Len(forwarded) /\ Len(forwarded) \in Nat
  BY DEF ObjectTypeInv, TypeOK, Acks, OnTheWay
\* A step of the process.
<1>1. ASSUME [Start \/ ProcessStep]_vars, Waiting(t)' = Waiting(t),
             Waiting(t) => call'[t].n = call[t].n, (call'[t].op = "join") = (call[t].op = "join"),
             returned' = returned
      PROVE  AnswersInv(t)'
  <2>1. ASSUME NotAstray(t) PROVE NotAstray(t)'
    <3>1. RepliesInv'
      BY <1>f, <1>1, <2>1, RepliesStep DEF NotAstray, Next
    <3>2. RepliesNumbered' /\ \A N : Unanswered(N) => Unanswered(N)'
      BY <1>f, <1>1, <2>1, UnansweredStep DEF NotAstray
    <3>3. Awaited(t)' = Awaited(t)
      BY <1>1 DEF Awaited
    <3>4. (call[t].op # "join" => Unanswered(Awaited(t)))'
      <4>1. Unanswered(Awaited(t)) => Unanswered(Awaited(t))'
        BY <3>2, <3>3 DEF Unanswered
      <4> QED BY <1>1, <2>1, <4>1 DEF NotAstray
    <3> QED BY <1>1, <2>1, <3>1, <3>2, <3>4 DEF NotAstray
  <2> QED BY <1>1, <2>1 DEF AnswersInv
<1>2. CASE ProcessStep /\ UNCHANGED objectVars
  BY <1>1, <1>2 DEF objectVars, Waiting
<1>3. CASE UNCHANGED allVars
  BY <1>1, <1>3 DEF allVars, objectVars, Waiting
<1>4. CASE ClientNext
  <2>1. ASSUME Elsewhere,
               call[t].op \notin {"join", "ack", "frame"},
               call'[t].op \notin {"join", "ack", "frame"},
               \/ UNCHANGED returned
               \/ returned'.type = "NONE" /\ returned'.astray = returned.astray
        PROVE  AnswersInv(t)'
    <3>1. NotAstray(t) => NotAstray(t)'
      BY <2>1 DEF NotAstray, RepliesInv, AcksInOrder, RepliesNumbered, Unanswered, Awaited, Waiting,
                  Elsewhere, processVars, threadVars, socketVars, OnTheWay, IsReply
    <3> QED BY <2>1, <3>1 DEF AnswersInv
  <2>2. CASE returned'.astray /\ returned'.type = "NONE"
    BY <2>2 DEF AnswersInv
  <2>3. ASSUME NEW op \in {"ack", "frame"}, SendAndWait(t, op) PROVE AnswersInv(t)'
    <3>1. /\ UNCHANGED <<processVars, ack_queue, returned>> /\ issued' = issued + 1
          /\ command_queue' = Append(command_queue, [kind |-> "OTHER", id |-> issued'])
          /\ call' = [call EXCEPT ![t] = [op |-> op, n |-> issued']] /\ call[t].op = "idle"
      BY <2>3 DEF SendAndWait, Put, Enter, Idle
    <3>2. call'[t].op = op /\ call'[t].n = issued'
      BY <1>f, <3>1
    <3>3. ASSUME NEW n, n = issued', Unanswered({}) PROVE Unanswered({n})'
      <4> DEFINE e == [kind |-> "OTHER", id |-> n]
      <4>1. e \in Commands /\ e.id = n
        BY <1>f, <3>1, <3>3 DEF Commands, Kinds
      <4> HIDE DEF e
      <4>2. \A i \in DOMAIN command_queue' :
                 \/ i \in DOMAIN command_queue /\ command_queue'[i] = command_queue[i]
                 \/ command_queue'[i] = e
        BY <1>f, <3>1, <3>3, <4>1, AppendToQueue DEF e
      <4>3. \A i \in DOMAIN command_queue' : command_queue'[i].id \in {n}
        BY <3>3, <4>1, <4>2 DEF Unanswered
      <4> QED BY <3>1, <3>3, <4>3 DEF Unanswered, processVars, threadVars, socketVars, OnTheWay
    <3>4. ASSUME NotAstray(t) PROVE NotAstray(t)'
      <4>1. Unanswered({})
        BY <3>1, <3>4 DEF NotAstray, Awaited, Waiting
      <4>2. Unanswered(Awaited(t))'
        <5>1. PICK n : n = issued'
          OBVIOUS
        <5>2. Awaited(t)' = {n}
          BY <3>2, <5>1 DEF Awaited, Waiting
        <5>3. Unanswered({n})'
          BY <3>3, <4>1, <5>1
        <5> QED BY <5>2, <5>3 DEF Unanswered
      <4> QED BY <3>1, <3>4, <4>2 DEF NotAstray, RepliesInv, AcksInOrder, RepliesNumbered,
                  processVars, threadVars, socketVars, OnTheWay, IsReply
    <3> QED BY <3>1, <3>4 DEF AnswersInv
  <2>4. CASE AckArrives(t)
    <3> DEFINE ack == Head(ack_queue)
    <3>1. /\ ack_queue # <<>> /\ ack_queue' = Tail(ack_queue)
          /\ UNCHANGED <<processVars, issued, command_queue>> /\ call[t].op \in {"ack", "frame"}
          /\ call' = [call EXCEPT ![t] = NoCall]
          /\ returned' = [op |-> call[t].op, value |-> ValueFor(call[t].op, AckValue(ack)),
                  n |-> call[t].n, type |-> ack.type, re |-> ack.re,
                  astray |-> returned.astray]
      BY <2>4 DEF AckArrives, AfterTaking, Waiting
    <3>2. ack.type \in {"ACK", "NACK"}
      BY <1>f, <3>1 DEF TypeOK, Acks
    <3>4. /\ OnTheWay # <<>> /\ OnTheWay' = Tail(OnTheWay) /\ OnTheWay[1] = ack
          /\ PartOf(OnTheWay', OnTheWay)
      BY <1>f, <3>1, TakenFromFront DEF processVars, socketVars
    <3>5. ASSUME NotAstray(t) PROVE NotAstray(t)'
      <4>1. Unanswered({call[t].n})
        BY <3>1, <3>5 DEF NotAstray, Awaited, Waiting
      <4>2. /\ 1 \in DOMAIN OnTheWay
            /\ \A i \in DOMAIN OnTheWay' :
                 1 < i + 1 /\ i + 1 \in DOMAIN OnTheWay /\ OnTheWay'[i] = OnTheWay[i + 1]
        BY <1>f, <3>4, TailOfQueue
      <4>3. ack.re # 0 /\ ack.re = call[t].n
        BY <3>2, <3>4, <3>5, <4>1, <4>2 DEF NotAstray, RepliesNumbered, IsReply, Unanswered
      <4>4. PICK k \in 1..deviceRead : forwarded[k].id = call[t].n
        BY <3>4, <3>5, <4>2, <4>3 DEF NotAstray, RepliesInv
      <4>5. k \in DOMAIN forwarded /\ forwarded[k].id \in Nat /\ call[t].n \in Nat
        BY <1>f, <4>4, CommandIds
      \* The command is the only one there was.
      <4>6. DOMAIN command_queue = {}
        <5> SUFFICES ASSUME NEW i \in DOMAIN command_queue PROVE FALSE
          OBVIOUS
        <5>1. command_queue[i].id = call[t].n /\ forwarded[k].id < command_queue[i].id
          BY <4>1, <4>5 DEF Unanswered, CommandsInv
        <5> QED BY <4>4, <4>5, <5>1
      <4>7. main # "send"
        BY <4>1, <4>4, <4>5 DEF Unanswered, CommandsInv
      <4>8. \A l \in DOMAIN forwarded : ~(l > deviceRead)
        <5> SUFFICES ASSUME NEW l \in DOMAIN forwarded, l > deviceRead PROVE FALSE
          OBVIOUS
        <5>1. k < l
          BY <1>f, <4>4
        <5>2. forwarded[l].id = call[t].n
          BY <4>1 DEF Unanswered
        <5> QED BY <4>4, <4>5, <5>1, <5>2 DEF CommandsInv, Increasing
      <4>9. \A i \in DOMAIN OnTheWay' : OnTheWay'[i].re \in {0}
        <5> SUFFICES ASSUME NEW i \in DOMAIN OnTheWay', OnTheWay'[i].re # 0 PROVE FALSE
          OBVIOUS
        <5>1. OnTheWay[i + 1].re = call[t].n /\ i + 1 \in DOMAIN OnTheWay /\ 1 < i + 1
          BY <4>1, <4>2 DEF Unanswered
        <5>2. OnTheWay[1].re < OnTheWay[i + 1].re
          BY <3>4, <3>5, <4>2, <4>3, <5>1 DEF NotAstray, RepliesInv, AcksInOrder
        <5> QED BY <3>4, <4>3, <4>5, <5>1, <5>2
      <4>10. UNCHANGED <<main, current, forwarded, deviceRead, command_queue>>
        BY <3>1 DEF processVars, threadVars, socketVars
      <4>11. Unanswered({})'
        BY <4>6, <4>7, <4>8, <4>9, <4>10 DEF Unanswered
      <4>12. Unanswered(Awaited(t))'
        <5>1. Awaited(t)' = {}
          BY <1>f, <3>1 DEF Awaited, Waiting, NoCall
        <5> QED BY <4>11, <5>1 DEF Unanswered
      <4>13. RepliesInv'
        BY <3>4, <3>5, <4>10, RepliesDropOut DEF NotAstray
      <4>14. RepliesNumbered'
        BY <3>4, <3>5 DEF NotAstray, RepliesNumbered, PartOf, IsReply
      <4>15. returned'.re = returned'.n
        BY <3>1, <4>3
      <4> QED BY <4>12, <4>13, <4>14, <4>15 DEF NotAstray
    <3> QED BY <3>1, <3>5 DEF AnswersInv
  <2>5. CASE Reset(t)
    <3>1. /\ UNCHANGED <<processVars, ack_queue, returned>>
          /\ call' = [call EXCEPT ![t] = [op |-> "join", n |-> resets]]
      BY <2>5 DEF Reset, Enter
    <3>2. call'[t].op = "join"
      BY <1>f, <3>1
    <3>3. NotAstray(t) => NotAstray(t)'
      BY <3>1, <3>2 DEF NotAstray, RepliesInv, AcksInOrder, RepliesNumbered,
                  processVars, threadVars, socketVars, OnTheWay, IsReply
    <3> QED BY <3>1, <3>3 DEF AnswersInv
  <2>6. CASE StartStep /\ call[t].op = "idle" /\ call'[t].op \notin {"join", "ack", "frame"}
             /\ (\/ UNCHANGED returned
                 \/ returned'.type = "NONE" /\ returned'.astray = returned.astray)
    <3>1. Elsewhere \/ UNCHANGED returned \/ returned'.type = "NONE"
      BY <2>6
    <3>2. ASSUME NotAstray(t) PROVE NotAstray(t)'
      <4>1. RepliesInv'
        BY <1>f, <2>6, <3>2, RepliesStep DEF NotAstray, Next, StartStep
      <4>2. RepliesNumbered' /\ \A N : Unanswered(N) => Unanswered(N)'
        BY <1>f, <2>6, <3>2, UnansweredStep DEF NotAstray, StartStep
      <4>3. Unanswered({})
        BY <2>6, <3>2 DEF NotAstray, Awaited, Waiting
      <4>4. Unanswered(Awaited(t))'
        <5>1. Awaited(t)' = {}
          BY <2>6 DEF Awaited, Waiting
        <5>2. Unanswered({})'
          BY <4>2, <4>3
        <5> QED BY <5>1, <5>2 DEF Unanswered
      <4> QED BY <2>6, <3>2, <4>1, <4>2, <4>4 DEF NotAstray
    <3> QED BY <2>6, <3>2 DEF AnswersInv
  <2> QED BY <1>4, <2>1, <2>2, <2>3, <2>4, <2>5, <2>6, CallsAndReplies
<1> QED BY <1>2, <1>3, <1>4 DEF ObjectNext

(* "do we expect the CANBadger to ACK the message": the reply that a call   *)
(* of one client thread takes is the reply to its own command, as long as   *)
(* every command was waited for and none in vain - whatever the connection  *)
(* does meanwhile, for any number of calls (canbadger.py:141-157, 188-202). *)
THEOREM AnswersCorrect ==
  ASSUME NEW t, Threads = {t}
  PROVE  ObjectSpec => []AnsweredByOwnReply
<1>1. ObjectInit => CommandsInv /\ AnswersInv(t)
  BY DEF ObjectInit, Init, ProcessInit, CommandsInv, Increasing, RepliesInv, AcksInOrder,
     OnTheWay, AnswersInv, NotAstray, RepliesNumbered, NoCall, NoReturn, Waiting,
     Awaited, Unanswered
<1>2. AnswersInv(t) => AnsweredByOwnReply
  BY DEF AnswersInv, NotAstray, AnsweredByOwnReply
<1> QED
  BY <1>1, <1>2, ObjectTypeInit, ObjectTypeStep, ObjectCommandsStep, AnswersStep, PTL
     DEF ObjectSpec

-----------------------------------------------------------------------------
(* Commands from before a reset, for one client thread *)

Joining(t) == call[t].op = "join"

\* A RESET is the last command of its process, and puts an end to everything that
\* thread t could put in the queue meanwhile.
FreshInv(t) ==
  /\ posix
  /\ conn \in {"none", "invited", "pending", "open", "closed"}
  /\ firstOfProcess <= issued + 1
  /\ \A i \in DOMAIN command_queue :
       /\ command_queue[i].id >= firstOfProcess
       /\ command_queue[i].kind = "RESET" => i = Len(command_queue) /\ Joining(t)
  /\ main = "send" =>
       /\ current.id >= firstOfProcess
       /\ current.kind = "RESET" => command_queue = <<>> /\ Joining(t)
  /\ \A i \in DOMAIN forwarded : forwarded[i].id >= firstOfProcess
  /\ abort \/ main \in {"join", "exiting", "exited"} =>
       abort /\ command_queue = <<>> /\ Joining(t)

LEMMA FreshProcessStep ==
  ASSUME TypeOK, NEW t, FreshInv(t), [Start \/ ProcessStep]_vars, Failures = {},
         UNCHANGED <<posix, firstOfProcess, call>>
  PROVE  FreshInv(t)'
<1> USE DEF processVars, threadVars, socketVars, queueVars
<1>f. /\ forwarded \in Seq(Commands) /\ command_queue \in Seq(Commands) /\ current \in Commands
  BY DEF TypeOK
<1>j. Joining(t)' = Joining(t)
  BY DEF Joining
\* The steps that leave the commands alone and the loop running, or stopped.
<1>q. ASSUME UNCHANGED <<command_queue, forwarded, current, issued, abort>>,
             main' = "send" => main = "send",
             main' \in {"join", "exiting", "exited"} =>
               abort \/ main \in {"join", "exiting", "exited"},
             conn' \in {"none", "invited", "pending", "open", "closed"}
      PROVE  FreshInv(t)'
  BY <1>q, <1>j DEF FreshInv
<1>1. CASE Start BY <1>1, <1>q DEF Start, FreshInv
<1>2. CASE ConnectionSetup BY <1>2, <1>q DEF ConnectionSetup, FreshInv
<1>3. CASE Accept BY <1>3, <1>q DEF Accept, FreshInv
<1>4. CASE CheckAbort BY <1>4, <1>q DEF CheckAbort, LoopEnds, FreshInv
<1>5. CASE GetCommand
  <2>1. /\ command_queue # <<>> /\ current' = command_queue[1]
        /\ command_queue' = Tail(command_queue) /\ main' \in {"check", "send"}
        /\ UNCHANGED <<forwarded, issued, abort, conn>>
    BY <1>5 DEF GetCommand, NextCommand
  <2>2. /\ 1 \in DOMAIN command_queue /\ Len(command_queue') = Len(command_queue) - 1
        /\ Len(command_queue) \in Nat
        /\ \A i \in DOMAIN command_queue' :
             /\ i \in Nat /\ i + 1 \in DOMAIN command_queue
             /\ command_queue'[i] = command_queue[i + 1]
    BY <1>f, <2>1, TailOfQueue
  <2>3. \A i \in DOMAIN command_queue' :
             /\ command_queue'[i].id >= firstOfProcess
             /\ command_queue'[i].kind = "RESET" => i = Len(command_queue') /\ Joining(t)
    BY <2>2 DEF FreshInv
  <2>4. current'.id >= firstOfProcess
        /\ (current'.kind = "RESET" => command_queue' = <<>> /\ Joining(t))
    <3>1. current'.id >= firstOfProcess
          /\ (current'.kind = "RESET" => 1 = Len(command_queue) /\ Joining(t))
      BY <2>1, <2>2 DEF FreshInv
    <3>2. 1 = Len(command_queue) => command_queue' = <<>>
      BY <1>f, <2>1
    <3> QED BY <3>1, <3>2
  <2>5. ~abort
    BY <2>1 DEF FreshInv
  <2> QED BY <1>j, <2>1, <2>3, <2>4, <2>5 DEF FreshInv
<1>6. CASE SendAccepted
  <2>1. /\ main = "send" /\ main' = "check" /\ forwarded' = Append(forwarded, current)
        /\ conn' = conn /\ abort' = (abort \/ current.kind = "RESET")
        /\ UNCHANGED <<command_queue, current, issued>>
    BY <1>6 DEF SendAccepted, AbortAfter, FreshInv
  <2>2. \A i \in DOMAIN forwarded' :
             \/ i \in DOMAIN forwarded /\ forwarded'[i] = forwarded[i]
             \/ forwarded'[i] = current
    BY <1>f, <2>1, AppendToQueue
  <2>3. \A i \in DOMAIN forwarded' : forwarded'[i].id >= firstOfProcess
    BY <2>1, <2>2 DEF FreshInv
  <2> QED BY <1>j, <2>1, <2>3 DEF FreshInv
<1>7. CASE SendRaises BY <1>7 DEF SendRaises, FreshInv
<1>8. CASE Finish BY <1>8, <1>q DEF Finish, FreshInv
<1>9. CASE Exit BY <1>9, <1>q DEF Exit, FreshInv
<1>10. CASE Interrupt BY <1>10 DEF Interrupt
<1>11. CASE ReaderStep
  BY <1>11, <1>q DEF ReaderStep, ReaderCheck, ReaderSelect, ReaderRecvFails, ReaderPuts,
                     ReaderReceives, FreshInv
<1>12. CASE DeviceStep
  BY <1>12, <1>q DEF DeviceStep, DeviceConnect, DeviceRead, DeviceData, DeviceFail, FreshInv
<1>13. CASE UNCHANGED vars BY <1>13, <1>q DEF vars, FreshInv
<1> QED
  BY <1>1, <1>2, <1>3, <1>4, <1>5, <1>6, <1>7, <1>8, <1>9, <1>10, <1>11, <1>12, <1>13
     DEF ProcessStep, MainStep

\* A command put in the queue: a RESET when thread t joins, none else.
LEMMA FreshPut ==
  ASSUME ObjectTypeInv, NEW t, FreshInv(t), NEW kind \in Kinds, Put(kind), ~Joining(t),
         UNCHANGED <<processVars, posix, firstOfProcess>>,
         kind = "RESET" => Joining(t)'
  PROVE  FreshInv(t)'
<1> USE DEF processVars, threadVars, socketVars
<1> DEFINE e == [kind |-> kind, id |-> issued + 1]
<1>1. /\ issued \in Nat /\ firstOfProcess \in Nat /\ e \in Commands /\ command_queue \in Seq(Commands)
      /\ issued' = issued + 1 /\ command_queue' = Append(command_queue, e)
      /\ e.id = issued + 1 /\ e.kind = kind
  BY DEF Put, ObjectTypeInv, TypeOK, Commands
<1> HIDE DEF e
<1>2. /\ \A i \in DOMAIN command_queue' :
           \/ i \in DOMAIN command_queue /\ command_queue'[i] = command_queue[i]
           \/ i = Len(command_queue) + 1 /\ command_queue'[i] = e
      /\ Len(command_queue') = Len(command_queue) + 1
  BY <1>1, AppendToQueue
<1>3. ASSUME NEW i \in DOMAIN command_queue'
      PROVE  /\ command_queue'[i].id >= firstOfProcess
             /\ command_queue'[i].kind = "RESET" => i = Len(command_queue') /\ Joining(t)'
  <2>1. CASE i \in DOMAIN command_queue /\ command_queue'[i] = command_queue[i]
    BY <2>1 DEF FreshInv
  <2>2. CASE i = Len(command_queue) + 1 /\ command_queue'[i] = e
    BY <1>1, <1>2, <2>2 DEF FreshInv
  <2> QED BY <1>2, <2>1, <2>2
<1>4. ~abort /\ main \notin {"join", "exiting", "exited"}
      /\ (main = "send" => current.kind # "RESET")
  BY DEF FreshInv
<1>5. firstOfProcess <= issued' + 1
  BY <1>1 DEF FreshInv
<1> QED BY <1>3, <1>4, <1>5 DEF FreshInv

LEMMA FreshStep ==
  ASSUME NEW t, Threads = {t}, Failures = {}, "RESET" \notin SendKinds
  PROVE  ObjectTypeInv /\ StatusInv /\ FreshInv(t) /\ [ObjectNext]_allVars => FreshInv(t)'
<1> SUFFICES ASSUME ObjectTypeInv, StatusInv, FreshInv(t), [ObjectNext]_allVars
             PROVE  FreshInv(t)'
  OBVIOUS
<1>f. /\ TypeOK /\ call \in [{t} -> Calls] /\ issued \in Nat /\ resets \in Nat
  BY DEF ObjectTypeInv, TypeOK
<1>1. CASE ProcessStep /\ UNCHANGED objectVars
  BY <1>1, <1>f, FreshProcessStep DEF objectVars
<1>2. CASE UNCHANGED allVars
  BY <1>2, <1>f, FreshProcessStep DEF allVars, objectVars
<1>3. CASE ClientNext /\ UNCHANGED posix
  <2>1. CASE Reset(t)
    <3>1. Put("RESET") /\ UNCHANGED <<processVars, firstOfProcess>> /\ call[t].op = "idle"
          /\ call' = [call EXCEPT ![t] = [op |-> "join", n |-> resets]]
      BY <2>1 DEF Reset, Enter, Idle
    <3>2. ~Joining(t) /\ Joining(t)'
      BY <1>f, <3>1 DEF Joining
    <3> QED BY <1>3, <3>1, <3>2, FreshPut DEF Kinds
  <2>2. CASE ResetJoined(t)
    <3>1. main = "exited"
      BY <2>2 DEF ResetJoined, Joined, StatusInv, JoinInv
    <3>2. command_queue = <<>>
      BY <3>1 DEF FreshInv
    <3>3. /\ main' = "new" /\ conn' = "none" /\ abort' = FALSE /\ forwarded' = <<>>
          /\ firstOfProcess' = issued + 1 /\ issued' = issued /\ command_queue' = <<>>
      BY <2>2, <3>2 DEF ResetJoined, Renew, DropOne
    <3> QED BY <1>3, <1>f, <3>3 DEF FreshInv
  <2>3. CASE ResetJoinRaises(t)
    \* The status of an object that joins is known, that of a new one is not.
    <3>1. main = "new" /\ connection_status # "Unconnected"
      BY <2>3 DEF ResetJoinRaises, StatusInv, JoinInv
    <3>2. status = "Unconnected"
      BY <3>1 DEF StatusInv, LifecycleInv
    <3> QED BY <3>1, <3>2 DEF StatusInv, SignalsInv, Known, FreshInv
  <2>4. CASE ~posix
    BY <2>4 DEF FreshInv
  <2>5. CASE call[t].op # "join" /\ call'[t].op # "join" /\ StartStep
    <3>1. Joining(t)' = Joining(t)
      BY <2>5 DEF Joining
    <3> QED BY <1>3, <2>5, <3>1 DEF FreshInv, StartStep, Start, socketVars, queueVars
  <2>6. CASE call[t].op # "join" /\ call'[t].op # "join" /\ QueueStep
    <3>1. UNCHANGED <<processVars, firstOfProcess>> /\ Joining(t)' = Joining(t) /\ ~Joining(t)
      BY <2>6 DEF QueueStep, Joining
    <3>2. CASE UNCHANGED <<issued, command_queue>>
      BY <1>3, <3>1, <3>2 DEF FreshInv, processVars, threadVars, socketVars
    <3>3. ASSUME NEW kind \in Kinds, Put(kind), kind # "RESET" PROVE FreshInv(t)'
      BY <1>3, <3>1, <3>3, FreshPut
    <3>4. \/ UNCHANGED <<issued, command_queue>>
          \/ \E kind \in Kinds : Put(kind) /\ kind # "RESET"
      <4>1. CASE \E kind \in SendKinds : Send(t, kind)
        BY <4>1, KindsAssumption DEF Send
      <4>2. CASE \E op \in {"ack", "frame"} : SendAndWait(t, op)
        BY <4>2 DEF SendAndWait, Kinds
      <4>3. CASE Reset(t)
        BY <1>f, <2>6, <4>3 DEF Reset, Enter
      <4>4. CASE ResetJoined(t) \/ ResetKills(t)
        BY <2>6, <4>4, <1>f DEF ResetJoined, ResetKills, Renew, QueueStep
      <4> QED BY <1>3, <4>1, <4>2, <4>3, <4>4 DEF ClientNext, GetConnectionStatus, Connect, Start,
           ConnectPoll, ConnectTimeout, AckArrives, AckTimeout, Receive, ReceiveReturns,
           ResetJoinRaises, ResetRaises, vars, queueVars
    <3> QED BY <3>2, <3>3, <3>4
  <2> QED BY <1>3, <2>1, <2>2, <2>3, <2>4, <2>5, <2>6, OneThread
<1> QED BY <1>1, <1>2, <1>3 DEF ObjectNext

(* "empty the queues": on Linux, while nothing fails on the connection and  *)
(* one client thread ends it with reset() alone, a connection gets none of  *)
(* the commands from before the reset(), for any number of them: the RESET  *)
(* is the last one in the queue when reset() joins (canbadger.py:92-114).   *)
THEOREM FreshCorrect ==
  ASSUME NEW t, Threads = {t}, Failures = {}, Platforms = {TRUE}, "RESET" \notin SendKinds
  PROVE  ObjectSpec => []NoStaleCommand
<1>1. ObjectInit => StatusInv
  BY LifecycleInit, TypeInit
     DEF ObjectInit, Init, ProcessInit, StatusInv, SignalsInv, Known, JoinInv, NoCall
<1>2. ObjectInit => FreshInv(t)
  BY DEF ObjectInit, Init, ProcessInit, FreshInv
<1>3. FreshInv(t) => NoStaleCommand
  BY DEF FreshInv, NoStaleCommand
<1> QED
  BY <1>1, <1>2, <1>3, ObjectTypeInit, ObjectTypeStep, StatusStep, FreshStep, PTL
     DEF ObjectSpec
=============================================================================
