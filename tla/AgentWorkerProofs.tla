------------------------- MODULE AgentWorkerProofs -------------------------
(***************************************************************************)
(* The safety of AgentWorker and of the run inside it, for every number of *)
(* network changes.  The worker's invariant follows the reason of a        *)
(* trigger: wherever a run is cancelled while its session lives, the       *)
(* reason is still in the wake channel.  The run's invariant follows the   *)
(* address: what punched, closed and isRelay prove about where it came     *)
(* from.                                                                   *)
(***************************************************************************)
EXTENDS AgentWorker, TLAPS

InRelay == {"swapped", "stored", "marked", "done"}

RunInv ==
  /\ tun \in Run
  /\ tun.phase = "dial" => tun.enter = "no" /\ tun.recv = "idle" /\ tun.timer = "off"
  /\ tun.phase = "forced" => tun.timer = "off"
  /\ tun.timer = "armed" => tun.enter \in {"no", "done"}
  /\ tun.enter = "done" => tun.closed
  /\ tun.relay <=> tun.enter \in InRelay
  /\ tun.recv = "close" \/ tun.closed \/ tun.enter = "marked" => tun.punched
  /\ tun.phase \in {"open", "hello", "up"} => tun.closed
  /\ tun.recv = "mark" /\ ~tun.relay => tun.addr = "heard"
  /\ tun.punched /\ ~tun.relay /\ ~tun.late => tun.addr = "heard"
  /\ tun.relay /\ ~tun.crossed => tun.recv \notin {"info", "adopt"}
  /\ tun.enter \in {"stored", "marked", "done"} /\ ~tun.crossed => tun.addr = "server"

InRun == {"set", "running", "returned"}

WakeInv ==
  /\ worker \in WorkerSteps /\ session \in {"live", "cancelled"}
  /\ run \in {"none", "live", "cancelled"} /\ tunnelCancel \in {"nil", "run"}
  /\ ended \in {"none", "cancelled", "ingress", "other"} /\ wake \in BOOLEAN
  /\ tunnelCancel = "run" => run # "none"
  /\ run # "none" => worker \in InRun
  /\ held = "run" => run # "none"
  /\ agent = "woken" /\ held = "run" /\ session = "live" => wake
  /\ run = "cancelled" /\ session = "live" => wake
  /\ worker \in {"returned", "cleared"} => ended # "none"
  /\ worker \in {"returned", "cleared"} /\ ended = "cancelled" /\ session = "live" => wake
  /\ worker = "down" => ended = "ingress"

SafeInv == RunInv /\ WakeInv

-----------------------------------------------------------------------------
(* The run.                                                                 *)

\* The steps of the main goroutine and of the receiver.
LEMMA MainSteps ==
  ASSUME RunInv,
         (\E force \in BOOLEAN : Registered(force)) \/ ForcedRelay \/ PunchDone \/ OpenListener
  PROVE  RunInv'
<1>1. ASSUME NEW force \in BOOLEAN, Registered(force) PROVE RunInv'
  BY <1>1 DEF Registered, RunInv, Run, Phases, InRelay
<1>2. CASE ForcedRelay
  BY <1>2 DEF ForcedRelay, RunInv, Run, Phases, InRelay
<1>3. CASE PunchDone
  BY <1>3 DEF PunchDone, RunInv, Run, Phases, InRelay
<1>4. CASE OpenListener
  BY <1>4 DEF OpenListener, RunInv, Run, Phases, InRelay
<1> QED BY <1>1, <1>2, <1>3, <1>4

\* A run that connects, and a new one.
LEMMA Ends ==
  ASSUME RunInv, tun' = Fresh \/ (tun' = Up /\ (OpenDialer \/ ConsumeHandshake))
  PROVE  RunInv'
<1>1. CASE tun' = Fresh
  BY <1>1 DEF Fresh, RunInv, Run, Phases, InRelay
<1>2. CASE tun' = Up /\ (OpenDialer \/ ConsumeHandshake)
  BY <1>2 DEF Up, OpenDialer, ConsumeHandshake, RunInv, Run, Phases, InRelay
<1> QED BY <1>1, <1>2

\* The receiver: an address is adopted before the punch is marked, and only
\* one that looked at isRelay too early stores over the relay's.
LEMMA ReceiverKeeps ==
  ASSUME RunInv, Receives \/ ReceiverSteps
  PROVE  RunInv'
<1>1. CASE ReceivePeerInfo
  BY <1>1 DEF ReceivePeerInfo, Receiving, RunInv, Run, Phases, InRelay
<1>2. CASE ReceivePunch
  BY <1>2 DEF ReceivePunch, Receiving, RunInv, Run, Phases, InRelay
<1>3. CASE StorePeerInfo
  BY <1>3 DEF StorePeerInfo, RunInv, Run, Phases, InRelay
<1>4. CASE AdoptPeerAddr
  BY <1>4 DEF AdoptPeerAddr, RunInv, Run, Phases, InRelay
<1>5. CASE MarkPunched
  BY <1>5 DEF MarkPunched, RunInv, Run, Phases, InRelay
<1>6. CASE ClosePunched
  BY <1>6 DEF ClosePunched, RunInv, Run, Phases, InRelay
<1> QED BY <1>1, <1>2, <1>3, <1>4, <1>5, <1>6 DEF Receives, ReceiverSteps

\* The punch timer and enterRelay.
LEMMA RelayKeeps ==
  ASSUME RunInv, RelaySteps \/ TimerSteps
  PROVE  RunInv'
<1>1. CASE SwapRelay
  <2>1. (tun.recv \in {"info", "adopt"}) \in BOOLEAN
    OBVIOUS
  <2>2. tun' \in Run
    BY <1>1, <2>1 DEF SwapRelay, RunInv, Run
  <2>3. /\ tun'.crossed <=> tun.recv \in {"info", "adopt"}
        /\ tun'.enter = "swapped" /\ tun'.relay
        /\ tun'.phase = tun.phase /\ tun'.punched = tun.punched /\ tun'.closed = tun.closed
        /\ tun'.recv = tun.recv /\ tun'.timer = tun.timer
    BY <1>1 DEF SwapRelay, RunInv, Run
  <2> QED BY <1>1, <2>2, <2>3 DEF SwapRelay, RunInv, InRelay
<1>2. CASE StoreServer
  BY <1>2 DEF StoreServer, RunInv, Run, Phases, InRelay
<1>3. CASE MarkRelay
  BY <1>3 DEF MarkRelay, RunInv, Run, Phases, InRelay
<1>4. CASE CloseRelay
  BY <1>4 DEF CloseRelay, RunInv, Run, Phases, InRelay
<1>5. CASE TimerFires
  BY <1>5 DEF TimerFires, RunInv, Run, Phases, InRelay
<1>6. CASE TimerStops
  BY <1>6 DEF TimerStops, RunInv, Run, Phases, InRelay
<1> QED BY <1>1, <1>2, <1>3, <1>4, <1>5, <1>6 DEF RelaySteps, TimerSteps

\* Every step of the agent keeps what the run's shared atomics promise.
LEMMA RunStepKeeps == RunInv /\ [Next]_vars => RunInv'
<1> SUFFICES ASSUME RunInv, [Next]_vars PROVE RunInv'
  OBVIOUS
<1>1. CASE UNCHANGED tun
  BY <1>1 DEF RunInv
<1>2. ASSUME NEW why, Returns(why) PROVE RunInv'
  BY <1>2, Ends DEF Returns
<1>3. CASE RunConnects
  BY <1>3, Ends DEF RunConnects
<1>4. CASE \E force \in BOOLEAN : Within(Registered(force))
  BY <1>4, MainSteps DEF Within
<1>5. CASE Within(OpenListener)
  BY <1>5, MainSteps DEF Within
<1>6. CASE Within(Receives)
  BY <1>6, ReceiverKeeps DEF Within
<1>7. CASE Within(OwnSteps)
  BY <1>7, MainSteps, ReceiverKeeps, RelayKeeps DEF Within, OwnSteps
<1>8. CASE RunFails \/ RunCancelled
  BY <1>2, <1>8 DEF RunFails, RunCancelled
<1>9. \/ RunFails \/ RunCancelled \/ RunConnects \/ Within(OpenListener) \/ Within(Receives)
      \/ Within(OwnSteps) \/ (\E force \in BOOLEAN : Within(Registered(force)))
      \/ UNCHANGED tun
  BY DEF Next, WorkerStep, RunStep, TickerStep, AgentStep, TriggerStep, Done, vars,
         TopExit, Exit, Connecting, SetTunnelCancel, StartRun, ClearTunnelCancel, ClearedExit,
         Drain, TakeWake, AfterFailure, WaitExit, WaitWake, BackoffOver, TickerReports,
         TickerStops, RefreshNAT, TriggerReads, TriggerWakes, TriggerCancels, Stop, Stopped
<1> QED BY <1>1, <1>3, <1>4, <1>5, <1>6, <1>7, <1>8, <1>9

-----------------------------------------------------------------------------
(* The worker and the agent loop.                                           *)

\* The worker's own steps.  It takes the reason only where no run is left
\* that it could have cancelled.
LEMMA WorkerKeeps ==
  ASSUME WakeInv, WorkerStep \/ RunStep
  PROVE  WakeInv'
<1> USE DEF WakeInv, WorkerSteps, InRun
<1>1. CASE TopExit \/ ClearedExit \/ WaitExit
  BY <1>1 DEF TopExit, ClearedExit, WaitExit, Waiting, Exit, agentVars
<1>2. CASE Connecting
  BY <1>2 DEF Connecting, agentVars
<1>3. CASE SetTunnelCancel
  BY <1>3 DEF SetTunnelCancel, agentVars
<1>4. CASE StartRun
  BY <1>4 DEF StartRun, agentVars
<1>5. ASSUME NEW why \in {"ingress", "other"}, Returns(why) PROVE WakeInv'
  BY <1>5 DEF Returns, agentVars
<1>6. CASE run = "cancelled" /\ Returns("cancelled")
  BY <1>6 DEF Returns, agentVars
<1>7. CASE ClearTunnelCancel
  BY <1>7 DEF ClearTunnelCancel
<1>8. CASE Drain \/ WaitWake
  BY <1>8 DEF Drain, WaitWake, Waiting, TakeWake, agentVars
<1>9. CASE AfterFailure
  BY <1>9 DEF AfterFailure, agentVars
<1>10. CASE BackoffOver
  BY <1>10 DEF BackoffOver, agentVars
<1>11. CASE RunConnects
  BY <1>11 DEF RunConnects, agentVars
<1>12. ASSUME UNCHANGED <<workerVars, agentVars, wake>> PROVE WakeInv'
  BY <1>12 DEF workerVars, agentVars
<1> HIDE DEF WakeInv
<1> QED BY <1>1, <1>2, <1>3, <1>4, <1>5, <1>6, <1>7, <1>8, <1>9, <1>10, <1>11, <1>12
        DEF WorkerStep, RunStep, RunCancelled, RunFails, Within

\* The agent loop's steps: trigger puts the reason in before it cancels.
LEMMA AgentKeeps ==
  ASSUME WakeInv, AgentStep \/ TickerStep \/ Done \/ UNCHANGED vars
  PROVE  WakeInv'
<1> USE DEF WakeInv, WorkerSteps, InRun
<1>1. CASE RefreshNAT
  BY <1>1 DEF RefreshNAT, workerVars
<1>2. CASE TriggerReads
  BY <1>2 DEF TriggerReads, workerVars
<1>3. CASE TriggerWakes
  BY <1>3 DEF TriggerWakes, workerVars
<1>4. CASE TriggerCancels
  BY <1>4 DEF TriggerCancels
<1>5. CASE Stop
  BY <1>5 DEF Stop
<1>6. CASE Stopped
  BY <1>6 DEF Stopped, workerVars
<1>7. CASE TickerStep
  BY <1>7 DEF TickerStep, TickerReports, TickerStops, workerVars, agentVars
<1>8. CASE Done \/ UNCHANGED vars
  BY <1>8 DEF Done, vars, workerVars, agentVars
<1> HIDE DEF WakeInv
<1> QED BY <1>1, <1>2, <1>3, <1>4, <1>5, <1>6, <1>7, <1>8 DEF AgentStep, TriggerStep

\* A worker that has not begun.
LEMMA SafeStart == Init => SafeInv
<1>1. Init => RunInv
  BY DEF Init, RunInv, Fresh, Run, Phases, InRelay
<1>2. Init => WakeInv
  BY DEF Init, WakeInv, WorkerSteps, InRun
<1> QED BY <1>1, <1>2 DEF SafeInv

\* Every step of the worker, the agent loop and the run keeps both parts.
LEMMA SafeStep == SafeInv /\ [Next]_vars => SafeInv'
<1>1. WakeInv /\ [Next]_vars => WakeInv'
  BY WorkerKeeps, AgentKeeps DEF Next
<1> QED BY <1>1, RunStepKeeps DEF SafeInv

\* The inductive invariant holds in every state, whatever the fairness.
LEMMA AlwaysSafe == FairSpec => []SafeInv
BY SafeStart, SafeStep, PTL DEF FairSpec

\* Only a port that cannot be listened on takes a worker down for good,
\* however trigger, the end of the run and the worker's waits interleave.
THEOREM NeverDownByTrigger == FairSpec => []DownOnlyForIngress
<1>1. SafeInv => DownOnlyForIngress
  BY DEF SafeInv, WakeInv, DownOnlyForIngress
<1> QED BY <1>1, AlwaysSafe, PTL

\* A tunnel that goes on as p2p sends to where the peer was heard, unless a
\* later PeerInfo replaced that address.
THEOREM SendsWhereHeard == FairSpec => []HeardPath
<1>1. SafeInv => HeardPath
  BY DEF SafeInv, RunInv, HeardPath
<1> QED BY <1>1, AlwaysSafe, PTL

\* Once enterRelay is through, the tunnel sends to the server, unless the
\* receiver had read isRelay just before it was set.
THEOREM RelayKept == FairSpec => []RelayPath
<1>1. SafeInv => RelayPath
  BY DEF SafeInv, RunInv, RelayPath
<1> QED BY <1>1, AlwaysSafe, PTL
=============================================================================
